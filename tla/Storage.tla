------------------------------ MODULE Storage ------------------------------
(***************************************************************************)
(* emulator/src/gpu/storage.cpp: the memory of the emulated device, a      *)
(* function from addresses below _size to bytes.  A value of several bytes *)
(* is kept with the most significant one first, and written byte by byte,  *)
(* each address checked as its turn comes: of a value that crosses the end *)
(* of the storage the first bytes are written before the exception.        *)
(***************************************************************************)
EXTENDS Words

init(bufferSize) == [a \in 0 .. bufferSize - 1 |-> 0]

(* The result of a write, and whether validate_addr threw. *)
write_data(data, addr, offset, bytes) ==
  LET at(k) == u64(addr + offset + k - 1)
      written == {k \in 1 .. Len(bytes) : \A j \in 1 .. k : at(j) \in DOMAIN data}
  IN [data |-> [a \in DOMAIN data |->
                  IF \E k \in written : at(k) = a
                  THEN bytes[CHOOSE k \in written : at(k) = a] ELSE data[a]],
      thrown |-> written # 1 .. Len(bytes)]

(* read_data and read_4_bytes.  The loop runs while the address is below   *)
(* addr + byteSize, a sum that may wrap: it then reads nothing.            *)
read_data(data, address, offset, byteSize) ==
  LET addr == u64(address + offset)
      n    == IF addr + byteSize < 2^(2 * W) THEN byteSize ELSE 0
  IN IF \A a \in addr .. addr + n - 1 : a \in DOMAIN data
     THEN [bytes |-> [k \in 1 .. n |-> data[addr + k - 1]], thrown |-> FALSE]
     ELSE [bytes |-> <<>>, thrown |-> TRUE]

=============================================================================
