----------------------------- MODULE Dispatcher -----------------------------
(***************************************************************************)
(* emulator/src/gpu/dispatcher.cpp: cuts the ND-range of a kernel into     *)
(* work groups.  The code counts in size_t; Partition shows that nothing   *)
(* it subtracts goes below zero, so plain integers do.                     *)
(***************************************************************************)
EXTENDS Integers

CONSTANT Sizes  (* the sizes of ND-ranges and of work groups *)

(* clEnqueueNDRangeKernel refuses a global size of 0 and parseKernelConfig *)
(* a local one.                                                            *)
ASSUME SizesAssumption == Sizes \subseteq Nat \ {0}

Dims == 1 .. 3  (* X, Y and Z *)

VARIABLES
  ndRange,       (* KernelConfig::globalWorkSize                           *)
  wgSize,        (* KernelConfig::localWorkSize                            *)
  curId,         (* curIdX, curIdY and curIdZ                              *)
  dispatchedWg,
  served         (* history: the work items of the groups so far           *)

config == <<ndRange, wgSize>>
dispatcherVars == <<config, curId, dispatchedWg, served>>

Init ==
  /\ ndRange \in Sizes \X Sizes \X Sizes
  /\ wgSize \in Sizes \X Sizes \X Sizes
  /\ curId = <<0, 0, 0>>
  /\ dispatchedWg = 0
  /\ served = {}

-----------------------------------------------------------------------------
Amount(d) == (ndRange[d] - 1) \div wgSize[d] + 1

wgAmount == Amount(1) * Amount(2) * Amount(3)

HasNextWg == dispatchedWg < wgAmount

(* The work items left in a dimension, and how many the next group takes. *)
Left(d) == ndRange[d] - curId[d] * wgSize[d]

Size(d) == IF wgSize[d] < Left(d) THEN wgSize[d] ELSE Left(d)

First(d) == curId[d] * wgSize[d]
Span(d) == First(d) .. First(d) + Size(d) - 1

(* The global ids of the work items of the next group. *)
NextItems == Span(1) \X Span(2) \X Span(3)

(* MUTANT: a row ends when a group is smaller than the others. *)
AdvanceAtShortGroup ==
  LET row == Size(1) # wgSize[1]
      plane == row /\ Size(2) # wgSize[2]
  IN  << IF row THEN 0 ELSE curId[1] + 1,
         IF plane THEN 0 ELSE IF row THEN curId[2] + 1 ELSE curId[2],
         IF plane THEN curId[3] + 1 ELSE curId[3] >>

(* A row ends with the group that takes what is left of it. *)
Advance ==
  LET row == Left(1) = Size(1)
      plane == row /\ Left(2) = Size(2)
  IN  << IF row THEN 0 ELSE curId[1] + 1,
         IF plane THEN 0 ELSE IF row THEN curId[2] + 1 ELSE curId[2],
         IF plane THEN curId[3] + 1 ELSE curId[3] >>

(* next_wg, which has no group to return when nothing is left in some      *)
(* dimension.                                                              *)
NextWg ==
  /\ HasNextWg
  /\ \A d \in Dims : Left(d) > 0
  /\ curId' = Advance
  /\ dispatchedWg' = dispatchedWg + 1
  /\ served' = served \cup NextItems
  /\ UNCHANGED config

Next == NextWg

Spec == Init /\ [][Next]_dispatcherVars

-----------------------------------------------------------------------------
Items == (0 .. ndRange[1] - 1) \X (0 .. ndRange[2] - 1) \X (0 .. ndRange[3] - 1)

(* Every variable holds a value of its type. *)
TypeOK ==
  /\ ndRange \in (Nat \ {0}) \X (Nat \ {0}) \X (Nat \ {0})
  /\ wgSize \in (Nat \ {0}) \X (Nat \ {0}) \X (Nat \ {0})
  /\ curId \in Nat \X Nat \X Nat
  /\ dispatchedWg \in Nat
  /\ served \subseteq Items

(* The groups that has_next_wg announces cut the ND-range into pieces:     *)
(* each has work items, all of them inside and none in an earlier group,   *)
(* and when has_next_wg says no every work item has been in a group.       *)
Partition ==
  /\ HasNextWg => NextItems # {} /\ NextItems \subseteq Items \ served
  /\ ~HasNextWg => served = Items
=============================================================================
