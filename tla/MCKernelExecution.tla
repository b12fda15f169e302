-------------------------- MODULE MCKernelExecution --------------------------
EXTENDS KernelExecution

MCCodes ==
  { <<"end">>,
    <<"op", "end">>,
    <<"branch", "op", "end">>,
    <<"branch", "barrier", "op", "end">> }
=============================================================================
