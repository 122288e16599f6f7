----------------------------- MODULE MCDriverUmm -----------------------------
(***************************************************************************)
(* One run for parts that do not meet: a behaviour is one of the user      *)
(* memory manager or of the parts of MCDriver.  The others stay as they    *)
(* start.                                                                  *)
(***************************************************************************)
EXTENDS MCDriver, MCXibUmm

UmmPartInit ==
    /\ UmmInit
    /\ \/ Init
       \/ part = "umm" /\ MrOff /\ HsOff /\ BramOff /\ PfcOff /\ GsiOff

UmmPartNext ==
    \/ part = "umm" /\ UmmNext /\ UNCHANGED vars
    \/ Next /\ UNCHANGED ummVars

UmmPartSpec == UmmPartInit /\ [][UmmPartNext]_<<vars, ummVars>>
=============================================================================
