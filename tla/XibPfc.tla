------------------------------- MODULE XibPfc --------------------------------
(***************************************************************************)
(* The priority flow control files of the driver in sysfs (main.c): nine   *)
(* attributes that share three registers.  A store reads the register,     *)
(* changes its field and writes the register back; sysfs serialises the    *)
(* stores of one file only, and the driver takes no lock.  A value out of  *)
(* range is refused without a write, and the store reports success.        *)
(* Overlap = FALSE assumes that no two stores on one register overlap.     *)
(***************************************************************************)
EXTENDS Integers, FiniteSets

CONSTANTS
    PfcAttr,     \* the attributes written to, among AllAttrs
    Overlap,     \* whether stores of one register may overlap
    MaxStores    \* bound: stores under way at once

VARIABLES
    pfc_reg,     \* PAUSE_CONF and the two PAUSE_OFFSET registers
    store,       \* stores between their read and their write
    last         \* history: the last value each attribute accepted

pfcVars == <<pfc_reg, store, last>>

AllAttrs == {"roce_en", "roce_prio", "roce_xon", "roce_xoff", "non_roce_en",
             "non_roce_prio", "non_roce_xon", "non_roce_xoff", "dis_prio_check"}
Regs == {"PAUSE_CONF", "ROCE_PAUSE_OFFSET", "NON_ROCE_PAUSE_OFFSET"}

RegOf(a) ==
    CASE a \in {"roce_xon", "roce_xoff"} -> "ROCE_PAUSE_OFFSET"
      [] a \in {"non_roce_xon", "non_roce_xoff"} -> "NON_ROCE_PAUSE_OFFSET"
      [] OTHER -> "PAUSE_CONF"

Field(val, bit, width) == (val \div 2^bit) % 2^width
WithField(val, bit, width, x) == val + (x - Field(val, bit, width)) * 2^bit
-----------------------------------------------------------------------------
(* What each kind of store makes of the register it read, and what the show *)
(* of the attribute makes of the register.                                  *)

EnBit(a) == IF a = "roce_en" THEN 0 ELSE 1
EnableStored(val, a, en) == WithField(val, EnBit(a), 1, en)
EnableShown(val, a) == Field(val, EnBit(a), 1)

PrioBit(a) == IF a = "roce_prio" THEN 4 ELSE 8

\* Faulty form: the old priority is not masked out (the or of two priorities
\* of one bit each).
PriorityOred(val, a, prio) ==
    IF Field(val, PrioBit(a), 4) = prio THEN val ELSE val + prio * 2^PrioBit(a)

PriorityStored(val, a, prio) == WithField(val, PrioBit(a), 4, prio)
PriorityShown(val, a) == Field(val, PrioBit(a), 4)

XonStored(val, xon) == xon + (val \div 2^16) * 2^16
XonShown(val) == val % 2^16

XoffStored(val, xoff) == xoff * 2^16 + (val % 2^16)
XoffShown(val) == val \div 2^16

CheckStored(val, x) == WithField(val, 13, 1, x)
CheckShown(val) == Field(val, 13, 1)

\* The largest value the store accepts.
Limit(a) ==
    CASE a \in {"roce_en", "non_roce_en", "dis_prio_check"} -> 1
      [] a \in {"roce_prio", "non_roce_prio"} -> 8
      [] OTHER -> 512

Stored(val, a, x) ==
    CASE a \in {"roce_en", "non_roce_en"} -> EnableStored(val, a, x)
      [] a \in {"roce_prio", "non_roce_prio"} -> PriorityStored(val, a, x)
      [] a \in {"roce_xon", "non_roce_xon"} -> XonStored(val, x)
      [] a \in {"roce_xoff", "non_roce_xoff"} -> XoffStored(val, x)
      [] OTHER -> CheckStored(val, x)

Shown(a) ==
    LET val == pfc_reg[RegOf(a)] IN
    CASE a \in {"roce_en", "non_roce_en"} -> EnableShown(val, a)
      [] a \in {"roce_prio", "non_roce_prio"} -> PriorityShown(val, a)
      [] a \in {"roce_xon", "non_roce_xon"} -> XonShown(val)
      [] a \in {"roce_xoff", "non_roce_xoff"} -> XoffShown(val)
      [] OTHER -> CheckShown(val)
-----------------------------------------------------------------------------
\* The files appear over registers that are 0.
Init ==
    /\ pfc_reg = [r \in Regs |-> 0]
    /\ store = {}
    /\ last = [a \in AllAttrs |-> 0]

\* A store reads its register; sysfs admits one store per file.
StoreRead(a, x) ==
    /\ Cardinality(store) < MaxStores
    /\ \A s \in store : s.attr # a /\ (Overlap \/ RegOf(s.attr) # RegOf(a))
    /\ store' = store \cup {[attr |-> a, x |-> x, read |-> pfc_reg[RegOf(a)]]}
    /\ UNCHANGED <<pfc_reg, last>>

StoreWrite(s) ==
    /\ s.x <= Limit(s.attr)
    /\ pfc_reg' = [pfc_reg EXCEPT ![RegOf(s.attr)] = Stored(s.read, s.attr, s.x)]
    /\ last' = [last EXCEPT ![s.attr] = s.x]
    /\ store' = store \ {s}

StoreRefused(s) ==
    /\ s.x > Limit(s.attr)
    /\ store' = store \ {s}
    /\ UNCHANGED <<pfc_reg, last>>

Next ==
    \/ \E a \in PfcAttr : \E x \in {0, Limit(a), Limit(a) + 1} : StoreRead(a, x)
    \/ \E s \in store : StoreWrite(s) \/ StoreRefused(s)

Spec == Init /\ [][Next]_pfcVars
-----------------------------------------------------------------------------
\* Every attribute shows the last value that was accepted for it, whatever was
\* stored in the other fields of its register since.
StoredIsShown == \A a \in AllAttrs : Shown(a) = last[a]
=============================================================================
