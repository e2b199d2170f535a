------------------------------ MODULE TunerBus ------------------------------
(***************************************************************************)
(* What the drivers of the FC0012, FC0013, FC2580 and E4000 have in common:*)
(* an operation is a sequence of transfers to the chip's registers, one of *)
(* which may fail.  They differ in what a failure does.                    *)
(***************************************************************************)
EXTENDS Integers, Sequences, Bitwise

\* A write; a read, of bits that change nothing; and a read after which the
\* bits of keep are written back with val, which has none of them.  When that
\* read fails nothing is written, or the driver goes on with what its variable
\* holds, blind.  A checked change reads the register once more before, and is
\* left out when that read fails.
W(reg, val)            == [kind |-> "write", reg |-> reg, val |-> val]
Read(reg)              == [kind |-> "read", reg |-> reg]
Change(reg, keep, val) ==
  [kind |-> "change", reg |-> reg, keep |-> keep, val |-> val, blind |-> -1, checked |-> FALSE]
BlindChange(reg, keep, val, blind) == [Change(reg, keep, val) EXCEPT !.blind = blind]
Checked(change) == [change EXCEPT !.checked = TRUE]
\* A pin of the stick is no transfer of the chip and does not fail here.
Pin(reg, val)          == [kind |-> "pin", reg |-> reg, val |-> val]

Stores(table) == [i \in DOMAIN table |-> W(table[i][1], table[i][2])]

\* An operation: its steps, whether it returns at the first that fails, what
\* it returns when all are done, and the parts whose failure it tells.
Parts == {"check", "read", "write"}
Op(steps, stops, rc, told) == [steps |-> steps, stops |-> stops, rc |-> rc, told |-> told]
Stops(steps)   == Op(steps, TRUE, 0, Parts)
GoesOn(steps)  == Op(steps, FALSE, 0, Parts)
Forgets(steps) == Op(steps, FALSE, 0, {"check", "write"})
Silent(steps)  == Op(steps, FALSE, 0, {})
Refuses(steps) == Op(steps, TRUE, -1, Parts)

\* A fault is the number of a step and the part of it that fails.
NoFault == [at |-> 0, part |-> "none"]
FaultsOf(step, k) ==
  {[at |-> k, part |-> h] : h \in CASE step.kind = "write"  -> {"write"}
                                  [] step.kind = "read"   -> {"read"}
                                  [] step.kind = "change" -> IF step.checked THEN Parts
                                                             ELSE Parts \ {"check"}
                                  [] step.kind = "pin"    -> {}}
Faults(steps) == UNION {FaultsOf(steps[k], k) : k \in DOMAIN steps}

Merged(old, step) == (old & step.keep) + step.val
Does(regs, step) ==
  CASE step.kind \in {"write", "pin"} -> [regs EXCEPT ![step.reg] = step.val]
    [] step.kind = "change" -> [regs EXCEPT ![step.reg] = Merged(@, step)]
    [] step.kind = "read"   -> regs
DoesPart(regs, step, part) ==
  IF step.kind = "change" /\ part = "read" /\ step.blind >= 0
  THEN [regs EXCEPT ![step.reg] = Merged(step.blind, step)] ELSE regs

\* The k-th step of an operation, and what becomes of one that has the fault:
\* the registers and the result.
Step(before, op, fault, k) ==
  IF k = fault.at THEN DoesPart(before, op.steps[k], fault.part)
  ELSE IF op.stops /\ fault.at \in 1 .. k - 1 THEN before
  ELSE Does(before, op.steps[k])
Result(regs, op, fault) ==
  LET f[k \in 0 .. Len(op.steps)] == IF k = 0 THEN regs ELSE Step(f[k-1], op, fault, k)
  IN [fault |-> fault, regs |-> f[Len(op.steps)],
      rc |-> IF fault.part \in op.told THEN -1 ELSE op.rc]
=============================================================================
