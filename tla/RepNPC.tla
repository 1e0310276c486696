------------------------------- MODULE RepNPC -------------------------------
(***************************************************************************)
(* FixRepInstructionNPC (feeder_zesto.cpp): before each iteration of a REP *)
(* string instruction the producer decides the instruction's next PC, the  *)
(* instruction itself again (pc: the loop goes on) or the one after it     *)
(* (tpc: this is the last iteration), from the count register and, for     *)
(* CMPS and SCAS, the zero flag the iteration will set.  Here it is a pure *)
(* operator over the instrumentation call's arguments, next to what x86    *)
(* does, compared over every argument in a scaled-down machine.            *)
(***************************************************************************)
EXTENDS Naturals

\* A byte has ByteBits bits here (8 on x86); operands are 1 or 2 bytes and
\* the accumulator (rAX) 2 bytes, so it can hold bits above a 1-byte operand.
ByteBits == 2
OpBytes == {1, 2}
AccBytes == 2
\* counter_value before the iteration: 0, the last one (1) and two more
Counts == 0..3
RepPrefixes == {"REP", "REPNE"}          \* INS_RepPrefix / INS_RepnePrefix
\* the opcode groups of the switch: CMPSx, SCASx, and the rest (INS, OUTS,
\* LODS, STOS, MOVS), whose REP stops on the count alone
Classes == {"CMPS", "SCAS", "MOVE"}

Width(size) == ByteBits * size
Vals(size) == 0..(2^Width(size) - 1)
AccVals == 0..(2^(ByteBits * AccBytes) - 1)

(***************************************************************************)
(* The code.  op1 and op2 start at 0 and PIN_SafeCopy fills mem_size bytes *)
(* of them: a memory operand arrives zero-extended, i.e. as its value.     *)
(* SCAS takes op2 from rax_value, the whole register (REG_FullRegName of   *)
(* EAX).  zf stays false for the groups that do not compare.               *)
(***************************************************************************)
\* scan and zf as the switch on the opcode leaves them
Scan(cls) == cls \in {"CMPS", "SCAS"}
ZfCode(cls, m1, m2, rax) ==
  CASE cls = "CMPS" -> m1 = m2
    [] cls = "SCAS" -> m1 = rax
    [] OTHER        -> FALSE

\* mutant: the count test missing counter_value == 0
FixRepInstructionNPCCountOne(cnt, prefix, cls, m1, m2, rax) ==
  LET zf == ZfCode(cls, m1, m2, rax) IN
  IF cnt = 1 THEN "tpc"
  ELSE IF Scan(cls) /\ ((prefix = "REPNE" /\ zf) \/ (prefix = "REP" /\ ~zf))
    THEN "tpc"
  ELSE "pc"

FixRepInstructionNPC(cnt, prefix, cls, m1, m2, rax) ==
  LET zf == ZfCode(cls, m1, m2, rax) IN
  IF cnt = 1 \/ cnt = 0 THEN "tpc"
  ELSE IF Scan(cls) /\ ((prefix = "REPNE" /\ zf) \/ (prefix = "REP" /\ ~zf))
    THEN "tpc"
  ELSE "pc"

(***************************************************************************)
(* x86: with a zero count the instruction does nothing; otherwise one      *)
(* iteration runs and decrements the count, CMPS compares the two memory   *)
(* operands and SCAS compares AL, AX, EAX or RAX (the accumulator cut to   *)
(* the operand size) with memory; the loop ends when the count reaches 0,  *)
(* or for CMPS/SCAS when ZF is clear under REPE or set under REPNE.  REPNE *)
(* on the other string instructions acts as REP.                           *)
(***************************************************************************)
X86NextPC(cnt, prefix, size, cls, m1, m2, rax) ==
  LET acc == rax % 2^Width(size)
      zf  == IF cls = "SCAS" THEN m1 = acc ELSE m1 = m2
  IN IF cnt = 0 \/ cnt - 1 = 0 THEN "tpc"
     ELSE IF Scan(cls) /\ ((prefix = "REP" /\ ~zf) \/ (prefix = "REPNE" /\ zf))
       THEN "tpc"
     ELSE "pc"

\* the SCAS iterations where rAX holds bits above the operand and its low
\* part equals the memory operand, before the last count
WideAccumulatorMatch(cnt, size, cls, m1, rax) ==
  /\ cls = "SCAS" /\ cnt >= 2
  /\ rax >= 2^Width(size)
  /\ rax % 2^Width(size) = m1

\* the code's NPC differs from x86's exactly on those iterations
NPCDiffersOnlyOnWideAccumulator ==
  \A cnt \in Counts, prefix \in RepPrefixes, size \in OpBytes, cls \in Classes :
    \A m1, m2 \in Vals(size), rax \in AccVals :
      (FixRepInstructionNPC(cnt, prefix, cls, m1, m2, rax)
         # X86NextPC(cnt, prefix, size, cls, m1, m2, rax))
      <=> WideAccumulatorMatch(cnt, size, cls, m1, rax)
=============================================================================
