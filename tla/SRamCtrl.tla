------------------------------ MODULE SRamCtrl -------------------------------
(***************************************************************************)
(* The controller of an SRAM chip, hardware/src/main/scala/io/             *)
(* SRamCtrl.scala.  It accepts everything, also when it is not ready.      *)
(*                                                                         *)
(* r stands for its registers and m for the signals at its port; the       *)
(* variables are those of the arbiter before it.                           *)
(***************************************************************************)
EXTENDS OcpBurst

CONSTANT TransPerWord   \* accesses of the chip for a word

ReadyChip(i) == [state |-> "sReady", trans |-> 0, word |-> 0, core |-> 0, side |-> "none", intact |-> i]

LastTrans == TransPerWord * burstLength - 1

CountTo(n, max) == IF n = max THEN 0 ELSE n + 1

SRamResp(r) ==
  CASE r.state = "sReadRet" -> WordResp(r.core, r.side, r.word)
    [] r.state = "sWriteRet" -> DoneResp(r.core, r.side)
    [] OTHER -> NoResp

\* History: every command finds the memory ready, and every word stored is in its place.
Received(r, m, k) ==
  [r EXCEPT !.intact = @ /\ m = [cmd |-> IF k = 0 THEN "WR" ELSE "IDLE", core |-> r.core, side |-> r.side, word |-> k]]
Heard(r, m) == [r EXCEPT !.intact = @ /\ m.cmd = "IDLE"]

\* A burst is read from the chip and then sent, or received and then written.
SRamStep(r, m) ==
  CASE r.state = "sReady" /\ m.cmd = "IDLE" -> r
    [] r.state = "sReady" /\ m.cmd = "RD" -> [r EXCEPT !.state = "sReadExe", !.core = m.core, !.side = m.side]
    [] r.state = "sReady" /\ m.cmd = "WR" ->
         Received([r EXCEPT !.state = "sWriteRec", !.core = m.core, !.side = m.side, !.word = 1], m, 0)
    [] r.state = "sReadExe" -> Heard([r EXCEPT !.state = "sReadExe2"], m)
    [] r.state = "sReadExe2" ->
         Heard([r EXCEPT !.trans = CountTo(@, LastTrans),
                         !.state = IF r.trans = LastTrans THEN "sReadRet" ELSE "sReadExe"], m)
    [] r.state = "sReadRet" ->
         Heard(IF r.word = LastWordOf THEN ReadyChip(r.intact) ELSE [r EXCEPT !.word = @ + 1], m)
    [] r.state = "sWriteRec" ->
         IF m.side = "none" THEN r
         ELSE [Received(r, m, r.word) EXCEPT !.word = CountTo(@, LastWordOf),
                                             !.state = IF r.word = LastWordOf THEN "sWriteExe" ELSE @]
    [] r.state = "sWriteExe" -> Heard([r EXCEPT !.state = "sWriteExe2"], m)
    [] r.state = "sWriteExe2" ->
         Heard([r EXCEPT !.trans = CountTo(@, LastTrans),
                         !.state = IF r.trans = LastTrans THEN "sWriteRet" ELSE "sWriteExe"], m)
    [] r.state = "sWriteRet" -> Heard(ReadyChip(r.intact), m)
=============================================================================
