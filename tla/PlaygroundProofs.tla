-------------------------- MODULE PlaygroundProofs --------------------------
(***************************************************************************)
(* Theorems about Playground, for any texts, any compiler and any number   *)
(* of runs: types, the diagnostics in the editor, and what the runs leave  *)
(* on the page when they do not overlap.                                   *)
(***************************************************************************)
EXTENDS Playground, TLAPS

LEMMA OutputsOf ==
  /\ \A n \in Nat : Hint \in Outputs(n) /\ Error \in Outputs(n)
  /\ \A n \in Nat : \A i \in 1..n : Result(i) \in Outputs(n)
  /\ \A n \in Nat : Outputs(n) \subseteq Outputs(n + 1)
  BY DEF Outputs, Hint, Error, Result

\* What StartRun and an answer make of the runs.
LEMMA AppendRun ==
  ASSUME runs \in Seq(RunRecords), NEW pc \in {"fmt", "done"}, code \in Codes,
         runs' = Append(runs, [pc |-> pc, code |-> code])
  PROVE  /\ runs' \in Seq(RunRecords) /\ Len(runs') = Len(runs) + 1
         /\ runs'[Len(runs')] = [pc |-> pc, code |-> code]
         /\ \A i \in 1..Len(runs) : runs'[i] = runs[i]
<1>1. [pc |-> pc, code |-> code] \in RunRecords
  BY DEF RunRecords
<1> QED BY <1>1

LEMMA SetPc ==
  ASSUME runs \in Seq(RunRecords), NEW i \in 1..Len(runs),
         NEW pc \in {"exec", "done", "lost"}, runs' = [runs EXCEPT ![i].pc = pc]
  PROVE  /\ runs' \in Seq(RunRecords) /\ Len(runs') = Len(runs)
         /\ runs'[i].pc = pc /\ runs'[i].code = runs[i].code /\ runs[i].code \in Codes
         /\ \A j \in 1..Len(runs) \ {i} : runs'[j] = runs[j]
<1> DEFINE run == [runs[i] EXCEPT !.pc = pc]
<1>1. runs[i] \in RunRecords
  OBVIOUS
<1>2. run \in RunRecords /\ run.pc = pc /\ run.code = runs[i].code /\ runs[i].code \in Codes
  BY <1>1 DEF RunRecords
<1>3. runs' = [runs EXCEPT ![i] = run]
  OBVIOUS
<1> HIDE DEF run
<1> QED BY <1>2, <1>3

\* TypeOK in parts.
Counts ==
  /\ Len(runs) <= MaxRuns /\ shares \in 0..shared
  /\ edits \in 0..MaxEdits /\ shared \in 0..MaxShares /\ loads \in Nat
Texts ==
  /\ hash \in Codes \cup {NoText} /\ phase \in {"editors", "bridge", "ready", "dead"}
  /\ bridge \in BOOLEAN /\ timer \in BOOLEAN /\ disabled \in BOOLEAN /\ overlapped \in BOOLEAN
  /\ code \in Codes \cup {NoText} /\ (Loaded => code \in Codes)
  /\ markers \in Codes \cup {NoText} /\ panel \in Codes \cup {NoText}
  /\ goPane \in Codes \cup {NoText} /\ status \in Statuses
RunsOK == runs \in Seq(RunRecords) /\ output \in Outputs(Len(runs))

LEMMA TypeParts == (TypeOK <=> Texts /\ Counts /\ RunsOK) /\ (TypeOK <=> Texts /\ Counts /\ RunsOK)'
  BY DEF TypeOK, Texts, Counts, RunsOK

LEMMA InitTypes == Init => TypeOK
<1> SUFFICES ASSUME Init PROVE TypeOK
  OBVIOUS
<1>1. runs \in Seq(RunRecords) /\ Len(runs) = 0
  BY DEF Init
<1>2. RunsOK
  BY <1>1, OutputsOf DEF Init, RunsOK
<1>3. Counts
  BY <1>1, BoundsAssumption DEF Init, Counts
<1>4. Texts
  BY DEF Init, Texts, Loaded, Statuses
<1> QED BY <1>2, <1>3, <1>4, TypeParts

\* The steps that leave the runs and the output alone.
LEMMA QuietTypes ==
  ASSUME TypeOK,
         LoadEditors \/ EditorsFail \/ LoadBridge \/ Type \/ FormatDocument
           \/ ClickCheck \/ TimerFires \/ ClickShare \/ ShareDone
  PROVE  TypeOK'
<1> USE CodesAssumption, BoundsAssumption
        DEF TypeOK, Loaded, Statuses, page, editor, tabs, buttons, counts
<1>1. CASE LoadEditors BY <1>1 DEF LoadEditors, SourceOf
<1>2. CASE EditorsFail BY <1>2 DEF EditorsFail
<1>3. CASE LoadBridge BY <1>3 DEF LoadBridge
<1>4. CASE Type BY <1>4 DEF Type, SetCode
<1>5. CASE FormatDocument BY <1>5 DEF FormatDocument, SetCode
<1>6. CASE ClickCheck BY <1>6 DEF ClickCheck, Checked, CheckStatus
<1>7. CASE TimerFires BY <1>7 DEF TimerFires
<1>8. CASE ClickShare BY <1>8 DEF ClickShare
<1>9. CASE ShareDone BY <1>9 DEF ShareDone
<1> QED BY <1>1, <1>2, <1>3, <1>4, <1>5, <1>6, <1>7, <1>8, <1>9

LEMMA NextTypes == TypeOK /\ [Next]_vars => TypeOK'
<1> SUFFICES ASSUME TypeOK, [Next]_vars PROVE TypeOK'
  OBVIOUS
<1> USE DEF page, editor, tabs, buttons, counts
<1>1. CASE Reload
  <2>1. runs' \in Seq(RunRecords) /\ Len(runs') = 0
    BY <1>1 DEF Reload
  <2>2. RunsOK'
    BY <1>1, <2>1, OutputsOf DEF Reload, RunsOK
  <2>3. Counts'
    BY <1>1, <2>1, BoundsAssumption DEF Reload, TypeOK, Counts
  <2>4. Texts'
    BY <1>1 DEF Reload, TypeOK, Texts, Loaded, Statuses
  <2> QED BY <2>2, <2>3, <2>4, TypeParts
<1>2. CASE ClickFormat
  <2>1. RunsOK'
    <3>1. output' \in {output, Error} /\ runs' = runs
      BY <1>2 DEF ClickFormat
    <3>2. Len(runs) \in Nat /\ output \in Outputs(Len(runs))
      BY DEF TypeOK
    <3>3. output' \in Outputs(Len(runs))
      BY <3>1, <3>2, OutputsOf
    <3> QED BY <3>1, <3>3 DEF TypeOK, RunsOK
  <2>2. Texts' /\ Counts'
    BY <1>2, CodesAssumption DEF ClickFormat, SetCode, TypeOK, Texts, Counts, Loaded, Statuses
  <2> QED BY <2>1, <2>2, TypeParts
<1>3. CASE StartRun
  <2>1. code \in Codes
    BY <1>3 DEF StartRun, TypeOK, Loaded
  <2>2. runs' \in Seq(RunRecords) /\ Len(runs') = Len(runs) + 1
    BY <1>3, <2>1, AppendRun DEF StartRun, TypeOK
  <2>3. RunsOK'
    BY <1>3, <2>2, OutputsOf DEF StartRun, TypeOK, RunsOK
  <2>4. Counts'
    BY <1>3, <2>2, BoundsAssumption DEF StartRun, TypeOK, Counts
  <2>5. Texts'
    BY <1>3, <2>1 DEF StartRun, TypeOK, Texts, Loaded, Statuses
  <2> QED BY <2>3, <2>4, <2>5, TypeParts
<1>4. ASSUME NEW i \in 1..Len(runs), Answer(i) PROVE TypeOK'
  <2>1. /\ runs' \in Seq(RunRecords) /\ Len(runs') = Len(runs) /\ runs[i].code \in Codes
    BY <1>4, SetPc DEF Answer, FmtAnswer, ExecAnswer, ExecUnreadable, TypeOK
  <2>2. RunsOK'
    <3>1. output' \in {output, Hint, Error, Result(i)}
      BY <1>4 DEF Answer, FmtAnswer, ExecAnswer, ExecUnreadable
    <3>2. Len(runs) \in Nat /\ output \in Outputs(Len(runs))
      BY DEF TypeOK
    <3>3. output' \in Outputs(Len(runs))
      BY <3>1, <3>2, OutputsOf
    <3> QED BY <2>1, <3>3 DEF RunsOK
  <2>3. Counts'
    BY <1>4, <2>1 DEF Answer, FmtAnswer, ExecAnswer, ExecUnreadable, TypeOK, Counts
  <2>4. Texts'
    BY <1>4, <2>1 DEF Answer, FmtAnswer, ExecAnswer, ExecUnreadable, TypeOK, Texts, Loaded, Statuses
  <2> QED BY <2>2, <2>3, <2>4, TypeParts
<1>5. CASE UNCHANGED vars
  BY <1>5 DEF vars, TypeOK, Loaded
<1> QED BY <1>1, <1>2, <1>3, <1>4, <1>5, QuietTypes DEF Next, ClickRun, CtrlEnter

\* Every variable of the page keeps its type, for any texts, compiler and bounds.
THEOREM Types == Spec => []TypeOK
  BY InitTypes, NextTypes, PTL DEF Spec

-----------------------------------------------------------------------------
(***************************************************************************)
(* The diagnostics in the editor.  They come from a timer that runs only   *)
(* on a page that is ready, and from a compiler: MarkersFresh is not       *)
(* inductive without these two facts.                                      *)
(***************************************************************************)
MarkersInv ==
  /\ phase # "ready" => ~ timer /\ markers = NoText
  /\ ~ bridge => markers = NoText
  /\ MarkersFresh

LEMMA MarkersStep == TypeOK /\ MarkersInv /\ [Next]_vars => MarkersInv'
<1> SUFFICES ASSUME TypeOK, MarkersInv, [Next]_vars PROVE MarkersInv'
  OBVIOUS
<1> USE DEF MarkersInv, MarkersFresh, page, editor, tabs, buttons, counts
<1>1. CASE LoadEditors BY <1>1 DEF LoadEditors
<1>2. CASE EditorsFail BY <1>2 DEF EditorsFail
<1>3. CASE LoadBridge BY <1>3 DEF LoadBridge
<1>4. CASE Reload BY <1>4 DEF Reload
<1>5. CASE Type BY <1>5 DEF Type, SetCode
<1>6. CASE FormatDocument BY <1>6 DEF FormatDocument, SetCode
<1>7. CASE ClickFormat
  <2>1. phase = "ready" /\ UNCHANGED <<phase, bridge, markers>>
    BY <1>7 DEF ClickFormat
  <2>2. timer' \/ UNCHANGED <<code, timer>>
    BY <1>7, <2>1 DEF ClickFormat, SetCode
  <2> QED BY <2>1, <2>2
<1>8. CASE ClickCheck BY <1>8 DEF ClickCheck, Checked
<1>9. CASE TimerFires BY <1>9 DEF TimerFires
<1>10. CASE StartRun BY <1>10 DEF StartRun
<1>11. ASSUME NEW i \in 1..Len(runs), Answer(i) PROVE MarkersInv'
  BY <1>11 DEF Answer, FmtAnswer, ExecAnswer, ExecUnreadable
<1>12. CASE ClickShare BY <1>12 DEF ClickShare
<1>13. CASE ShareDone BY <1>13 DEF ShareDone
<1>14. CASE UNCHANGED vars BY <1>14 DEF vars
<1> QED BY <1>1, <1>2, <1>3, <1>4, <1>5, <1>6, <1>7, <1>8, <1>9, <1>10, <1>11, <1>12, <1>13, <1>14
        DEF Next, ClickRun, CtrlEnter

\* When no check is due, the diagnostics in the editor are those of its text, if any, for any
\* number of edits, formats, checks and overlapping runs (main.ts:328).
THEOREM NoStaleMarkers == Spec => []MarkersFresh
<1>1. Init => MarkersInv
  BY DEF Init, MarkersInv, MarkersFresh
<1>2. MarkersInv => MarkersFresh
  BY DEF MarkersInv
<1> QED BY <1>1, <1>2, MarkersStep, Types, PTL DEF Spec

-----------------------------------------------------------------------------
(***************************************************************************)
(* The runs.  One that began while no other was under way stays the only   *)
(* one under way (OnlyLast) until another begins; what it has put in the   *)
(* Go tab stays there while it executes (Sent).                            *)
(***************************************************************************)
Under(i) == runs[i].pc \in {"fmt", "exec"}
OnlyLast == ~ overlapped => \A i \in 1..Len(runs) : Under(i) => i = Len(runs)
Sent == ~ overlapped /\ runs # << >> /\ runs[Len(runs)].pc = "exec"
          => goPane = runs[Len(runs)].code
RunsInv ==
  /\ phase # "ready" => runs = << >>
  /\ OnlyLast /\ Sent /\ ButtonsGuardRuns /\ PanesAgree

\* Steps that do not touch the runs, the Go tab and the result in the Output tab.
LEMMA RunsAlone ==
  ASSUME RunsInv, UNCHANGED <<runs, goPane, disabled, overlapped>>,
         output' \in {output, Error}, phase' = phase \/ phase' # "ready"
  PROVE  phase # "ready" \/ phase' = phase => RunsInv'
<1> SUFFICES ASSUME phase # "ready" \/ phase' = phase PROVE RunsInv'
  OBVIOUS
<1>1. (phase' # "ready" => runs' = << >>) /\ ButtonsGuardRuns'
  BY DEF RunsInv, ButtonsGuardRuns
<1>2. OnlyLast' /\ Sent'
  BY DEF RunsInv, OnlyLast, Sent, Under
<1>3. PanesAgree'
  BY DEF RunsInv, PanesAgree, Error
<1> QED BY <1>1, <1>2, <1>3 DEF RunsInv

LEMMA RunsStep == TypeOK /\ RunsInv /\ [Next]_vars => RunsInv'
<1> SUFFICES ASSUME TypeOK, RunsInv, [Next]_vars PROVE RunsInv'
  OBVIOUS
<1> USE DEF page, editor, tabs, buttons, counts
<1>1. CASE LoadEditors BY <1>1, RunsAlone DEF LoadEditors
<1>2. CASE EditorsFail BY <1>2, RunsAlone DEF EditorsFail
<1>3. CASE LoadBridge
  <2>1. runs = << >> /\ runs' = << >> /\ ~ disabled' /\ UNCHANGED <<goPane, output, overlapped>>
    BY <1>3 DEF LoadBridge, RunsInv
  <2> QED BY <1>3, <2>1 DEF LoadBridge, RunsInv, OnlyLast, Sent, Under, ButtonsGuardRuns, PanesAgree
<1>4. CASE Reload
  BY <1>4 DEF Reload, RunsInv, OnlyLast, Sent, Under, ButtonsGuardRuns, PanesAgree, Hint
<1>5. CASE Type BY <1>5, RunsAlone DEF Type
<1>6. CASE FormatDocument BY <1>6, RunsAlone DEF FormatDocument
<1>7. CASE ClickFormat BY <1>7, RunsAlone DEF ClickFormat
<1>8. CASE ClickCheck BY <1>8, RunsAlone DEF ClickCheck
<1>9. CASE TimerFires BY <1>9, RunsAlone DEF TimerFires
<1>10. CASE StartRun
  <2> DEFINE n == Len(runs)
  <2>0. n \in Nat /\ runs \in Seq(RunRecords) /\ code \in Codes /\ phase' = "ready"
    BY <1>10 DEF StartRun, TypeOK, Loaded
  <2>1. PICK pc \in {"fmt", "done"} :
          /\ runs' = Append(runs, [pc |-> pc, code |-> code])
          /\ disabled' = (pc = "fmt") /\ output' \in {Hint, Error}
    BY <1>10 DEF StartRun
  <2>2. /\ Len(runs') = n + 1 /\ runs'[n + 1] = [pc |-> pc, code |-> code]
        /\ \A i \in 1..n : runs'[i] = runs[i]
    BY <2>0, <2>1, AppendRun
  <2>3. ~ overlapped' => \A i \in 1..n : ~ Under(i)
    BY <1>10 DEF StartRun, InFlight, Under
  <2>4. OnlyLast'
    BY <2>0, <2>2, <2>3 DEF OnlyLast, Under
  <2>5. Sent' /\ runs'[n + 1].pc = pc
    BY <2>0, <2>2 DEF Sent
  <2>6. ButtonsGuardRuns'
    <3>1. runs' # << >>
      BY <2>0, <2>2
    <3>2. disabled' <=> pc = "fmt"
      BY <2>1
    <3> QED BY <2>2, <2>5, <3>1, <3>2 DEF ButtonsGuardRuns
  <2>7. PanesAgree'
    BY <2>1 DEF PanesAgree, Hint, Error
  <2> QED BY <2>0, <2>4, <2>5, <2>6, <2>7 DEF RunsInv
<1>11. ASSUME NEW i \in 1..Len(runs), Answer(i) PROVE RunsInv'
  <2> DEFINE n == Len(runs)
  <2>0. n \in Nat /\ runs \in Seq(RunRecords) /\ runs # << >>
        /\ phase' = phase /\ overlapped' = overlapped
    BY <1>11 DEF Answer, FmtAnswer, ExecAnswer, ExecUnreadable, TypeOK
  <2>1. PICK pc \in {"exec", "done", "lost"} : runs' = [runs EXCEPT ![i].pc = pc]
    BY <1>11 DEF Answer, FmtAnswer, ExecAnswer, ExecUnreadable
  <2>2. /\ Len(runs') = n /\ runs'[i].pc = pc /\ runs'[i].code = runs[i].code
        /\ \A j \in 1..n \ {i} : runs'[j] = runs[j]
    BY <2>0, <2>1, SetPc
  <2>3. ~ overlapped => i = n
    BY <1>11 DEF Answer, FmtAnswer, ExecAnswer, ExecUnreadable, RunsInv, OnlyLast, Under
  <2>4. OnlyLast' /\ (phase' # "ready" => runs' = << >>)
    BY <2>0, <2>2, <2>3 DEF RunsInv, OnlyLast, Under
  <2>5. CASE FmtAnswer(i)
    <3>1. pc = "exec" /\ goPane' = runs[i].code /\ output' = Hint /\ disabled' = disabled
      BY <2>0, <2>1, <2>2, <2>5, SetPc DEF FmtAnswer
    <3>2. Sent' /\ PanesAgree'
      BY <2>0, <2>2, <2>3, <3>1 DEF Sent, PanesAgree, Hint
    <3>3. ButtonsGuardRuns'
      BY <2>0, <2>2, <2>3, <2>5, <3>1 DEF FmtAnswer, RunsInv, ButtonsGuardRuns
    <3> QED BY <2>4, <3>2, <3>3 DEF RunsInv
  <2>6. CASE ExecAnswer(i)
    <3>1. pc = "done" /\ goPane' = goPane /\ output' \in {Result(i), Error} /\ ~ disabled'
      BY <2>0, <2>1, <2>2, <2>6, SetPc DEF ExecAnswer
    <3>2. Sent' /\ ButtonsGuardRuns'
      BY <2>0, <2>2, <2>3, <3>1 DEF Sent, ButtonsGuardRuns
    <3>3. ~ overlapped => goPane = runs[i].code
      BY <2>0, <2>3, <2>6 DEF ExecAnswer, RunsInv, Sent
    <3>4. PanesAgree'
      BY <2>0, <2>2, <2>3, <3>1, <3>3 DEF PanesAgree, Result, Error
    <3> QED BY <2>4, <3>2, <3>4 DEF RunsInv
  <2>7. CASE ExecUnreadable(i)
    <3>1. pc = "lost" /\ goPane' = goPane /\ output' = output /\ disabled' = disabled
      BY <2>0, <2>1, <2>2, <2>7, SetPc DEF ExecUnreadable
    <3>2. Sent' /\ ButtonsGuardRuns'
      BY <2>0, <2>2, <2>3, <2>7, <3>1 DEF ExecUnreadable, RunsInv, Sent, ButtonsGuardRuns
    <3>3. PanesAgree'
      BY <2>0, <2>2, <2>3, <3>1 DEF RunsInv, PanesAgree
    <3> QED BY <2>4, <3>2, <3>3 DEF RunsInv
  <2> QED BY <1>11, <2>5, <2>6, <2>7 DEF Answer
<1>12. CASE ClickShare BY <1>12, RunsAlone DEF ClickShare
<1>13. CASE ShareDone BY <1>13, RunsAlone DEF ShareDone
<1>14. CASE UNCHANGED vars BY <1>14, RunsAlone DEF vars
<1> QED BY <1>1, <1>2, <1>4, <1>3, <1>5, <1>6, <1>7, <1>8, <1>9, <1>10, <1>11, <1>12, <1>13, <1>14
        DEF Next, ClickRun, CtrlEnter

LEMMA RunsAlways == Spec => []RunsInv
<1>1. Init => RunsInv
  BY DEF Init, RunsInv, OnlyLast, Sent, Under, ButtonsGuardRuns, PanesAgree, Hint
<1> QED BY <1>1, RunsStep, Types, PTL DEF Spec

\* The buttons are disabled exactly while a run is under way or was lost, for any number of
\* runs, the last of which did not begin during another (main.ts:250, 280-317).
THEOREM ButtonsTellOfRuns == Spec => []ButtonsGuardRuns
<1>1. RunsInv => ButtonsGuardRuns
  BY DEF RunsInv
<1> QED BY <1>1, RunsAlways, PTL

\* The result in the Output tab is that of the Go code in the Go tab, for any number of runs,
\* the last of which did not begin during another (main.ts:286-313).
THEOREM ResultsBelongToTheirCode == Spec => []PanesAgree
<1>1. RunsInv => PanesAgree
  BY DEF RunsInv
<1> QED BY <1>1, RunsAlways, PTL

-----------------------------------------------------------------------------
LEMMA RunningStep == TypeOK /\ RunningIsTrue /\ [Next]_vars => RunningIsTrue'
<1> SUFFICES ASSUME TypeOK, RunningIsTrue, [Next]_vars PROVE RunningIsTrue'
  OBVIOUS
<1> USE DEF page, editor, tabs, buttons, counts
<1>1. CASE StartRun
  <2>1. PICK pc \in {"fmt", "done"} :
          /\ runs' = Append(runs, [pc |-> pc, code |-> code])
          /\ status' = (IF pc = "fmt" THEN "running" ELSE "error")
    BY <1>1 DEF StartRun
  <2>2. Len(runs') \in Nat \ {0} /\ runs'[Len(runs')].pc = pc
    BY <1>1, <2>1, AppendRun DEF StartRun, TypeOK, Loaded
  <2> QED BY <2>1, <2>2 DEF RunningIsTrue
<1>2. ASSUME NEW i \in 1..Len(runs), Answer(i) PROVE RunningIsTrue'
  <2>1. PICK pc \in {"exec", "done", "lost"} : runs' = [runs EXCEPT ![i].pc = pc]
    BY <1>2 DEF Answer, FmtAnswer, ExecAnswer, ExecUnreadable
  <2>2. Len(runs') = Len(runs) /\ runs'[i].pc = pc
    BY <2>1, SetPc DEF TypeOK
  <2>3. pc # "done" \/ status' # "running"
    BY <1>2, <2>1, SetPc DEF Answer, FmtAnswer, ExecAnswer, ExecUnreadable, TypeOK
  <2> QED BY <2>2, <2>3 DEF RunningIsTrue
<1>3. CASE runs' = runs /\ (status' = status \/ status' # "running")
  BY <1>3 DEF RunningIsTrue
<1>4. CASE LoadEditors BY <1>3, <1>4 DEF LoadEditors
<1>5. CASE EditorsFail BY <1>3, <1>5 DEF EditorsFail
<1>6. CASE LoadBridge BY <1>3, <1>6 DEF LoadBridge
<1>7. CASE Reload BY <1>7 DEF Reload, RunningIsTrue
<1>8. CASE Type BY <1>3, <1>8 DEF Type
<1>9. CASE FormatDocument BY <1>3, <1>9 DEF FormatDocument
<1>10. CASE ClickFormat BY <1>3, <1>10 DEF ClickFormat
<1>11. CASE ClickCheck BY <1>3, <1>11 DEF ClickCheck, CheckStatus
<1>12. CASE TimerFires BY <1>3, <1>12 DEF TimerFires
<1>13. CASE ClickShare BY <1>3, <1>13 DEF ClickShare
<1>14. CASE ShareDone BY <1>3, <1>14 DEF ShareDone
<1>15. CASE UNCHANGED vars BY <1>3, <1>15 DEF vars
<1> QED BY <1>1, <1>2, <1>4, <1>5, <1>6, <1>7, <1>8, <1>9, <1>10, <1>11, <1>12, <1>13, <1>14, <1>15
        DEF Next, ClickRun, CtrlEnter

\* The indicator says that a run goes on only while one does, or was lost, for any number of
\* runs that overlap in any way (main.ts:249, 279, 296, 306-312).
THEOREM RunningIsNeverLeft == Spec => []RunningIsTrue
<1>1. Init => RunningIsTrue
  BY DEF Init, RunningIsTrue
<1> QED BY <1>1, RunningStep, Types, PTL DEF Spec
=============================================================================
