---------------------------- MODULE Playground ----------------------------
(***************************************************************************)
(* The page of the playground: an editor, a compiler in wasm, and the Go   *)
(* Playground, which formats and executes the Go code over the network.    *)
(*                                                                         *)
(* All of it runs on one thread.  Whatever calls the compiler is over      *)
(* before another event is served; what can come in between is the load of *)
(* the page, a request to the Go Playground, the clipboard, and the timer  *)
(* of the live diagnostics.  Ctrl+Enter starts a run whether or not the    *)
(* buttons are disabled, so that runs may overlap.                         *)
(*                                                                         *)
(* External: the user, the network, the compiler, Monaco's editors and     *)
(* markers.  Themes, tabs, the pane resizer, completion, hover and         *)
(* definitions keep nothing that another handler reads and are left out.   *)
(***************************************************************************)
EXTENDS Naturals, Sequences

CONSTANTS
    Codes,        \* texts of the editor
    Welcome,      \* INITIAL_CODE
    Verdict,      \* what the compiler finds in a text: "ok", "warning", "error", or "trap"
    Formatted,    \* the text the formatter makes of a text, or NoText
    NoText,
    Unopenable,   \* texts whose link does not open them: empty, or too long a payload
    MaxRuns, MaxEdits, MaxShares, MaxLoads   \* bounds

ASSUME CodesAssumption ==
    /\ Welcome \in Codes /\ NoText \notin Codes /\ Unopenable \subseteq Codes
    /\ Verdict \in [Codes -> {"ok", "warning", "error", "trap"}]
    /\ Formatted \in [Codes -> Codes \cup {NoText}]
ASSUME BoundsAssumption ==
    MaxRuns \in Nat /\ MaxEdits \in Nat /\ MaxShares \in Nat /\ MaxLoads \in Nat

VARIABLES
    hash,         \* the source in the address bar, or NoText
    phase,        \* "editors" and "bridge" are loading, then "ready"; "dead" without editors
    bridge,       \* whether the compiler was loaded
    code,         \* the text of the main editor
    timer,        \* whether debounceTimer is running
    markers,      \* the text whose diagnostics are in the editor, or NoText
    panel,        \* the text whose diagnostics are in the Diagnostics tab, or NoText
    goPane,       \* the text whose Go code is in the Go tab, or NoText
    output,       \* the Output tab: a hint, an error, or the result of a run
    status,       \* the indicator
    disabled,     \* whether the buttons are disabled
    runs,         \* the runs of this page, each at its await or ended
    overlapped,   \* whether the last run began while another was under way (history)
    shares,       \* the number of links on their way to the clipboard
    edits, shared, loads

editor == <<code, timer, markers>>
tabs == <<panel, goPane, output>>
buttons == <<status, disabled>>
page == <<hash, phase, bridge>>
counts == <<edits, shared, loads>>
vars == <<page, editor, tabs, buttons, runs, overlapped, shares, counts>>

Statuses == {"idle", "running", "ok", "warning", "error", "copied"}
RunRecords == [pc : {"fmt", "exec", "done", "lost"}, code : Codes]
Outputs(n) == [kind : {"hint", "error", "result"}, run : 0..n]
Hint == [kind |-> "hint", run |-> 0]
Error == [kind |-> "error", run |-> 0]
Result(i) == [kind |-> "result", run |-> i]

InFlight == {i \in 1..Len(runs) : runs[i].pc \in {"fmt", "exec"}}
Loaded == phase \in {"bridge", "ready"}

Init ==
    /\ hash \in Codes \cup {NoText}
    /\ phase = "editors" /\ bridge = FALSE
    /\ code = NoText /\ timer = FALSE /\ markers = NoText
    /\ panel = NoText /\ goPane = NoText /\ output = Hint
    /\ status = "idle" /\ disabled = FALSE
    /\ runs = << >> /\ overlapped = FALSE /\ shares = 0
    /\ edits = 0 /\ shared = 0 /\ loads = 1

-----------------------------------------------------------------------------
(***************************************************************************)
(* Loading.                                                                *)
(***************************************************************************)
\* The source of a link, or nothing: a payload that is too long or decodes to nothing.
SourceOf(h) == IF h \in Unopenable THEN NoText ELSE h

\* Mutant: a link that cannot be opened leaves no text.
LoadEditorsFromHash ==
    /\ phase = "editors"
    /\ phase' = "bridge"
    /\ code' = SourceOf(hash)
    /\ UNCHANGED <<hash, bridge, timer, markers, tabs, buttons, runs, overlapped, shares, counts>>

LoadEditors ==
    /\ phase = "editors"
    /\ phase' = "bridge"
    /\ code' = IF SourceOf(hash) = NoText THEN Welcome ELSE SourceOf(hash)
    /\ UNCHANGED <<hash, bridge, timer, markers, tabs, buttons, runs, overlapped, shares, counts>>

\* Monaco is not served: main() is rejected and logged.
EditorsFail ==
    /\ phase = "editors"
    /\ phase' = "dead"
    /\ UNCHANGED <<hash, bridge, editor, tabs, buttons, runs, overlapped, shares, counts>>

\* The listeners of the buttons, of the keys and of the editor are registered only now.
LoadBridge ==
    /\ phase = "bridge"
    /\ phase' = "ready"
    /\ bridge' \in BOOLEAN
    /\ status' = "idle" /\ disabled' = FALSE
    /\ UNCHANGED <<hash, editor, tabs, runs, overlapped, shares, counts>>

\* The page is loaded again from its own address, and all that was under way is gone.
Reload ==
    /\ loads < MaxLoads /\ loads' = loads + 1
    /\ phase' = "editors" /\ bridge' = FALSE
    /\ code' = NoText /\ timer' = FALSE /\ markers' = NoText
    /\ panel' = NoText /\ goPane' = NoText /\ output' = Hint
    /\ status' = "idle" /\ disabled' = FALSE
    /\ runs' = << >> /\ overlapped' = FALSE /\ shares' = 0
    /\ UNCHANGED <<hash, edits, shared>>

-----------------------------------------------------------------------------
(***************************************************************************)
(* The text and its diagnostics.                                           *)
(***************************************************************************)
\* Mutant: a change while the timer is running clears it and sets none.
SetCodeOnce(c) == code' = c /\ timer' = (phase = "ready" /\ ~ timer)

\* A change of the text clears and sets the timer, once the listener is there.
SetCode(c) == code' = c /\ timer' = (phase = "ready")

Type ==
    /\ Loaded /\ edits < MaxEdits
    /\ edits' = edits + 1
    /\ \E c \in Codes \ {code} : SetCode(c)
    /\ UNCHANGED <<page, markers, tabs, buttons, runs, overlapped, shares, shared, loads>>

\* Alt+Shift+F: Monaco asks the format provider, and applies what is different.
FormatDocument ==
    /\ phase = "ready" /\ bridge
    /\ Formatted[code] \notin {NoText, code}
    /\ SetCode(Formatted[code])
    /\ UNCHANGED <<page, markers, tabs, buttons, runs, overlapped, shares, counts>>

\* The button replaces the whole text even if it is the same.
ClickFormat ==
    /\ phase = "ready" /\ ~ disabled
    /\ \/ /\ ~ bridge
          /\ output' = Error
          /\ UNCHANGED <<code, timer, status>>
       \/ /\ bridge /\ Formatted[code] # NoText
          /\ SetCode(Formatted[code])
          /\ status' = "ok"
          /\ UNCHANGED output
       \/ /\ bridge /\ Formatted[code] = NoText
          /\ status' = "error" /\ output' = Error
          /\ UNCHANGED <<code, timer>>
    /\ UNCHANGED <<page, markers, panel, goPane, disabled, runs, overlapped, shares, counts>>

\* Diagnostics of the present text; without a compiler none are shown.
Checked == IF bridge THEN code ELSE NoText
CheckStatus == IF bridge /\ Verdict[code] \in {"warning", "error"} THEN Verdict[code] ELSE "ok"

ClickCheck ==
    /\ phase = "ready" /\ ~ disabled
    /\ markers' = Checked /\ panel' = Checked
    /\ status' = CheckStatus
    /\ UNCHANGED <<page, code, timer, goPane, output, disabled, runs, overlapped, shares, counts>>

\* One second after the last change.
TimerFires ==
    /\ timer
    /\ timer' = FALSE
    /\ markers' = IF bridge THEN code ELSE markers
    /\ UNCHANGED <<page, code, tabs, buttons, runs, overlapped, shares, counts>>

-----------------------------------------------------------------------------
(***************************************************************************)
(* Running.                                                                *)
(***************************************************************************)
Compiles(c) == Verdict[c] \in {"ok", "warning"}

\* Mutant: the return on errors of the compiler leaves the buttons disabled.
StartRunKeepsDisabled ==
    /\ phase = "ready" /\ Len(runs) < MaxRuns
    /\ overlapped' = (InFlight # {})
    /\ markers' = (IF bridge THEN code ELSE markers)
    /\ panel' = (IF bridge THEN code ELSE panel)
    /\ LET pc == IF bridge /\ Compiles(code) THEN "fmt" ELSE "done" IN
       /\ runs' = Append(runs, [pc |-> pc, code |-> code])
       /\ status' = (IF pc = "fmt" THEN "running" ELSE "error")
       /\ output' = (IF pc = "fmt" THEN Hint ELSE Error)
    /\ disabled' = TRUE
    /\ UNCHANGED <<page, code, timer, goPane, shares, counts>>

\* From the click to the request that formats the Go code, or to an error.
StartRun ==
    /\ phase = "ready" /\ Len(runs) < MaxRuns
    /\ overlapped' = (InFlight # {})
    /\ markers' = (IF bridge THEN code ELSE markers)
    /\ panel' = (IF bridge THEN code ELSE panel)
    /\ IF bridge /\ Compiles(code)
       THEN /\ runs' = Append(runs, [pc |-> "fmt", code |-> code])
            /\ status' = "running" /\ disabled' = TRUE /\ output' = Hint
       ELSE /\ runs' = Append(runs, [pc |-> "done", code |-> code])
            /\ status' = "error" /\ disabled' = FALSE /\ output' = Error
    /\ UNCHANGED <<page, code, timer, goPane, shares, counts>>

ClickRun == ~ disabled /\ StartRun
CtrlEnter == StartRun

\* Mutant: the diagnostics are shown after the wait for /fmt.
FmtAnswerMarks(i) ==
    /\ runs[i].pc = "fmt"
    /\ runs' = [runs EXCEPT ![i].pc = "exec"]
    /\ goPane' = runs[i].code /\ markers' = runs[i].code
    /\ status' = "running" /\ output' = Hint
    /\ UNCHANGED <<page, code, timer, panel, disabled, overlapped, shares, counts>>

\* Mutant: the Go tab is not set if /fmt fails.
FmtAnswerIfFormatted(i) ==
    /\ runs[i].pc = "fmt"
    /\ runs' = [runs EXCEPT ![i].pc = "exec"]
    /\ goPane' \in {goPane, runs[i].code}
    /\ status' = "running" /\ output' = Hint
    /\ UNCHANGED <<page, editor, panel, disabled, overlapped, shares, counts>>

\* An answer of /fmt, of any kind: the Go code is shown, formatted or not, and sent.
FmtAnswer(i) ==
    /\ runs[i].pc = "fmt"
    /\ runs' = [runs EXCEPT ![i].pc = "exec"]
    /\ goPane' = runs[i].code
    /\ status' = "running" /\ output' = Hint
    /\ UNCHANGED <<page, editor, panel, disabled, overlapped, shares, counts>>

\* Mutant: a run that fails leaves the buttons as they are.
ExecAnswerKeepsDisabled(i) ==
    /\ runs[i].pc = "exec"
    /\ runs' = [runs EXCEPT ![i].pc = "done"]
    /\ \/ output' = Result(i) /\ status' \in {"ok", "error"} /\ disabled' = FALSE
       \/ output' = Error /\ status' = "error" /\ UNCHANGED disabled
    /\ UNCHANGED <<page, editor, panel, goPane, overlapped, shares, counts>>

\* Mutant: a run that fails leaves the indicator as it is.
ExecAnswerKeepsStatus(i) ==
    /\ runs[i].pc = "exec"
    /\ runs' = [runs EXCEPT ![i].pc = "done"]
    /\ \/ output' = Result(i) /\ status' \in {"ok", "error"}
       \/ output' = Error /\ UNCHANGED status
    /\ disabled' = FALSE
    /\ UNCHANGED <<page, editor, panel, goPane, overlapped, shares, counts>>

\* The end of a run: an output, an error of the program, of Go, or of the network.
ExecAnswer(i) ==
    /\ runs[i].pc = "exec"
    /\ runs' = [runs EXCEPT ![i].pc = "done"]
    /\ \/ output' = Result(i) /\ status' \in {"ok", "error"}
       \/ output' = Error /\ status' = "error"
    /\ disabled' = FALSE
    /\ UNCHANGED <<page, editor, panel, goPane, overlapped, shares, counts>>

\* An answer that is not JSON: response.json() is not under the try, so run() is rejected.
ExecUnreadable(i) ==
    /\ runs[i].pc = "exec"
    /\ runs' = [runs EXCEPT ![i].pc = "lost"]
    /\ UNCHANGED <<page, editor, tabs, buttons, overlapped, shares, counts>>

-----------------------------------------------------------------------------
(***************************************************************************)
(* Sharing.                                                                *)
(***************************************************************************)
ClickShare ==
    /\ phase = "ready" /\ ~ disabled
    /\ shared < MaxShares /\ shared' = shared + 1
    /\ hash' = code
    /\ shares' = shares + 1
    /\ UNCHANGED <<phase, bridge, editor, tabs, buttons, runs, overlapped, edits, loads>>

\* The clipboard has the link, or refuses it.
ShareDone ==
    /\ shares > 0 /\ shares' = shares - 1
    /\ status' \in {"copied", "error"}
    /\ UNCHANGED <<page, editor, tabs, disabled, runs, overlapped, counts>>

-----------------------------------------------------------------------------
Answer(i) == FmtAnswer(i) \/ ExecAnswer(i) \/ ExecUnreadable(i)

Next ==
    \/ LoadEditors \/ EditorsFail \/ LoadBridge \/ Reload
    \/ Type \/ FormatDocument \/ ClickFormat \/ ClickCheck \/ TimerFires
    \/ ClickRun \/ CtrlEnter \/ (\E i \in 1..Len(runs) : Answer(i))
    \/ ClickShare \/ ShareDone

\* The browser runs a timer that is due and ends each request, with an error if need be.
Fairness ==
    /\ WF_vars(TimerFires)
    /\ \A i \in 1..MaxRuns : WF_vars(i \in 1..Len(runs) /\ Answer(i))

Spec == Init /\ [][Next]_vars /\ Fairness

-----------------------------------------------------------------------------
(***************************************************************************)
(* Properties.                                                             *)
(***************************************************************************)
TypeOK ==
    /\ hash \in Codes \cup {NoText} /\ phase \in {"editors", "bridge", "ready", "dead"}
    /\ bridge \in BOOLEAN /\ timer \in BOOLEAN /\ disabled \in BOOLEAN /\ overlapped \in BOOLEAN
    /\ code \in Codes \cup {NoText} /\ (Loaded => code \in Codes)
    /\ markers \in Codes \cup {NoText} /\ panel \in Codes \cup {NoText}
    /\ goPane \in Codes \cup {NoText} /\ status \in Statuses
    /\ output \in Outputs(Len(runs))
    /\ runs \in Seq(RunRecords) /\ Len(runs) <= MaxRuns
    /\ shares \in 0..shared
    /\ edits \in 0..MaxEdits /\ shared \in 0..MaxShares /\ loads \in Nat

\* When no check is due, the squiggles in the editor are those of the text in it, if any,
\* whoever made them: the timer, Check or a run, and whatever changed the text, also while
\* runs of older texts are under way (main.ts:328, README.md:12).
MarkersFresh == phase = "ready" /\ ~ timer => markers \in {NoText, code}

\* The buttons are disabled exactly while a run is under way, or was lost: whatever ends a
\* run enables them, and nothing else that happens meanwhile does (main.ts:250, 280-317).
\* Only of runs that do not overlap: Ctrl+Enter starts one though the buttons are disabled
\* (main.ts:321), and the first of two to end enables them.
ButtonsGuardRuns ==
    phase = "ready" /\ ~ overlapped =>
        (disabled <=> runs # << >> /\ runs[Len(runs)].pc \in {"fmt", "exec", "lost"})

\* The Go tab shows the code of the run whose result is in the Output tab, though the text
\* may have changed since and other runs have failed (main.ts:286-313).  Only of runs that do
\* not overlap: of two that do, the one may fill the Go tab and the other the Output tab.
PanesAgree ==
    ~ overlapped /\ output.kind = "result" =>
        output.run = Len(runs) /\ goPane = runs[output.run].code

\* The indicator says that a run goes on only while one does, or was lost: no end of a run,
\* of a check, of a format or of a share leaves it there, even if runs overlap.
RunningIsTrue ==
    status = "running" => \E i \in 1..Len(runs) : runs[i].pc \in {"fmt", "exec", "lost"}

\* Live diagnostics come after the last change, if there is a compiler: runs, formats and
\* checks between the change and the timer do not take it away (main.ts:328-346).
EditsAreChecked ==
    timer /\ bridge ~> (~ timer /\ markers = code) \/ phase # "ready"

\* Each run comes to an end, so that the buttons are enabled again: unless the answer of the
\* Go Playground cannot be read.
RunsEnd ==
    disabled ~> ~ disabled \/ \E i \in 1..Len(runs) : runs[i].pc = "lost"
=============================================================================
