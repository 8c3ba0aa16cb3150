----------------------------- MODULE LspServer -----------------------------
(***************************************************************************)
(* The state lisette-lsp shares between its handlers and its diagnostics   *)
(* timers: the open documents, the loader's overlays, the snapshots of     *)
(* analyses, the pending timers and what the client has been sent.         *)
(*                                                                         *)
(* The handlers are polled on one task, several at a time.  What suspends  *)
(* them is the lock of the loader, a fair one, while a timer has it: a     *)
(* handler does what comes before that lock in one step and the rest in    *)
(* another, and other handlers come in between.  A timer is a task of its  *)
(* own on any thread, so each access to the shared state is a step of it.  *)
(* The client's channel takes a message at once, then may suspend.         *)
(*                                                                         *)
(* A text is the number of the edit that made it.  The analysis of a       *)
(* document is abstracted to the texts it was made from: its own, taken    *)
(* from documents, and those the loader gives for the others.  "opening"   *)
(* counts how often the client opened a document: the server does not know *)
(* it, only the properties read it.                                        *)
(***************************************************************************)
EXTENDS Naturals, Sequences

CONSTANTS
  Docs,          \* the files of one project
  Garbled,       \* texts the lexer rejects
  Unparsed,      \* texts the lexer accepts and the parser does not
  Handlers,      \* how many handlers tower-lsp polls at a time
  MaxEdits, MaxCloses, MaxRequests,   \* bounds on what the client sends
  None           \* no value

Texts    == 0 .. MaxEdits
Openings == 0 .. MaxCloses + 1     \* a document is opened once more than closed
Versions == 0 .. MaxEdits + MaxCloses + 1
Timers   == 1 .. MaxEdits          \* the generations of the timers

ASSUME BoundsAssumption ==
  /\ MaxEdits \in Nat /\ MaxCloses \in Nat /\ MaxRequests \in Nat
  /\ Handlers \in Nat
ASSUME LspAssumption ==
  /\ Garbled \subseteq Texts /\ Unparsed \subseteq Texts \ Garbled
  /\ None \notin Docs \cup Nat
  /\ None \notin [text : Nat, version : Nat, opening : Nat]
  /\ None \notin [text : Nat, opening : Nat]

VARIABLES
  disk,                    \* document |-> the text of the file
  editor,                  \* document |-> the text in the client, if open there
  opened,                  \* document |-> how often the client opened it
  lastVersion,             \* document |-> the version the client gave it last
  edits, closes, asked,
  waiting,                 \* the handlers that want the loader, in order
  suspended,               \* whether they had to wait for it
  documents,               \* document |-> its text and version, if known
  overlays,                \* document |-> the text that shadows the file
  snapshots,               \* document |-> the texts and version of an analysis
  last_valid_snapshot,     \* document |-> the texts of one without parse errors
  pending_diagnostics,     \* document |-> generation of its timer
  diagnostics_generation,
  timers,                  \* generation |-> the task, if it is alive
  published                \* document |-> the text the client has diagnostics of

client == <<disk, editor, opened, lastVersion, edits, closes, asked>>
queue  == <<waiting, suspended>>
caches == <<snapshots, last_valid_snapshot>>
timing == <<pending_diagnostics, diagnostics_generation, timers>>
vars   == <<client, queue, documents, overlays, caches, timing, published>>

Views == [Docs -> Texts]

(* A timer's analysis: publish_diagnostics and run_analysis_cached.        *)
(* "version" is what the former read, "pre" the latter; what is not needed *)
(* any more is forgotten.  "opening" is that in which the analysis, or the *)
(* one it took its result from, began.                                     *)
Timer(d) ==
  [doc |-> d, step |-> "sleep", aborted |-> FALSE, version |-> None,
   opening |-> None, pre |-> None, text |-> None, result |-> None]

Version(d) == IF documents[d] = None THEN None ELSE documents[d].version
Opening(d) == IF documents[d] = None THEN None ELSE documents[d].opening

View(d) == IF overlays[d] = None THEN disk[d] ELSE overlays[d]

(* What the analysis of d reads when its own text is t. *)
Seen(d, t) == [e \in Docs |-> IF e = d THEN t ELSE View(e)]

(* Whether a snapshot answers for d when its document is doc. *)
Answers(d, doc) ==
  doc # None /\ snapshots[d] # None /\ snapshots[d].version = doc.version

CacheHit(d) == Answers(d, documents[d])

Init ==
  /\ disk = [d \in Docs |-> 0]
  /\ editor = [d \in Docs |-> None]
  /\ opened = [d \in Docs |-> 0]
  /\ lastVersion = [d \in Docs |-> 0]
  /\ edits = 0 /\ closes = 0 /\ asked = 0
  /\ waiting = <<>> /\ suspended = FALSE
  /\ documents = [d \in Docs |-> None]
  /\ overlays = [d \in Docs |-> None]
  /\ snapshots = [d \in Docs |-> None]
  /\ last_valid_snapshot = [d \in Docs |-> None]
  /\ pending_diagnostics = [d \in Docs |-> None]
  /\ diagnostics_generation = 0
  /\ timers = [g \in Timers |-> None]
  /\ published = [d \in Docs |-> None]

-----------------------------------------------------------------------------
(* The task of the handlers.                                               *)

At(g, s) == timers[g] # None /\ timers[g].step = s

LoaderTaken == \E g \in Timers : At(g, "loader")

(* A handler begins when no other can go on: none is under way, or those   *)
(* that are had to wait for the loader.                                    *)
Yields == (waiting = <<>> \/ suspended) /\ Len(waiting) < Handlers

(* A handler asks for the loader after those of line have. *)
Enqueue(line, handler) ==
  /\ waiting' = Append(line, handler)
  /\ suspended' = (line # <<>> \/ LoaderTaken)

Leave(line) == waiting' = line /\ suspended' = (line # <<>>)

(* The handler that has the loader. *)
Has(kind) == waiting # <<>> /\ Head(waiting).kind = kind

Handling(kind, d, opening, version, text) ==
  [kind |-> kind, doc |-> d, opening |-> opening, version |-> version, text |-> text]

(* Diagnostics of d for the client: the empty list, or of an analysis. *)
Send(d, analysis) ==
  published' = [published EXCEPT ![d] =
    IF analysis = None THEN None
    ELSE [text |-> analysis.texts[d], opening |-> analysis.opening]]

(* An analysis a handler runs for d, whose document is doc, up to the lock *)
(* of the loader.  Without a document it fails at once, with no            *)
(* diagnostics; a snapshot of the version answers at once.                 *)
BeginAnalysis(kind, d, doc, line) ==
  IF doc = None \/ Answers(d, doc)
    THEN /\ Leave(line)
         /\ IF kind = "request" THEN UNCHANGED published
            ELSE Send(d, IF doc = None THEN None ELSE snapshots[d])
    ELSE /\ Enqueue(line, Handling(kind, d, doc.opening, doc.version, doc.text))
         /\ UNCHANGED published

-----------------------------------------------------------------------------
(* Notifications and requests, up to the lock of the loader.               *)

(* AbortHandle::abort: a sleeping timer is gone, a running one is dropped  *)
(* at its next await, if it meets one that suspends it.                    *)
Aborted(task) ==
  IF task = None \/ task.step = "sleep" THEN None
  ELSE [task EXCEPT !.aborted = TRUE]

(* Takes the pending timer of d out and aborts it. *)
AbortPending(d) ==
  IF pending_diagnostics[d] = None THEN timers
  ELSE [timers EXCEPT ![pending_diagnostics[d]] = Aborted(@)]

(* didOpen, with the text of the file: the client goes on with its         *)
(* versions, or begins again with 1.                                       *)
DidOpen(d) ==
  /\ Yields
  /\ editor[d] = None
  /\ \E v \in {1, lastVersion[d] + 1} :
       /\ lastVersion' = [lastVersion EXCEPT ![d] = v]
       /\ Enqueue(waiting, Handling("open", d, opened[d] + 1, v, disk[d]))
  /\ editor' = [editor EXCEPT ![d] = disk[d]]
  /\ opened' = [opened EXCEPT ![d] = @ + 1]
  /\ snapshots' = [snapshots EXCEPT ![d] = None]
  /\ UNCHANGED <<disk, edits, closes, asked, documents, overlays,
                 last_valid_snapshot, timing, published>>

(* didChange, with the whole new text. *)
DidChange(d) ==
  /\ Yields
  /\ editor[d] # None
  /\ edits < MaxEdits
  /\ edits' = edits + 1
  /\ editor' = [editor EXCEPT ![d] = edits']
  /\ lastVersion' = [lastVersion EXCEPT ![d] = @ + 1]
  /\ snapshots' = [e \in Docs |-> None]
  /\ Enqueue(waiting, Handling("change", d, opened[d], lastVersion'[d], edits'))
  /\ UNCHANGED <<disk, opened, closes, asked, documents, overlays,
                 last_valid_snapshot, timing, published>>

DidClose(d) ==
  /\ Yields
  /\ editor[d] # None
  /\ closes < MaxCloses
  /\ closes' = closes + 1
  /\ editor' = [editor EXCEPT ![d] = None]
  /\ timers' = AbortPending(d)
  /\ pending_diagnostics' = [pending_diagnostics EXCEPT ![d] = None]
  /\ documents' = [documents EXCEPT ![d] = None]
  /\ snapshots' = [snapshots EXCEPT ![d] = None]
  /\ last_valid_snapshot' = [last_valid_snapshot EXCEPT ![d] = None]
  /\ Enqueue(waiting, Handling("close", d, None, None, None))
  /\ UNCHANGED <<disk, opened, lastVersion, edits, asked, overlays,
                 diagnostics_generation, published>>

(* The client writes the file and sends didSave. *)
DidSave(d) ==
  /\ Yields
  /\ editor[d] # None
  /\ asked < MaxRequests
  /\ asked' = asked + 1
  /\ disk' = [disk EXCEPT ![d] = editor[d]]
  /\ BeginAnalysis("publish", d, documents[d], waiting)
  /\ UNCHANGED <<editor, opened, lastVersion, edits, closes, documents,
                 overlays, caches, timing>>

(* Hover, completion, definition...: get_snapshot. *)
Request(d) ==
  /\ Yields
  /\ editor[d] # None
  /\ asked < MaxRequests
  /\ asked' = asked + 1
  /\ BeginAnalysis("request", d, documents[d], waiting)
  /\ UNCHANGED <<disk, editor, opened, lastVersion, edits, closes, documents,
                 overlays, caches, timing>>

-----------------------------------------------------------------------------
(* What they do from there on.                                             *)

Insert(n) ==
  /\ overlays' = [overlays EXCEPT ![n.doc] = n.text]
  /\ documents' = [documents EXCEPT ![n.doc] =
       [text |-> n.text, version |-> n.version, opening |-> n.opening]]

(* update_document, then publish_diagnostics begins. *)
FinishOpen ==
  /\ Has("open")
  /\ LET n == Head(waiting) IN
     /\ Insert(n)
     /\ BeginAnalysis("publish", n.doc, documents'[n.doc], Tail(waiting))
  /\ UNCHANGED <<client, caches, timing>>

(* Mutant: a timer that has not ended is taken to be still asleep. *)
ScheduleUnlessPending(d) ==
  LET g == diagnostics_generation + 1 IN
  /\ diagnostics_generation' = g
  /\ IF pending_diagnostics[d] # None
       THEN UNCHANGED <<timers, pending_diagnostics>>
       ELSE /\ timers' = [timers EXCEPT ![g] = Timer(d)]
            /\ pending_diagnostics' = [pending_diagnostics EXCEPT ![d] = g]

ScheduleDiagnostics(d) ==
  LET g == diagnostics_generation + 1 IN
  /\ diagnostics_generation' = g
  /\ timers' = [AbortPending(d) EXCEPT ![g] = Timer(d)]
  /\ pending_diagnostics' = [pending_diagnostics EXCEPT ![d] = g]

(* update_document and schedule_diagnostics. *)
FinishChange ==
  /\ Has("change")
  /\ Insert(Head(waiting))
  /\ ScheduleDiagnostics(Head(waiting).doc)
  /\ Leave(Tail(waiting))
  /\ UNCHANGED <<client, caches, published>>

(* The overlay goes, and the client is sent an empty list. *)
FinishClose ==
  /\ Has("close")
  /\ overlays' = [overlays EXCEPT ![Head(waiting).doc] = None]
  /\ Send(Head(waiting).doc, None)
  /\ Leave(Tail(waiting))
  /\ UNCHANGED <<client, documents, caches, timing>>

(* Mutant: the snapshot is stored under the version of the document now,   *)
(* without a look at whether there is one.                                 *)
StoreUnversioned(d, analysis) ==
  /\ snapshots' = [snapshots EXCEPT ![d] = [analysis EXCEPT !.version = Version(d)]]
  /\ UNCHANGED last_valid_snapshot

(* Mutant: the snapshot is stored under the version of the document now. *)
StoreAsCurrent(d, analysis) ==
  /\ snapshots' = [snapshots EXCEPT ![d] =
       IF documents[d] = None THEN @ ELSE [analysis EXCEPT !.version = Version(d)]]
  /\ last_valid_snapshot' = [last_valid_snapshot EXCEPT ![d] =
       IF analysis.texts[d] \in Unparsed THEN @ ELSE analysis.texts]

Store(d, analysis) ==
  /\ snapshots' = [snapshots EXCEPT ![d] = analysis]
  /\ last_valid_snapshot' = [last_valid_snapshot EXCEPT ![d] =
       IF analysis.texts[d] \in Unparsed THEN @ ELSE analysis.texts]

(* Mutant: stale results are not discarded. *)
NeverStale(d, version) == TRUE

(* Whether diagnostics asked for when the document had this version are    *)
(* still wanted.                                                           *)
Wanted(d, version) == version = Version(d)

(* The analysis, and the diagnostics made from it. *)
FinishAnalysis ==
  /\ Has("publish") \/ Has("request")
  /\ LET r == Head(waiting)
         analysis == [version |-> r.version, opening |-> r.opening,
                      texts |-> Seen(r.doc, r.text)]
     IN
     /\ IF r.text \notin Garbled /\ r.version = Version(r.doc)
          THEN Store(r.doc, analysis)
          ELSE UNCHANGED caches
     /\ IF r.kind = "publish" /\ Wanted(r.doc, r.version)
          THEN Send(r.doc, analysis)
          ELSE UNCHANGED published
  /\ Leave(Tail(waiting))
  /\ UNCHANGED <<client, documents, overlays, timing>>

-----------------------------------------------------------------------------
(* Timers.                                                                 *)

(* What the steps of a timer that only look at the shared state leave alone. *)
others == <<client, queue, documents, overlays, pending_diagnostics,
            diagnostics_generation>>

Earlier(o, p) == IF p < o THEN p ELSE o

(* The 300 ms are over: publish_diagnostics reads the version. *)
Wake(g) ==
  /\ At(g, "sleep")
  /\ LET d == timers[g].doc IN
     timers' = [timers EXCEPT ![g].step = "lookup", ![g].version = Version(d),
                              ![g].opening = Opening(d)]
  /\ UNCHANGED <<others, caches, published>>

LookUp(g) ==
  /\ At(g, "lookup")
  /\ LET d == timers[g].doc IN
     timers' = IF CacheHit(d)
                 THEN [timers EXCEPT ![g].step = "check",
                                     ![g].opening = Earlier(@, snapshots[d].opening),
                                     ![g].result = snapshots[d].texts]
                 ELSE [timers EXCEPT ![g].step = "read", ![g].pre = Version(d)]
  /\ UNCHANGED <<others, caches, published>>

ReadText(g) ==
  /\ At(g, "read")
  /\ LET d == timers[g].doc IN
     timers' = IF documents[d] = None
                 THEN [timers EXCEPT ![g].step = "check", ![g].pre = None]
                 ELSE [timers EXCEPT ![g].step = "loader",
                                     ![g].text = documents[d].text]
  /\ UNCHANGED <<others, caches, published>>

(* The loader is cloned, and the clone analysed. *)
Analyze(g) ==
  /\ At(g, "loader")
  /\ LET t == timers[g] IN
     timers' = [timers EXCEPT
       ![g].step = IF t.text \in Garbled THEN "check" ELSE "recheck",
       ![g].text = None,
       ![g].result = Seen(t.doc, t.text)]
  /\ UNCHANGED <<others, caches, published>>

(* post_version. *)
Recheck(g) ==
  /\ At(g, "recheck")
  /\ LET t == timers[g] IN
     timers' = IF t.pre # None /\ t.pre = Version(t.doc)
                 THEN [timers EXCEPT ![g].step = "store"]
                 ELSE [timers EXCEPT ![g].step = "check", ![g].pre = None]
  /\ UNCHANGED <<others, caches, published>>

StoreSnapshot(g) ==
  /\ At(g, "store")
  /\ LET t == timers[g] IN
     Store(t.doc, [version |-> t.pre, opening |-> t.opening, texts |-> t.result])
  /\ timers' = [timers EXCEPT ![g].step = "check", ![g].pre = None]
  /\ UNCHANGED <<others, published>>

(* current_version. *)
Check(g) ==
  /\ At(g, "check")
  /\ timers' = [timers EXCEPT ![g].step =
       IF Wanted(timers[g].doc, timers[g].version) THEN "send" ELSE "untrack"]
  /\ UNCHANGED <<others, caches, published>>

SendDiagnostics(g) ==
  /\ At(g, "send")
  /\ LET t == timers[g] IN
     Send(t.doc, IF t.result = None THEN None
                 ELSE [opening |-> t.opening, texts |-> t.result])
  /\ timers' = [timers EXCEPT ![g].step = "untrack"]
  /\ UNCHANGED <<others, caches>>

(* Mutant: whatever timer is pending is forgotten. *)
ForgetPending(g) == [pending_diagnostics EXCEPT ![timers[g].doc] = None]

(* remove_if: only its own generation. *)
RemoveIfOwn(g) ==
  [pending_diagnostics EXCEPT ![timers[g].doc] = IF @ = g THEN None ELSE @]

Untrack(g) ==
  /\ At(g, "untrack")
  /\ pending_diagnostics' = RemoveIfOwn(g)
  /\ timers' = [timers EXCEPT ![g] = None]
  /\ UNCHANGED <<client, queue, documents, overlays, caches,
                 diagnostics_generation, published>>

(* An aborted timer is dropped where it awaits: the lock of the            *)
(* configuration or of the loader, or the client's channel.                *)
Drop(g) ==
  /\ timers[g] # None /\ timers[g].aborted
  /\ timers[g].step \in {"read", "loader", "send", "untrack"}
  /\ timers' = [timers EXCEPT ![g] = None]
  /\ UNCHANGED <<others, caches, published>>

-----------------------------------------------------------------------------
Client(d) ==
  DidOpen(d) \/ DidChange(d) \/ DidSave(d) \/ DidClose(d) \/ Request(d)

Handler == FinishOpen \/ FinishChange \/ FinishClose \/ FinishAnalysis

RunTimer(g) ==
  \/ Wake(g) \/ LookUp(g) \/ ReadText(g) \/ Analyze(g) \/ Recheck(g)
  \/ StoreSnapshot(g) \/ Check(g) \/ SendDiagnostics(g) \/ Untrack(g)

Next ==
  \/ \E d \in Docs : Client(d)
  \/ Handler
  \/ \E g \in Timers : RunTimer(g) \/ Drop(g)

(* The runtime polls every task that is ready. *)
Fairness == WF_vars(Handler) /\ \A g \in Timers : WF_vars(RunTimer(g))

Spec == Init /\ [][Next]_vars /\ Fairness

-----------------------------------------------------------------------------
(* Properties.                                                             *)

Tasks ==
  [doc : Docs,
   step : {"sleep", "lookup", "read", "loader", "recheck", "store", "check",
           "send", "untrack"},
   aborted : BOOLEAN, version : Versions \cup {None},
   opening : Openings \cup {None}, pre : Versions \cup {None},
   text : Texts \cup {None}, result : Views \cup {None}]

Analyses == [version : Versions, opening : Openings, texts : Views]

Notices ==
  [kind : {"open", "change", "publish", "request"}, doc : Docs,
   opening : Openings, version : Versions, text : Texts]
  \cup [kind : {"close"}, doc : Docs, opening : {None}, version : {None}, text : {None}]

TypeOK ==
  /\ disk \in [Docs -> Texts]
  /\ editor \in [Docs -> Texts \cup {None}]
  /\ opened \in [Docs -> Openings]
  /\ lastVersion \in [Docs -> Versions]
  /\ edits \in 0 .. MaxEdits /\ closes \in 0 .. MaxCloses /\ asked \in 0 .. MaxRequests
  /\ waiting \in Seq(Notices) /\ Len(waiting) <= Handlers
  /\ suspended \in BOOLEAN
  /\ documents \in [Docs -> [text : Texts, version : Versions, opening : Openings] \cup {None}]
  /\ overlays \in [Docs -> Texts \cup {None}]
  /\ snapshots \in [Docs -> Analyses \cup {None}]
  /\ last_valid_snapshot \in [Docs -> Views \cup {None}]
  /\ pending_diagnostics \in [Docs -> Timers \cup {None}]
  /\ diagnostics_generation \in 0 .. MaxEdits
  /\ timers \in [Timers -> Tasks \cup {None}]
  /\ published \in [Docs -> [text : Texts, opening : Openings] \cup {None}]

(* A snapshot that would be served for an open document was made from the  *)
(* text the document has, whatever was under way when it was stored: unless *)
(* its analysis began before the document was closed and opened again.     *)
ServesOwnText ==
  \A d \in Docs :
    CacheHit(d) /\ snapshots[d].opening = documents[d].opening
      => snapshots[d].texts[d] = documents[d].text

(* Whether text is that of a document, if it comes from an analysis that   *)
(* began in the same opening.                                              *)
Fresh(doc, opening, text) ==
  doc # None /\ (opening = doc.opening => text = doc.text)

PassesCheck(g) == At(g, "check") /\ timers'[g].step = "send"

(* A handler's check and its message are one step: nothing suspends it. *)
SentByHandler(d) ==
  timers' = timers /\ published'[d] \notin {published[d], None}

(* The check of the version discards stale results: it lets diagnostics    *)
(* through only if the document is open and has the text they are of,      *)
(* unless the analysis began before the document was closed and opened     *)
(* again.                                                                  *)
StaleDiscarded ==
  [][/\ \A g \in Timers : LET t == timers[g] IN
          PassesCheck(g) /\ t.result # None
            => Fresh(documents[t.doc], t.opening, t.result[t.doc])
     /\ \A d \in Docs : SentByHandler(d)
            => Fresh(documents'[d], published'[d].opening, published'[d].text)]_vars

(* Every timer that can still publish is either aborted or the one a later *)
(* didChange or didClose would abort.                                      *)
TimersTracked ==
  \A g \in Timers :
    timers[g] # None /\ ~timers[g].aborted
      => pending_diagnostics[timers[g].doc] = g

(* A timer that has passed the check, and whose document is another now.   *)
Overtaken(g) == At(g, "send") /\ timers[g].version # Version(timers[g].doc)

(* An analysis that began before the present opening of its document.      *)
Outlived(analysis, d) ==
  /\ analysis # None /\ documents[d] # None
  /\ analysis.opening \notin {None, documents[d].opening}

NoStragglers ==
  /\ \A g \in Timers :
       timers[g] # None => ~Overtaken(g) /\ ~Outlived(timers[g], timers[g].doc)
  /\ \A i \in DOMAIN waiting :
       waiting[i].kind = "publish" => ~Outlived(waiting[i], waiting[i].doc)
  /\ \A d \in Docs : ~Outlived(snapshots[d], d)

(* Once the client stops editing, the diagnostics of every document it has *)
(* open come to be, and stay, those of the text in the editor: unless a    *)
(* timer is overtaken between its check and its message, or an analysis    *)
(* lasts until its document is closed and opened again.                    *)
Settles ==
  []NoStragglers =>
    <>[](\A d \in Docs : editor[d] # None
           => published[d] # None /\ published[d].text = editor[d])

AtRest == waiting = <<>> /\ \A g \in Timers : timers[g] = None

(* When nothing is under way, a snapshot that would be served for an open  *)
(* document was made from the texts the project's files have now.          *)
ServesCurrentTexts ==
  AtRest => \A d \in Docs :
    CacheHit(d) => snapshots[d].texts = Seen(d, documents[d].text)
=============================================================================
