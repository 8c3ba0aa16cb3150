-------------------------- MODULE LspServerProofs --------------------------
(***************************************************************************)
(* Theorems about LspServer, for any documents, any bounds on what the     *)
(* client sends and any number of handlers and timers: which timers can    *)
(* still publish, that a snapshot is not served for another text than the  *)
(* one it was made from, and that the check of the version discards what   *)
(* is stale, but for what outlived a closing of the document.              *)
(***************************************************************************)
EXTENDS LspServer, TLAPS

-----------------------------------------------------------------------------
(* The inductive invariant.                                                *)

(* The order in which a document is given its texts: by opening, and in    *)
(* one by version.                                                         *)
Before(o, v, p, w) == o < p \/ (o = p /\ v < w)
NotAfter(o, v, p, w) == o < p \/ (o = p /\ v <= w)

(* A handler that is to insert the text of d. *)
Inserts(n, d) == n.doc = d /\ n.kind \in {"open", "change"}

(* Every text that handlers in this line insert for d is a later one. *)
Precedes(line, d, o, v) ==
  \A i \in 1 .. Len(line) :
    Inserts(line[i], d) => Before(o, v, line[i].opening, line[i].version)

(* Handlers insert texts in the order in which the client sent them. *)
Sorted(line) ==
  \A i, j \in 1 .. Len(line) :
    i < j /\ line[i].kind \in {"open", "change"} /\ Inserts(line[j], line[i].doc)
      => Before(line[i].opening, line[i].version, line[j].opening, line[j].version)

(* Version v of opening o of d is one that has been inserted: the one that *)
(* d has, or one before it, and before those that are to be inserted.      *)
Past(d, o, v) ==
  /\ o \in Nat /\ v \in Nat
  /\ NotAfter(o, v, opened[d], lastVersion[d])
  /\ documents[d] # None => NotAfter(o, v, documents[d].opening, documents[d].version)
  /\ Precedes(waiting, d, o, v)

IsCurrent(d, o, v) ==
  documents[d] # None /\ o = documents[d].opening /\ v = documents[d].version

(* What was read of d at version v of opening o: its text, if it did not   *)
(* change since.                                                           *)
ReadOK(d, o, v, text) ==
  Past(d, o, v) /\ (IsCurrent(d, o, v) => text = documents[d].text)

DocOK(d) ==
  documents[d] # None =>
    documents[d].text \in Nat /\ Past(d, documents[d].opening, documents[d].version)

SnapshotOK(d) ==
  snapshots[d] # None =>
    ReadOK(d, snapshots[d].opening, snapshots[d].version, snapshots[d].texts[d])

Handlings ==
  [kind : {"open", "change", "publish", "request"}, doc : Docs,
   opening : Nat, version : Nat, text : Nat]
  \cup [kind : {"close"}, doc : Docs, opening : {None}, version : {None}, text : {None}]

HandlingOK(n) ==
  /\ n.kind \in {"open", "change"} =>
       NotAfter(n.opening, n.version, opened[n.doc], lastVersion[n.doc])
  /\ n.kind \in {"publish", "request"} => ReadOK(n.doc, n.opening, n.version, n.text)

TaskFields ==
  {"doc", "step", "aborted", "version", "opening", "pre", "text", "result"}

(* What the analysis of a timer has read of a document of this text. *)
Read(t, text) ==
  /\ t.step = "loader" => t.text = text
  /\ t.step \in {"recheck", "store"} \/ t.result # None => t.result[t.doc] = text

Awake(t) ==
  /\ Past(t.doc, t.opening, t.version)
  /\ t.pre # None => Past(t.doc, t.opening, t.pre)
  /\ t.step = "store" => t.pre # None
  /\ t.step \in {"lookup", "read", "loader"} => t.result = None
  /\ \/ IsCurrent(t.doc, t.opening, t.version)
     \/ t.pre # None /\ IsCurrent(t.doc, t.opening, t.pre)
     => Read(t, documents[t.doc].text)

(* A timer that sleeps is the pending one of a document that is there.     *)
TimerOK(g, t) ==
  /\ TaskFields \subseteq DOMAIN t /\ t.doc \in Docs
  /\ IF t.step = "sleep"
       THEN /\ documents[t.doc] # None /\ ~t.aborted
            /\ t.pre = None /\ t.result = None
       ELSE Awake(t)
  /\ ~t.aborted => pending_diagnostics[t.doc] = g

Domains ==
  /\ DOMAIN disk = Docs /\ DOMAIN editor = Docs /\ DOMAIN opened = Docs
  /\ DOMAIN lastVersion = Docs /\ DOMAIN documents = Docs
  /\ DOMAIN snapshots = Docs /\ DOMAIN pending_diagnostics = Docs
  /\ DOMAIN published = Docs /\ DOMAIN timers = Timers

NumbersOK ==
  /\ edits \in Nat /\ diagnostics_generation \in Nat
  /\ \A d \in Docs :
       /\ disk[d] \in Nat /\ editor[d] \in Nat \cup {None}
       /\ opened[d] \in Nat /\ lastVersion[d] \in Nat

QueueOK ==
  /\ waiting \in Seq(Handlings) /\ Sorted(waiting)
  /\ \A i \in 1 .. Len(waiting) : HandlingOK(waiting[i])

DocsOK == \A d \in Docs : DocOK(d) /\ SnapshotOK(d)

TimersOK == \A g \in Timers : timers[g] # None => TimerOK(g, timers[g])

Inv == NumbersOK /\ Domains /\ QueueOK /\ DocsOK /\ TimersOK

-----------------------------------------------------------------------------
(* The line of handlers.                                                   *)

LEMMA OneIn ==
  ASSUME Inv, NEW n \in Handlings
  PROVE  /\ n.doc \in Docs /\ n.kind \in {"open", "change", "publish", "request", "close"}
         /\ n.kind # "close" => n.opening \in Nat /\ n.version \in Nat /\ n.text \in Nat
  BY DEF Handlings

(* The line goes on as it is, or without its head.                         *)
Continues(line) ==
  line = waiting \/ (waiting # <<>> /\ line = Tail(waiting))

LEMMA LineOK ==
  ASSUME Inv, NEW line, Continues(line)
  PROVE  /\ line \in Seq(Handlings) /\ Sorted(line)
         /\ \A i \in 1 .. Len(line) : line[i] \in Handlings /\ HandlingOK(line[i])
         /\ \A d, o, v : Precedes(waiting, d, o, v) => Precedes(line, d, o, v)
<1>1. waiting \in Seq(Handlings) /\ Sorted(waiting)
      /\ \A i \in 1 .. Len(waiting) : waiting[i] \in Handlings /\ HandlingOK(waiting[i])
  BY DEF Inv, QueueOK
<1>2. CASE line = waiting
  BY <1>1, <1>2
<1>3. CASE waiting # <<>> /\ line = Tail(waiting)
  <2>1. /\ line \in Seq(Handlings) /\ Len(waiting) \in Nat /\ Len(line) = Len(waiting) - 1
        /\ \A i \in 1 .. Len(line) : line[i] = waiting[i + 1]
    BY <1>1, <1>3
  <2>2. \A i \in 1 .. Len(line) : i + 1 \in 1 .. Len(waiting)
    BY <2>1
  <2>3. Sorted(line)
    <3> SUFFICES ASSUME NEW i \in 1 .. Len(line), NEW j \in 1 .. Len(line), i < j,
                        line[i].kind \in {"open", "change"}, Inserts(line[j], line[i].doc)
                 PROVE  Before(line[i].opening, line[i].version,
                               line[j].opening, line[j].version)
      BY DEF Sorted
    <3>1. i + 1 < j + 1 /\ line[i] = waiting[i + 1] /\ line[j] = waiting[j + 1]
      BY <2>1
    <3> QED BY <1>1, <2>2, <3>1 DEF Sorted
  <2>4. ASSUME NEW d, NEW o, NEW v, Precedes(waiting, d, o, v) PROVE Precedes(line, d, o, v)
    BY <2>1, <2>2, <2>4 DEF Precedes
  <2> QED BY <1>1, <2>1, <2>2, <2>3, <2>4
<1> QED BY <1>2, <1>3 DEF Continues

(* The handler that has the loader.                                        *)
LEMMA HeadOK ==
  ASSUME Inv, waiting # <<>>
  PROVE  LET n == Head(waiting) IN
         /\ n \in Handlings /\ HandlingOK(n) /\ Continues(Tail(waiting))
         /\ n.kind \in {"open", "change"} =>
              Precedes(Tail(waiting), n.doc, n.opening, n.version)
         /\ \A d, o, v : Inserts(n, d) /\ Precedes(waiting, d, o, v)
                           => Before(o, v, n.opening, n.version)
<1> DEFINE line == Tail(waiting)
<1>1. waiting \in Seq(Handlings) /\ Sorted(waiting)
      /\ \A i \in 1 .. Len(waiting) : waiting[i] \in Handlings /\ HandlingOK(waiting[i])
  BY DEF Inv, QueueOK
<1>2. /\ Len(waiting) \in Nat /\ Len(line) = Len(waiting) - 1 /\ 1 \in 1 .. Len(waiting)
      /\ Head(waiting) = waiting[1]
      /\ \A i \in 1 .. Len(line) : line[i] = waiting[i + 1] /\ i + 1 \in 1 .. Len(waiting)
  BY <1>1
<1>3. ASSUME waiting[1].kind \in {"open", "change"}
      PROVE  Precedes(line, waiting[1].doc, waiting[1].opening, waiting[1].version)
  <2> SUFFICES ASSUME NEW i \in 1 .. Len(line), Inserts(line[i], waiting[1].doc)
               PROVE  Before(waiting[1].opening, waiting[1].version,
                             line[i].opening, line[i].version)
    BY DEF Precedes
  <2>1. 1 < i + 1
    BY <1>2
  <2> QED BY <1>1, <1>2, <1>3, <2>1 DEF Sorted
<1>4. ASSUME NEW d, NEW o, NEW v, Inserts(waiting[1], d), Precedes(waiting, d, o, v)
      PROVE  Before(o, v, waiting[1].opening, waiting[1].version)
  BY <1>2, <1>4 DEF Precedes
<1> QED BY <1>1, <1>2, <1>3, <1>4 DEF Continues

(* A handler at the end of the line.                                       *)
LEMMA OneMore ==
  ASSUME NEW line \in Seq(Handlings), NEW n \in Handlings
  PROVE  LET more == Append(line, n) IN
         /\ more \in Seq(Handlings) /\ Len(line) \in Nat /\ Len(more) = Len(line) + 1
         /\ more[Len(more)] = n
         /\ \A i \in 1 .. Len(more) : i # Len(more) => i \in 1 .. Len(line) /\ more[i] = line[i]
  OBVIOUS

LEMMA OneMorePrecedes ==
  ASSUME NEW line \in Seq(Handlings), NEW n \in Handlings, NEW d, NEW o, NEW v,
         Precedes(line, d, o, v), Inserts(n, d) => Before(o, v, n.opening, n.version)
  PROVE  Precedes(Append(line, n), d, o, v)
<1> DEFINE more == Append(line, n)
<1> SUFFICES ASSUME NEW i \in 1 .. Len(more), Inserts(more[i], d)
             PROVE  Before(o, v, more[i].opening, more[i].version)
  BY DEF Precedes
<1>1. more[Len(more)] = n
      /\ (i # Len(more) => i \in 1 .. Len(line) /\ more[i] = line[i])
  BY OneMore
<1> HIDE DEF more
<1> QED BY <1>1 DEF Precedes

LEMMA OneMoreSorted ==
  ASSUME NEW line \in Seq(Handlings), NEW n \in Handlings, Sorted(line),
         n.kind \in {"open", "change"} =>
           \A i \in 1 .. Len(line) :
             Inserts(line[i], n.doc)
               => Before(line[i].opening, line[i].version, n.opening, n.version)
  PROVE  Sorted(Append(line, n))
<1> DEFINE more == Append(line, n)
<1> SUFFICES ASSUME NEW i \in 1 .. Len(more), NEW j \in 1 .. Len(more), i < j,
                    more[i].kind \in {"open", "change"}, Inserts(more[j], more[i].doc)
             PROVE  Before(more[i].opening, more[i].version, more[j].opening, more[j].version)
  BY DEF Sorted
<1>1. /\ more[Len(more)] = n /\ Len(line) \in Nat /\ Len(more) = Len(line) + 1
      /\ \A k \in 1 .. Len(more) : k # Len(more) => k \in 1 .. Len(line) /\ more[k] = line[k]
  BY OneMore
<1> HIDE DEF more
<1>2. i # Len(more)
  BY <1>1
<1>3. CASE j = Len(more)
  BY <1>1, <1>2, <1>3 DEF Inserts
<1>4. CASE j # Len(more)
  BY <1>1, <1>2, <1>4 DEF Sorted
<1> QED BY <1>3, <1>4

-----------------------------------------------------------------------------
(* What a step makes of what was read of d.                                *)

Carries(d) ==
  \A o, v :
    /\ o \in Nat /\ v \in Nat /\ NotAfter(o, v, opened[d], lastVersion[d])
         => NotAfter(o, v, opened'[d], lastVersion'[d])
    /\ Past(d, o, v) =>
         Past(d, o, v)' /\ (IsCurrent(d, o, v)' => documents'[d] = documents[d])

LEMMA ReadCarried ==
  ASSUME NEW d, Carries(d), NEW o, NEW v, NEW text, ReadOK(d, o, v, text)
  PROVE  ReadOK(d, o, v, text)'
  BY DEF Carries, ReadOK, IsCurrent

LEMMA HandlingCarried ==
  ASSUME Inv, \A e \in Docs : Carries(e), NEW n \in Handlings, HandlingOK(n)
  PROVE  HandlingOK(n)'
<1>1. n.doc \in Docs /\ Carries(n.doc)
  BY OneIn
<1>2. n.kind # "close" => n.opening \in Nat /\ n.version \in Nat
  BY OneIn
<1> QED BY <1>1, <1>2, ReadCarried DEF HandlingOK, Carries

(* The document stays as it is, or goes.                                   *)
LEMMA KeptCarries ==
  ASSUME NEW d, documents'[d] \in {documents[d], None},
         \A o, v : o \in Nat /\ v \in Nat /\ NotAfter(o, v, opened[d], lastVersion[d])
                     => /\ NotAfter(o, v, opened'[d], lastVersion'[d])
                        /\ Precedes(waiting, d, o, v) => Precedes(waiting', d, o, v)
  PROVE  Carries(d)
  BY DEF Carries, Past, IsCurrent

(* An analysis joins the line, or nobody does.                             *)
Joins(line, n) == n \in Handlings /\ n.kind \notin {"open", "change"}
                  /\ waiting' = Append(line, n)

LEMMA LineCarries ==
  ASSUME Inv, NEW d, documents'[d] \in {documents[d], None}, UNCHANGED <<opened, lastVersion>>,
         NEW line, Continues(line), waiting' = line \/ \E n : Joins(line, n)
  PROVE  Carries(d)
<1>1. ASSUME NEW o, NEW v, Precedes(waiting, d, o, v) PROVE Precedes(waiting', d, o, v)
  <2>1. line \in Seq(Handlings) /\ Precedes(line, d, o, v)
    BY <1>1, LineOK
  <2>2. CASE waiting' = line
    BY <2>1, <2>2
  <2>3. CASE \E n : Joins(line, n)
    BY <2>1, <2>3, OneMorePrecedes DEF Joins, Inserts
  <2> QED BY <2>2, <2>3
<1> QED BY <1>1, KeptCarries

(* A document and its version in the client, after a didOpen or didChange.  *)
LEMMA ClientCarries ==
  ASSUME Inv, UNCHANGED documents, NEW d \in Docs, NEW n \in Handlings,
         n.doc = d, n.kind \in {"open", "change"},
         waiting' = Append(waiting, n),
         \A e \in Docs \ {d} : opened'[e] = opened[e] /\ lastVersion'[e] = lastVersion[e],
         opened'[d] = n.opening, lastVersion'[d] = n.version,
         Before(opened[d], lastVersion[d], n.opening, n.version)
  PROVE  QueueOK' /\ \A e \in Docs : Carries(e)
<1>1. /\ waiting \in Seq(Handlings) /\ Sorted(waiting)
      /\ \A i \in 1 .. Len(waiting) : waiting[i] \in Handlings /\ HandlingOK(waiting[i])
  BY DEF Inv, QueueOK
<1>2. /\ n.opening \in Nat /\ n.version \in Nat
      /\ \A e \in Docs : opened[e] \in Nat /\ lastVersion[e] \in Nat
  BY OneIn DEF Inv, NumbersOK
<1>3. ASSUME NEW e \in Docs PROVE Carries(e)
  <2> SUFFICES ASSUME NEW o \in Nat, NEW v \in Nat,
                      NotAfter(o, v, opened[e], lastVersion[e])
               PROVE  /\ NotAfter(o, v, opened'[e], lastVersion'[e])
                      /\ Precedes(waiting, e, o, v) => Precedes(waiting', e, o, v)
    BY KeptCarries
  <2>1. NotAfter(o, v, opened'[e], lastVersion'[e])
    BY <1>2 DEF NotAfter, Before
  <2>2. Inserts(n, e) => Before(o, v, n.opening, n.version)
    BY <1>2 DEF Inserts, NotAfter, Before
  <2> QED BY <1>1, <2>1, <2>2, OneMorePrecedes
<1>4. ASSUME NEW i \in 1 .. Len(waiting), Inserts(waiting[i], d)
      PROVE  Before(waiting[i].opening, waiting[i].version, n.opening, n.version)
  <2>1. /\ NotAfter(waiting[i].opening, waiting[i].version, opened[d], lastVersion[d])
        /\ waiting[i].opening \in Nat /\ waiting[i].version \in Nat
    BY <1>1, <1>4, OneIn DEF HandlingOK, Inserts
  <2> QED BY <1>2, <2>1 DEF NotAfter, Before
<1>5. Sorted(waiting')
  BY <1>1, <1>4, OneMoreSorted
<1>6. ASSUME NEW m \in Handlings, HandlingOK(m) PROVE HandlingOK(m)'
  BY <1>3, <1>6, HandlingCarried
<1>7. HandlingOK(n)'
  BY <1>2 DEF HandlingOK, NotAfter
<1>8. QueueOK'
  <2>1. /\ waiting' \in Seq(Handlings)
        /\ \A i \in 1 .. Len(waiting') :
             waiting'[i] = n \/ (i \in 1 .. Len(waiting) /\ waiting'[i] = waiting[i])
    BY <1>1, OneMore
  <2>2. ASSUME NEW i \in 1 .. Len(waiting'), NEW m, m = waiting'[i] PROVE HandlingOK(m)'
    BY <1>1, <1>6, <1>7, <2>1, <2>2
  <2> QED BY <1>5, <2>1, <2>2 DEF QueueOK
<1> QED BY <1>3, <1>8

(* An analysis that joins the line is of a text that was read.             *)
LEMMA LineQueue ==
  ASSUME Inv, \A e \in Docs : Carries(e), NEW line, Continues(line),
         \/ waiting' = line
         \/ \E n : Joins(line, n) /\ HandlingOK(n)'
  PROVE  QueueOK'
<1>1. /\ line \in Seq(Handlings) /\ Sorted(line)
      /\ \A i \in 1 .. Len(line) : line[i] \in Handlings /\ HandlingOK(line[i])
  BY LineOK
<1>2. \A i \in 1 .. Len(line) : HandlingOK(line[i])'
  <2> SUFFICES ASSUME NEW i \in 1 .. Len(line), NEW m, m = line[i] PROVE HandlingOK(m)'
    OBVIOUS
  <2> QED BY <1>1, HandlingCarried
<1>3. CASE waiting' = line
  BY <1>1, <1>2, <1>3 DEF QueueOK
<1>4. CASE \E n : Joins(line, n) /\ HandlingOK(n)'
  <2>1. PICK n : Joins(line, n) /\ HandlingOK(n)'
    BY <1>4
  <2>2. Sorted(waiting')
    BY <1>1, <2>1, OneMoreSorted DEF Joins
  <2>3. /\ waiting' \in Seq(Handlings)
        /\ \A i \in 1 .. Len(waiting') :
             waiting'[i] = n \/ (i \in 1 .. Len(line) /\ waiting'[i] = line[i])
    BY <1>1, <2>1, OneMore DEF Joins
  <2>4. ASSUME NEW i \in 1 .. Len(waiting'), NEW m, m = waiting'[i] PROVE HandlingOK(m)'
    <3>1. CASE m = n
      BY <2>1, <3>1
    <3>2. CASE i \in 1 .. Len(line) /\ m = line[i]
      BY <1>1, <3>2, HandlingCarried
    <3> QED BY <2>3, <2>4, <3>1, <3>2
  <2> QED BY <2>2, <2>3, <2>4 DEF QueueOK
<1> QED BY <1>3, <1>4

(* The handler at the head inserts its text.                               *)
LEMMA InsertCarries ==
  ASSUME Inv, waiting # <<>>, NEW n, n = Head(waiting), n.kind \in {"open", "change"},
         Insert(n), UNCHANGED <<opened, lastVersion>>,
         waiting' = Tail(waiting) \/ \E m : Joins(Tail(waiting), m)
  PROVE  /\ \A e \in Docs : Carries(e) /\ DocOK(e)' /\ (documents[e] # None => documents'[e] # None)
         /\ documents'[n.doc] # None /\ n.doc \in Docs
         /\ DOMAIN documents' = Docs
<1> DEFINE d == n.doc
           line == Tail(waiting)
           new == [text |-> n.text, version |-> n.version, opening |-> n.opening]
<1>1. /\ n \in Handlings /\ d \in Docs /\ HandlingOK(n) /\ Continues(line)
      /\ n.opening \in Nat /\ n.version \in Nat /\ n.text \in Nat
      /\ Precedes(line, d, n.opening, n.version)
  BY HeadOK, OneIn
<1>2. /\ new.text = n.text /\ new.version = n.version /\ new.opening = n.opening
      /\ new # None
  <2>1. new \in [text : Nat, version : Nat, opening : Nat]
    BY <1>1
  <2> QED BY <2>1, LspAssumption
<1>3. documents' = [documents EXCEPT ![d] = new] /\ DOMAIN documents = Docs
  BY DEF Insert, Inv, Domains
<1> HIDE DEF new
<1>4. ASSUME NEW e, NEW o, NEW v, Precedes(line, e, o, v) PROVE Precedes(waiting', e, o, v)
  <2>1. line \in Seq(Handlings)
    BY <1>1, LineOK
  <2> QED BY <1>4, <2>1, OneMorePrecedes DEF Joins, Inserts
<1>5. waiting' = line \/ \E m : Joins(line, m)
  OBVIOUS
<1>6. ASSUME NEW e \in Docs \ {d}
      PROVE  Carries(e) /\ DocOK(e)' /\ documents'[e] = documents[e]
  <2>1. documents'[e] = documents[e]
    BY <1>3
  <2>2. Carries(e)
    <3>1. documents'[e] \in {documents[e], None}
      BY <2>1
    <3> HIDE DEF line
    <3> QED BY <1>1, <1>5, <3>1, LineCarries
  <2>3. DocOK(e)
    BY DEF Inv, DocsOK
  <2> QED BY <2>1, <2>2, <2>3 DEF DocOK, Carries
<1>7. documents'[d] = new
  BY <1>1, <1>3
<1>8. Carries(d)
  <2> SUFFICES ASSUME NEW o, NEW v, Past(d, o, v)
               PROVE  Past(d, o, v)' /\ ~IsCurrent(d, o, v)'
    BY DEF Carries
  <2>1. o \in Nat /\ v \in Nat /\ Before(o, v, n.opening, n.version)
    BY HeadOK DEF Past, Inserts
  <2>2. Precedes(waiting', d, o, v)
    BY <1>1, <1>4, LineOK DEF Past
  <2>3. NotAfter(o, v, new.opening, new.version) /\ ~(o = new.opening /\ v = new.version)
    BY <1>1, <1>2, <2>1 DEF NotAfter, Before
  <2> QED BY <1>2, <1>7, <2>1, <2>2, <2>3 DEF Past, IsCurrent
<1>9. DocOK(d)'
  <2>1. NotAfter(n.opening, n.version, opened[d], lastVersion[d])
    BY <1>1 DEF HandlingOK
  <2>2. Precedes(waiting', d, n.opening, n.version)
    BY <1>1, <1>4
  <2> QED BY <1>1, <1>2, <1>7, <2>1, <2>2 DEF DocOK, Past, NotAfter
<1> QED BY <1>1, <1>2, <1>3, <1>6, <1>7, <1>8, <1>9

(* Documents that stay, or go.                                             *)
LEMMA DocCarried ==
  ASSUME Inv, NEW e \in Docs, Carries(e), documents'[e] \in {documents[e], None}
  PROVE  DocOK(e)'
<1>1. DocOK(e)
  BY DEF Inv, DocsOK
<1> QED BY <1>1 DEF DocOK, Carries

LEMMA SnapshotCarried ==
  ASSUME Inv, NEW e \in Docs, Carries(e), snapshots'[e] \in {snapshots[e], None}
  PROVE  SnapshotOK(e)'
<1>1. SnapshotOK(e)
  BY DEF Inv, DocsOK
<1> QED BY <1>1, ReadCarried DEF SnapshotOK

(* Reading a document, for an analysis that joins the line.                *)
LEMMA JoinsRead ==
  ASSUME NEW d \in Docs, documents'[d] # None, DocOK(d)',
         NEW kind \in {"publish", "request"}, NEW doc, doc = documents'[d], NEW line,
         waiting' = Append(line, Handling(kind, d, doc.opening, doc.version, doc.text))
  PROVE  \E n : Joins(line, n) /\ HandlingOK(n)'
<1> DEFINE n == Handling(kind, d, doc.opening, doc.version, doc.text)
<1>1. doc.opening \in Nat /\ doc.version \in Nat /\ doc.text \in Nat
  BY DEF DocOK, Past
<1>2. /\ n.kind = kind /\ n.doc = d /\ n.opening = doc.opening /\ n.version = doc.version
      /\ n.text = doc.text /\ n \in Handlings
  BY <1>1 DEF Handling, Handlings
<1> HIDE DEF n
<1>3. ReadOK(d, doc.opening, doc.version, doc.text)'
  BY DEF DocOK, ReadOK
<1>4. HandlingOK(n)'
  BY <1>2, <1>3 DEF HandlingOK
<1> QED BY <1>2, <1>4 DEF Joins, n

-----------------------------------------------------------------------------
(* Timers that a step leaves alone, or aborts.                             *)

(* What an analysis of a timer has read is carried over.                   *)
LEMMA AwakeCarried ==
  ASSUME NEW t, Carries(t.doc), Awake(t)
  PROVE  Awake(t)'
  BY DEF Awake, Carries, IsCurrent

LEMMA TimersCarried ==
  ASSUME Inv, UNCHANGED <<timers, pending_diagnostics>>,
         \A e \in Docs : Carries(e) /\ (documents[e] # None => documents'[e] # None)
  PROVE  TimersOK'
<1> SUFFICES ASSUME NEW g \in Timers, NEW t, t = timers[g], t # None
             PROVE  TimerOK(g, t)'
  BY DEF TimersOK
<1>1. TimerOK(g, t)
  BY DEF Inv, TimersOK
<1>2. t.doc \in Docs /\ Carries(t.doc)
  BY <1>1 DEF TimerOK
<1> QED BY <1>1, <1>2, AwakeCarried DEF TimerOK

(* The pending timer of d is dropped or aborted, hence all timers of d are. *)
LEMMA AbortsPending ==
  ASSUME Inv, NEW d \in Docs, NEW g \in Timers, NEW o, o = timers[g],
         NEW t, t = AbortPending(d)[g], t # None
  PROVE  /\ o # None /\ TimerOK(g, o) /\ TaskFields \subseteq DOMAIN t
         /\ t.doc = o.doc /\ t.step = o.step /\ t.version = o.version
         /\ t.opening = o.opening /\ t.pre = o.pre /\ t.text = o.text /\ t.result = o.result
         /\ ~t.aborted => ~o.aborted
         /\ IF o.doc = d THEN t.aborted /\ t.step # "sleep"
                         ELSE o.step = "sleep" => ~t.aborted
<1>1. DOMAIN timers = Timers /\ g # None
  BY LspAssumption DEF Inv, Domains, Timers
<1>2. o # None => TimerOK(g, o)
  BY DEF Inv, TimersOK
<1>3. CASE pending_diagnostics[d] = g
  <2>1. t = Aborted(o)
    BY <1>1, <1>3 DEF AbortPending
  <2>2. o # None /\ o.step # "sleep" /\ t = [o EXCEPT !.aborted = TRUE]
    BY <2>1 DEF Aborted
  <2>3. TaskFields \subseteq DOMAIN o
    BY <1>2, <2>2 DEF TimerOK
  <2>4. /\ t.doc = o.doc /\ t.step = o.step /\ t.version = o.version /\ t.pre = o.pre
        /\ t.opening = o.opening /\ t.text = o.text /\ t.result = o.result
        /\ t.aborted = TRUE /\ TaskFields \subseteq DOMAIN t
    BY <2>2, <2>3 DEF TaskFields
  <2> QED BY <1>2, <2>2, <2>4
<1>4. CASE pending_diagnostics[d] # g
  <2>1. t = o
    BY <1>1, <1>4 DEF AbortPending
  <2> QED BY <1>2, <1>4, <2>1 DEF TimerOK
<1> QED BY <1>3, <1>4

LEMMA AbortDomain ==
  ASSUME Inv, NEW d
  PROVE  DOMAIN AbortPending(d) = Timers
  BY DEF Inv, Domains, AbortPending

(* A timer that was not replaced when those of d were aborted.             *)
LEMMA AbortCarried ==
  ASSUME Inv, NEW d \in Docs, NEW g \in Timers, NEW t, t = AbortPending(d)[g], t # None,
         \A e \in Docs : Carries(e),
         \A e \in Docs \ {d} : /\ documents[e] # None => documents'[e] # None
                               /\ pending_diagnostics'[e] = pending_diagnostics[e]
  PROVE  TimerOK(g, t)'
<1>1. PICK o : o = timers[g]
  OBVIOUS
<1>2. /\ o # None /\ TimerOK(g, o) /\ TaskFields \subseteq DOMAIN t
      /\ t.doc = o.doc /\ t.step = o.step /\ t.version = o.version
      /\ t.opening = o.opening /\ t.pre = o.pre /\ t.text = o.text /\ t.result = o.result
      /\ ~t.aborted => ~o.aborted
      /\ IF o.doc = d THEN t.aborted /\ t.step # "sleep"
                      ELSE o.step = "sleep" => ~t.aborted
  BY <1>1, AbortsPending
<1>3. t.doc \in Docs /\ Carries(t.doc)
  BY <1>2 DEF TimerOK
<1>4. Awake(o) => Awake(t)
  BY <1>2 DEF Awake, Read
<1>5. Awake(o) => Awake(t)'
  BY <1>3, <1>4, AwakeCarried
<1> QED BY <1>2, <1>3, <1>5 DEF TimerOK

-----------------------------------------------------------------------------
(* Notifications and requests, up to the lock of the loader.               *)

LEMMA DidOpenKeeps ==
  ASSUME Inv, NEW d \in Docs, DidOpen(d)
  PROVE  Inv'
<1>1. PICK v \in {1, lastVersion[d] + 1} :
        /\ lastVersion' = [lastVersion EXCEPT ![d] = v]
        /\ waiting' = Append(waiting, Handling("open", d, opened[d] + 1, v, disk[d]))
  BY DEF DidOpen, Enqueue
<1>2. PICK o : o = opened[d] + 1
  OBVIOUS
<1>3. /\ opened[d] \in Nat /\ lastVersion[d] \in Nat /\ disk[d] \in Nat /\ Domains
  BY DEF Inv, NumbersOK
<1>4. o \in Nat /\ v \in Nat /\ Before(opened[d], lastVersion[d], o, v)
  BY <1>1, <1>2, <1>3 DEF Before
<1>5. opened' = [opened EXCEPT ![d] = o] /\ editor' = [editor EXCEPT ![d] = disk[d]]
  BY <1>2 DEF DidOpen
<1>6. NumbersOK' /\ Domains'
  BY <1>1, <1>3, <1>4, <1>5 DEF DidOpen, timing, Inv, NumbersOK, Domains
<1> DEFINE n == Handling("open", d, o, v, disk[d])
<1>7. n \in Handlings /\ n.doc = d /\ n.kind = "open" /\ n.opening = o /\ n.version = v
  BY <1>3, <1>4 DEF Handling, Handlings
<1>8. waiting' = Append(waiting, n) /\ UNCHANGED <<documents, timers, pending_diagnostics>>
      /\ \A e \in Docs : snapshots'[e] \in {snapshots[e], None}
  BY <1>1, <1>2, <1>3 DEF DidOpen, timing, Domains
<1>9. /\ \A e \in Docs \ {d} : opened'[e] = opened[e] /\ lastVersion'[e] = lastVersion[e]
      /\ opened'[d] = o /\ lastVersion'[d] = v
  BY <1>1, <1>3, <1>5 DEF Domains
<1> HIDE DEF n
<1>10. QueueOK' /\ \A e \in Docs : Carries(e)
  BY <1>4, <1>7, <1>8, <1>9, ClientCarries
<1>11. DocsOK'
  BY <1>8, <1>10, DocCarried, SnapshotCarried DEF DocsOK
<1>12. TimersOK'
  BY <1>8, <1>10, TimersCarried
<1> QED BY <1>6, <1>10, <1>11, <1>12 DEF Inv

LEMMA DidChangeKeeps ==
  ASSUME Inv, NEW d \in Docs, DidChange(d)
  PROVE  Inv'
<1>1. PICK x : x = edits + 1
  OBVIOUS
<1>2. PICK v : v = lastVersion[d] + 1
  OBVIOUS
<1>3. /\ opened[d] \in Nat /\ lastVersion[d] \in Nat /\ edits \in Nat /\ Domains
  BY DEF Inv, NumbersOK
<1>4. x \in Nat /\ v \in Nat /\ Before(opened[d], lastVersion[d], opened[d], v)
  BY <1>1, <1>2, <1>3 DEF Before
<1>5. /\ edits' = x /\ editor' = [editor EXCEPT ![d] = x]
      /\ lastVersion' = [lastVersion EXCEPT ![d] = v] /\ snapshots' = [e \in Docs |-> None]
      /\ UNCHANGED <<disk, opened, documents, timers, pending_diagnostics,
                     diagnostics_generation, published>>
  BY <1>1, <1>2 DEF DidChange, timing
<1>6. NumbersOK' /\ Domains'
  BY <1>3, <1>4, <1>5 DEF Inv, NumbersOK, Domains
<1> DEFINE n == Handling("change", d, opened[d], v, x)
<1>7. /\ n \in Handlings /\ n.doc = d /\ n.kind = "change" /\ n.opening = opened[d]
      /\ n.version = v
  BY <1>3, <1>4 DEF Handling, Handlings
<1>8. waiting' = Append(waiting, n)
  <2>1. lastVersion'[d] = v
    BY <1>3, <1>5 DEF Domains
  <2> QED BY <1>5, <2>1 DEF DidChange, Enqueue
<1>9. /\ \A e \in Docs \ {d} : opened'[e] = opened[e] /\ lastVersion'[e] = lastVersion[e]
      /\ opened'[d] = opened[d] /\ lastVersion'[d] = v
  BY <1>3, <1>5 DEF Domains
<1> HIDE DEF n
<1>10. QueueOK' /\ \A e \in Docs : Carries(e)
  BY <1>4, <1>5, <1>7, <1>8, <1>9, ClientCarries
<1>11. DocsOK'
  BY <1>5, <1>10, DocCarried, SnapshotCarried DEF DocsOK
<1>12. TimersOK'
  BY <1>5, <1>10, TimersCarried
<1> QED BY <1>6, <1>10, <1>11, <1>12 DEF Inv

LEMMA DidCloseKeeps ==
  ASSUME Inv, NEW d \in Docs, DidClose(d)
  PROVE  Inv'
<1>1. /\ editor' = [editor EXCEPT ![d] = None] /\ timers' = AbortPending(d)
      /\ pending_diagnostics' = [pending_diagnostics EXCEPT ![d] = None]
      /\ documents' = [documents EXCEPT ![d] = None]
      /\ snapshots' = [snapshots EXCEPT ![d] = None]
      /\ waiting' = Append(waiting, Handling("close", d, None, None, None))
      /\ UNCHANGED <<disk, opened, lastVersion, edits, diagnostics_generation, published>>
  BY DEF DidClose, Enqueue
<1>2. Domains
  BY DEF Inv
<1>3. NumbersOK' /\ Domains'
  BY <1>1, AbortDomain DEF Inv, NumbersOK, Domains
<1>4. /\ \A e \in Docs : documents'[e] \in {documents[e], None}
      /\ \A e \in Docs : snapshots'[e] \in {snapshots[e], None}
      /\ \A e \in Docs \ {d} : /\ documents'[e] = documents[e]
                               /\ pending_diagnostics'[e] = pending_diagnostics[e]
  BY <1>1, <1>2 DEF Domains
<1>5. \E n : Joins(waiting, n) /\ HandlingOK(n)'
  <2> DEFINE n == Handling("close", d, None, None, None)
  <2>1. n \in Handlings /\ n.kind = "close"
    BY DEF Handling, Handlings
  <2>2. waiting' = Append(waiting, n)
    BY <1>1
  <2> HIDE DEF n
  <2> QED BY <2>1, <2>2 DEF Joins, HandlingOK
<1>6. Continues(waiting)
  BY DEF Continues
<1>7. \A e \in Docs : Carries(e)
  BY <1>1, <1>4, <1>5, <1>6, LineCarries
<1>8. QueueOK'
  BY <1>5, <1>6, <1>7, LineQueue
<1>9. DocsOK'
  BY <1>4, <1>7, DocCarried, SnapshotCarried DEF DocsOK
<1>10. TimersOK'
  <2> SUFFICES ASSUME NEW g \in Timers, NEW t, t = timers'[g], t # None
               PROVE  TimerOK(g, t)'
    BY DEF TimersOK
  <2> QED BY <1>1, <1>4, <1>7, AbortCarried
<1> QED BY <1>3, <1>8, <1>9, <1>10 DEF Inv

LEMMA AsksKeeps ==
  ASSUME Inv, NEW d \in Docs, DidSave(d) \/ Request(d)
  PROVE  Inv'
<1>1. PICK kind \in {"publish", "request"} : BeginAnalysis(kind, d, documents[d], waiting)
  BY DEF DidSave, Request
<1>2. /\ UNCHANGED <<editor, opened, lastVersion, edits, documents, snapshots, timers,
                     pending_diagnostics, diagnostics_generation>>
      /\ disk' = disk \/ (editor[d] # None /\ disk' = [disk EXCEPT ![d] = editor[d]])
  BY DEF DidSave, Request, caches, timing
<1>3. DOMAIN published' = Docs
  BY <1>1 DEF BeginAnalysis, Send, Inv, Domains
<1>4. NumbersOK' /\ Domains'
  BY <1>2, <1>3 DEF Inv, NumbersOK, Domains
<1>5. PICK doc : doc = documents[d]
  OBVIOUS
<1>6. \/ waiting' = waiting
      \/ /\ doc # None
         /\ waiting' = Append(waiting, Handling(kind, d, doc.opening, doc.version, doc.text))
  BY <1>1, <1>5 DEF BeginAnalysis, Leave, Enqueue
<1>7. Continues(waiting)
  BY DEF Continues
<1>8. waiting' = waiting \/ \E n : Joins(waiting, n)
  <2>1. CASE doc # None
    <3>1. doc.opening \in Nat /\ doc.version \in Nat /\ doc.text \in Nat
      BY <1>5, <2>1 DEF Inv, DocsOK, DocOK, Past
    <3> DEFINE n == Handling(kind, d, doc.opening, doc.version, doc.text)
    <3>2. n \in Handlings /\ n.kind = kind
      BY <3>1 DEF Handling, Handlings
    <3> HIDE DEF n
    <3>3. waiting' = waiting \/ waiting' = Append(waiting, n)
      BY <1>6 DEF n
    <3> QED BY <3>2, <3>3 DEF Joins
  <2> QED BY <1>6, <2>1
<1>9. \A e \in Docs : Carries(e)
  BY <1>2, <1>7, <1>8, LineCarries
<1>10. DocsOK'
  BY <1>2, <1>9, DocCarried, SnapshotCarried DEF DocsOK
<1>11. waiting' = waiting \/ \E n : Joins(waiting, n) /\ HandlingOK(n)'
  BY <1>2, <1>5, <1>6, <1>10, JoinsRead DEF DocsOK
<1>12. QueueOK'
  BY <1>7, <1>9, <1>11, LineQueue
<1>13. TimersOK'
  BY <1>2, <1>9, TimersCarried
<1> QED BY <1>4, <1>10, <1>12, <1>13 DEF Inv

-----------------------------------------------------------------------------
(* What they do from there on.                                             *)

LEMMA FinishOpenKeeps ==
  ASSUME Inv, FinishOpen
  PROVE  Inv'
<1>1. PICK n : n = Head(waiting)
  OBVIOUS
<1>2. PICK doc : doc = documents'[n.doc]
  OBVIOUS
<1> DEFINE line == Tail(waiting)
<1>3. /\ waiting # <<>> /\ n.kind = "open" /\ Insert(n)
      /\ BeginAnalysis("publish", n.doc, doc, line)
      /\ UNCHANGED <<client, caches, timing>>
  BY <1>1, <1>2 DEF FinishOpen, Has
<1>4. /\ UNCHANGED <<disk, editor, opened, lastVersion, edits, snapshots, timers,
                     pending_diagnostics, diagnostics_generation>>
  BY <1>3 DEF client, caches, timing
<1>5. /\ n.doc \in Docs /\ n.opening \in Nat /\ n.version \in Nat /\ n.text \in Nat
      /\ Continues(line)
  BY <1>1, <1>3, HeadOK, OneIn
<1>6. DOMAIN published' = Docs
  BY <1>3 DEF BeginAnalysis, Send, Inv, Domains
<1>7. \/ waiting' = line
      \/ waiting' = Append(line, Handling("publish", n.doc, doc.opening, doc.version, doc.text))
  BY <1>3 DEF BeginAnalysis, Leave, Enqueue
<1> HIDE DEF line
<1>8. waiting' = line \/ \E m : Joins(line, m)
  <2> DEFINE m == Handling("publish", n.doc, doc.opening, doc.version, doc.text)
  <2>1. doc = [text |-> n.text, version |-> n.version, opening |-> n.opening]
    BY <1>2, <1>3, <1>5 DEF Insert, Inv, Domains
  <2>2. m \in Handlings /\ m.kind = "publish"
    BY <1>5, <2>1 DEF Handling, Handlings
  <2> HIDE DEF m
  <2>3. waiting' = line \/ waiting' = Append(line, m)
    BY <1>7 DEF m
  <2> QED BY <2>2, <2>3 DEF Joins
<1>9. /\ \A e \in Docs : Carries(e) /\ DocOK(e)' /\ (documents[e] # None => documents'[e] # None)
      /\ documents'[n.doc] # None /\ DOMAIN documents' = Docs
  BY <1>1, <1>3, <1>4, <1>8, InsertCarries DEF line
<1>10. NumbersOK' /\ Domains'
  BY <1>4, <1>6, <1>9 DEF Inv, NumbersOK, Domains
<1>11. DocsOK'
  BY <1>4, <1>9, SnapshotCarried DEF DocsOK
<1>12. waiting' = line \/ \E m : Joins(line, m) /\ HandlingOK(m)'
  BY <1>2, <1>5, <1>7, <1>9, JoinsRead
<1>13. QueueOK'
  BY <1>5, <1>9, <1>12, LineQueue
<1>14. TimersOK'
  BY <1>4, <1>9, TimersCarried
<1> QED BY <1>10, <1>11, <1>13, <1>14 DEF Inv

(* A new timer sleeps, for a document that is there. *)
LEMMA NewTimer ==
  ASSUME NEW d \in Docs
  PROVE  LET t == Timer(d) IN
         /\ TaskFields \subseteq DOMAIN t /\ t.doc = d /\ t.step = "sleep"
         /\ t.aborted = FALSE /\ t.pre = None /\ t.result = None
  BY DEF Timer, TaskFields

LEMMA FinishChangeKeeps ==
  ASSUME Inv, FinishChange
  PROVE  Inv'
<1>1. PICK n : n = Head(waiting)
  OBVIOUS
<1>2. PICK h : h = diagnostics_generation + 1
  OBVIOUS
<1> DEFINE line == Tail(waiting)
<1>3. /\ waiting # <<>> /\ n.kind = "change" /\ Insert(n) /\ waiting' = line
      /\ timers' = [AbortPending(n.doc) EXCEPT ![h] = Timer(n.doc)]
      /\ pending_diagnostics' = [pending_diagnostics EXCEPT ![n.doc] = h]
      /\ diagnostics_generation' = h
      /\ UNCHANGED <<client, caches, published>>
  BY <1>1, <1>2 DEF FinishChange, Has, ScheduleDiagnostics, Leave
<1>4. /\ UNCHANGED <<disk, editor, opened, lastVersion, edits, snapshots, published>>
  BY <1>3 DEF client, caches
<1>5. n.doc \in Docs /\ Continues(line)
  BY <1>1, <1>3, HeadOK, OneIn
<1>6. /\ \A e \in Docs : Carries(e) /\ DocOK(e)' /\ (documents[e] # None => documents'[e] # None)
      /\ documents'[n.doc] # None /\ DOMAIN documents' = Docs
  BY <1>1, <1>3, <1>4, InsertCarries
<1> HIDE DEF line
<1>7. NumbersOK' /\ Domains'
  <2>1. h \in Nat
    BY <1>2 DEF Inv, NumbersOK
  <2> QED BY <1>3, <1>4, <1>6, <2>1, AbortDomain DEF Inv, NumbersOK, Domains
<1>8. DocsOK'
  BY <1>4, <1>6, SnapshotCarried DEF DocsOK
<1>9. QueueOK'
  BY <1>3, <1>5, <1>6, LineQueue
<1>10. TimersOK'
  <2> SUFFICES ASSUME NEW g \in Timers, NEW t, t = timers'[g], t # None
               PROVE  TimerOK(g, t)'
    BY DEF TimersOK
  <2>1. DOMAIN AbortPending(n.doc) = Timers /\ DOMAIN pending_diagnostics = Docs
    BY AbortDomain DEF Inv, Domains
  <2>2. CASE g = h
    <3>1. t = Timer(n.doc) /\ pending_diagnostics'[n.doc] = g
      BY <1>3, <1>5, <2>1, <2>2
    <3>2. /\ TaskFields \subseteq DOMAIN t /\ t.doc = n.doc /\ t.step = "sleep"
          /\ t.aborted = FALSE /\ t.pre = None /\ t.result = None
      BY <1>5, <3>1, NewTimer
    <3> QED BY <1>5, <1>6, <3>1, <3>2 DEF TimerOK
  <2>3. CASE g # h
    <3>1. t = AbortPending(n.doc)[g]
      BY <1>3, <2>1, <2>3
    <3>2. \A e \in Docs \ {n.doc} : pending_diagnostics'[e] = pending_diagnostics[e]
      BY <1>3, <2>1
    <3> QED BY <1>5, <1>6, <3>1, <3>2, AbortCarried
  <2> QED BY <2>2, <2>3
<1> QED BY <1>7, <1>8, <1>9, <1>10 DEF Inv

LEMMA FinishCloseKeeps ==
  ASSUME Inv, FinishClose
  PROVE  Inv'
<1> DEFINE line == Tail(waiting)
<1>1. /\ waiting # <<>> /\ waiting' = line
      /\ UNCHANGED <<disk, editor, opened, lastVersion, edits, snapshots, documents, timers,
                     pending_diagnostics, diagnostics_generation>>
  BY DEF FinishClose, Has, Leave, client, caches, timing
<1>2. DOMAIN published' = Docs
  BY DEF FinishClose, Send, Inv, Domains
<1>3. NumbersOK' /\ Domains'
  BY <1>1, <1>2 DEF Inv, NumbersOK, Domains
<1>4. Continues(line)
  BY <1>1 DEF Continues
<1> HIDE DEF line
<1>5. \A e \in Docs : Carries(e)
  BY <1>1, <1>4, LineCarries
<1>6. QueueOK'
  BY <1>1, <1>4, <1>5, LineQueue
<1>7. DocsOK'
  BY <1>1, <1>5, DocCarried, SnapshotCarried DEF DocsOK
<1>8. TimersOK'
  BY <1>1, <1>5, TimersCarried
<1> QED BY <1>3, <1>6, <1>7, <1>8 DEF Inv

(* What is read at the head of the line for an analysis.                   *)
LEMMA FinishAnalysisKeeps ==
  ASSUME Inv, FinishAnalysis
  PROVE  Inv'
<1>1. PICK r : r = Head(waiting)
  OBVIOUS
<1>2. PICK texts : texts = Seen(r.doc, r.text)
  OBVIOUS
<1> DEFINE line == Tail(waiting)
           d == r.doc
           s == [version |-> r.version, opening |-> r.opening, texts |-> texts]
<1>3. /\ waiting # <<>> /\ r.kind \in {"publish", "request"} /\ waiting' = line
      /\ UNCHANGED <<disk, editor, opened, lastVersion, edits, documents, timers,
                     pending_diagnostics, diagnostics_generation>>
      /\ \/ snapshots' = [snapshots EXCEPT ![d] = s]
         \/ snapshots' = snapshots
  BY <1>1, <1>2 DEF FinishAnalysis, Has, Leave, Store, client, caches, timing
<1>4. DOMAIN published' = Docs
  BY DEF FinishAnalysis, Send, Inv, Domains
<1>5. DOMAIN snapshots = Docs /\ DOMAIN snapshots' = Docs
  BY <1>3 DEF Inv, Domains
<1>6. NumbersOK' /\ Domains'
  BY <1>3, <1>4, <1>5 DEF Inv, NumbersOK, Domains
<1>7. d \in Docs /\ Continues(line) /\ ReadOK(d, r.opening, r.version, r.text)
  BY <1>1, <1>3, HeadOK, OneIn DEF HandlingOK
<1>8. texts[d] = r.text
  BY <1>2, <1>7 DEF Seen
<1>9. s.version = r.version /\ s.opening = r.opening /\ s.texts[d] = r.text
  BY <1>8
<1> HIDE DEF line, s
<1>10. \A e \in Docs : Carries(e)
  BY <1>3, <1>7, LineCarries
<1>11. QueueOK'
  BY <1>3, <1>7, <1>10, LineQueue
<1>12. DocsOK'
  <2>1. ReadOK(d, r.opening, r.version, r.text)'
    BY <1>7, <1>10, ReadCarried
  <2>2. ASSUME snapshots'[d] = s PROVE SnapshotOK(d)'
    BY <1>9, <2>1, <2>2 DEF SnapshotOK
  <2>3. ASSUME NEW e \in Docs PROVE DocOK(e)' /\ SnapshotOK(e)'
    <3>1. snapshots'[e] = snapshots[e] \/ (e = d /\ snapshots'[d] = s)
      BY <1>3, <1>5, <1>7
    <3> QED BY <1>3, <1>10, <2>2, <3>1, DocCarried, SnapshotCarried
  <2> QED BY <2>3 DEF DocsOK
<1>13. TimersOK'
  BY <1>3, <1>10, TimersCarried
<1> QED BY <1>6, <1>11, <1>12, <1>13 DEF Inv

-----------------------------------------------------------------------------
(* Timers.                                                                 *)

(* What Inv says of a timer.                                               *)
LEMMA TimerIsOK ==
  ASSUME Inv, NEW g \in Timers, NEW t, t = timers[g], t # None
  PROVE  /\ t.doc \in Docs /\ TaskFields \subseteq DOMAIN t
         /\ IF t.step = "sleep" THEN documents[t.doc] # None /\ t.pre = None /\ t.result = None
                                ELSE Awake(t)
         /\ ~t.aborted => pending_diagnostics[t.doc] = g
         /\ DocOK(t.doc) /\ SnapshotOK(t.doc)
  BY DEF Inv, TimersOK, TimerOK, DocsOK

(* A step of timer g makes t of it, and reads or stores.                   *)
Becomes(g, t) ==
  /\ timers[g] # None /\ timers' = [timers EXCEPT ![g] = t]
  /\ TaskFields \subseteq DOMAIN t
  /\ t.doc = timers[g].doc /\ t.aborted = timers[g].aborted /\ t.step # "sleep"
  /\ UNCHANGED <<disk, editor, opened, lastVersion, edits, waiting, documents,
                 pending_diagnostics, diagnostics_generation>>

LEMMA BecomesKeeps ==
  ASSUME Inv, NEW g \in Timers, NEW t, Becomes(g, t), Awake(t), DOMAIN published' = Docs,
         \/ snapshots' = snapshots
         \/ /\ snapshots' = [snapshots EXCEPT ![t.doc] = snapshots'[t.doc]]
            /\ SnapshotOK(t.doc)'
  PROVE  Inv'
<1> USE DEF Becomes
<1>1. DOMAIN timers = Timers /\ DOMAIN snapshots = Docs
  BY DEF Inv, Domains
<1>2. NumbersOK' /\ Domains'
  BY <1>1 DEF Inv, NumbersOK, Domains
<1>3. \A d, o, v : Past(d, o, v) => Past(d, o, v)'
  BY DEF Past
<1>4. \A d \in Docs : Carries(d)
  BY <1>3 DEF Carries
<1>5. QueueOK'
  BY <1>4, LineQueue DEF Continues
<1>6. DocsOK'
  <2> SUFFICES ASSUME NEW e \in Docs PROVE DocOK(e)' /\ SnapshotOK(e)'
    BY DEF DocsOK
  <2>1. snapshots'[e] = snapshots[e] \/ (e = t.doc /\ SnapshotOK(t.doc)')
    BY <1>1
  <2> QED BY <1>4, <2>1, DocCarried, SnapshotCarried
<1>7. TimersOK'
  <2> SUFFICES ASSUME NEW h \in Timers, NEW u, u = timers'[h], u # None
               PROVE  TimerOK(h, u)'
    BY DEF TimersOK
  <2>1. CASE h = g
    <3>1. u = t
      BY <1>1, <2>1
    <3>2. /\ t.doc \in Docs
          /\ ~t.aborted => pending_diagnostics[t.doc] = g
      BY TimerIsOK
    <3>3. Awake(t)'
      BY <1>4, <3>2, AwakeCarried
    <3> QED BY <2>1, <3>1, <3>2, <3>3 DEF TimerOK
  <2>2. CASE h # g
    <3>1. u = timers[h]
      BY <1>1, <2>2
    <3>2. TimerOK(h, u)
      BY <3>1 DEF Inv, TimersOK
    <3> QED BY <1>4, <3>2, AwakeCarried DEF TimerOK
  <2> QED BY <2>1, <2>2
<1> QED BY <1>2, <1>5, <1>6, <1>7 DEF Inv

(* Reading the version of a document.                                      *)
LEMMA VersionOf ==
  ASSUME Inv, NEW d \in Docs
  PROVE  /\ documents[d] = None => Version(d) = None
         /\ documents[d] # None =>
              /\ Version(d) = documents[d].version /\ Version(d) \in Nat /\ Version(d) # None
              /\ Past(d, documents[d].opening, Version(d))
  BY LspAssumption DEF Inv, DocsOK, DocOK, Past, Version

(* An earlier opening: what was read then was read before.                 *)
LEMMA PastEarlier ==
  ASSUME Inv, NEW d \in Docs, NEW o, NEW v, Past(d, o, v), NEW p \in Nat, p <= o
  PROVE  Past(d, p, v)
<1>1. /\ opened[d] \in Nat /\ lastVersion[d] \in Nat /\ o \in Nat /\ v \in Nat
      /\ documents[d] # None => documents[d].opening \in Nat /\ documents[d].version \in Nat
      /\ waiting \in Seq(Handlings)
  BY DEF Inv, NumbersOK, DocsOK, DocOK, Past, QueueOK
<1>2. NotAfter(p, v, opened[d], lastVersion[d])
  BY <1>1 DEF Past, NotAfter
<1>3. documents[d] # None => NotAfter(p, v, documents[d].opening, documents[d].version)
  BY <1>1 DEF Past, NotAfter
<1>4. Precedes(waiting, d, p, v)
  <2> SUFFICES ASSUME NEW i \in 1 .. Len(waiting), Inserts(waiting[i], d)
               PROVE  Before(p, v, waiting[i].opening, waiting[i].version)
    BY DEF Precedes
  <2>1. Before(o, v, waiting[i].opening, waiting[i].version)
    BY DEF Past, Precedes
  <2>2. waiting[i].opening \in Nat /\ waiting[i].version \in Nat
    <3>1. waiting[i] \in Handlings /\ waiting[i].kind # "close"
      BY <1>1 DEF Inserts
    <3> QED BY <3>1, OneIn
  <2> QED BY <1>1, <2>1, <2>2 DEF Before
<1> QED BY <1>1, <1>2, <1>3, <1>4 DEF Past

LEMMA WakeKeeps ==
  ASSUME Inv, NEW g \in Timers, Wake(g)
  PROVE  Inv'
<1>1. PICK o : o = timers[g]
  OBVIOUS
<1>2. PICK v : v = Version(o.doc)
  OBVIOUS
<1>3. PICK p : p = Opening(o.doc)
  OBVIOUS
<1> DEFINE t == [o EXCEPT !.step = "lookup", !.version = v, !.opening = p]
<1>4. o # None /\ o.step = "sleep"
  BY <1>1 DEF Wake, At
<1>5. /\ o.doc \in Docs /\ documents[o.doc] # None /\ o.pre = None /\ o.result = None
      /\ TaskFields \subseteq DOMAIN o
  BY <1>1, <1>4, TimerIsOK
<1>6. /\ p = documents[o.doc].opening /\ Past(o.doc, p, v)
  BY <1>2, <1>3, <1>5, VersionOf DEF Opening
<1>7. /\ TaskFields \subseteq DOMAIN t /\ t.doc = o.doc /\ t.aborted = o.aborted
      /\ t.step = "lookup" /\ t.version = v /\ t.opening = p /\ t.pre = None
      /\ t.result = None
  BY <1>5 DEF TaskFields
<1>8. timers' = [timers EXCEPT ![g] = t] /\ UNCHANGED <<others, caches, published>>
  BY <1>1, <1>2, <1>3 DEF Wake, Inv, Domains
<1> HIDE DEF t
<1>9. Awake(t)
  BY <1>6, <1>7 DEF Awake, Read
<1>10. Becomes(g, t) /\ snapshots' = snapshots /\ DOMAIN published' = Docs
  BY <1>1, <1>4, <1>7, <1>8 DEF Becomes, others, client, queue, caches, Inv, Domains
<1> QED BY <1>9, <1>10, BecomesKeeps

LEMMA LookUpKeeps ==
  ASSUME Inv, NEW g \in Timers, LookUp(g)
  PROVE  Inv'
<1>1. PICK o : o = timers[g]
  OBVIOUS
<1>2. o # None /\ o.step = "lookup"
  BY <1>1 DEF LookUp, At
<1>3. /\ o.doc \in Docs /\ Awake(o) /\ o.result = None /\ TaskFields \subseteq DOMAIN o
      /\ DocOK(o.doc) /\ SnapshotOK(o.doc)
  BY <1>1, <1>2, TimerIsOK DEF Awake
<1>4. UNCHANGED <<others, caches, published>>
  BY DEF LookUp
<1>5. CASE CacheHit(o.doc)
  <2>1. PICK s : s = snapshots[o.doc]
    OBVIOUS
  <2>2. PICK doc : doc = documents[o.doc]
    OBVIOUS
  <2>3. PICK p : p = Earlier(o.opening, s.opening)
    OBVIOUS
  <2> DEFINE t == [o EXCEPT !.step = "check", !.opening = p, !.result = s.texts]
  <2>4. s # None /\ doc # None /\ s.version = doc.version
    BY <1>5, <2>1, <2>2 DEF CacheHit, Answers
  <2>5. /\ Past(o.doc, s.opening, s.version)
        /\ IsCurrent(o.doc, s.opening, s.version) => s.texts[o.doc] = doc.text
        /\ Past(o.doc, doc.opening, doc.version)
        /\ Past(o.doc, o.opening, o.version)
        /\ o.pre # None => Past(o.doc, o.opening, o.pre)
    BY <1>3, <2>1, <2>2, <2>4 DEF SnapshotOK, ReadOK, DocOK, Awake
  <2>6. p \in Nat /\ p <= o.opening /\ p <= s.opening /\ p \in {o.opening, s.opening}
    BY <2>3, <2>5 DEF Earlier, Past
  <2>7. p = doc.opening => s.texts[o.doc] = doc.text
    <3>1. /\ NotAfter(o.opening, o.version, doc.opening, doc.version)
          /\ NotAfter(s.opening, s.version, doc.opening, doc.version)
      BY <2>2, <2>4, <2>5 DEF Past
    <3>2. doc.opening \in Nat /\ s.opening \in Nat /\ o.opening \in Nat
      BY <2>5 DEF Past
    <3>3. p = doc.opening => s.opening = doc.opening
      BY <2>6, <3>1, <3>2 DEF NotAfter
    <3> QED BY <2>2, <2>4, <2>5, <3>3 DEF IsCurrent
  <2>8. /\ TaskFields \subseteq DOMAIN t /\ t.doc = o.doc /\ t.aborted = o.aborted
        /\ t.step = "check" /\ t.version = o.version /\ t.opening = p /\ t.pre = o.pre
        /\ t.result = s.texts
    BY <1>3 DEF TaskFields
  <2>9. timers' = [timers EXCEPT ![g] = t]
    BY <1>1, <1>5, <2>1, <2>3 DEF LookUp, Inv, Domains
  <2> HIDE DEF t
  <2>10. Past(o.doc, p, o.version) /\ (o.pre # None => Past(o.doc, p, o.pre))
    BY <1>3, <2>5, <2>6, PastEarlier
  <2>11. Awake(t)
    BY <2>2, <2>7, <2>8, <2>10 DEF Awake, Read, IsCurrent
  <2>12. Becomes(g, t) /\ snapshots' = snapshots /\ DOMAIN published' = Docs
    BY <1>1, <1>2, <1>4, <2>8, <2>9 DEF Becomes, others, client, queue, caches, Inv, Domains
  <2> QED BY <2>11, <2>12, BecomesKeeps
<1>6. CASE ~CacheHit(o.doc)
  <2>1. PICK v : v = Version(o.doc)
    OBVIOUS
  <2> DEFINE t == [o EXCEPT !.step = "read", !.pre = v]
  <2>2. /\ TaskFields \subseteq DOMAIN t /\ t.doc = o.doc /\ t.aborted = o.aborted
        /\ t.step = "read" /\ t.version = o.version /\ t.opening = o.opening /\ t.pre = v
        /\ t.result = None
    BY <1>3 DEF TaskFields
  <2>3. timers' = [timers EXCEPT ![g] = t]
    BY <1>1, <1>6, <2>1 DEF LookUp, Inv, Domains
  <2>4. v # None => Past(o.doc, o.opening, v)
    <3> SUFFICES ASSUME v # None PROVE Past(o.doc, o.opening, v)
      OBVIOUS
    <3>1. documents[o.doc] # None /\ Past(o.doc, documents[o.doc].opening, v)
      BY <1>3, <2>1, VersionOf
    <3>2. /\ NotAfter(o.opening, o.version, documents[o.doc].opening, documents[o.doc].version)
          /\ o.opening \in Nat /\ documents[o.doc].opening \in Nat
      BY <1>3, <3>1 DEF Awake, Past
    <3> QED BY <1>3, <3>1, <3>2, PastEarlier DEF NotAfter
  <2> HIDE DEF t
  <2>5. Awake(t)
    BY <1>3, <2>2, <2>4 DEF Awake, Read
  <2>6. Becomes(g, t) /\ snapshots' = snapshots /\ DOMAIN published' = Docs
    BY <1>1, <1>2, <1>4, <2>2, <2>3 DEF Becomes, others, client, queue, caches, Inv, Domains
  <2> QED BY <2>5, <2>6, BecomesKeeps
<1> QED BY <1>5, <1>6

LEMMA ReadTextKeeps ==
  ASSUME Inv, NEW g \in Timers, ReadText(g)
  PROVE  Inv'
<1>1. PICK o : o = timers[g]
  OBVIOUS
<1>2. PICK doc : doc = documents[o.doc]
  OBVIOUS
<1>3. o # None /\ o.step = "read"
  BY <1>1 DEF ReadText, At
<1>4. o.doc \in Docs /\ Awake(o) /\ o.result = None /\ TaskFields \subseteq DOMAIN o
  BY <1>1, <1>3, TimerIsOK DEF Awake
<1>5. UNCHANGED <<others, caches, published>>
  BY DEF ReadText
<1>6. CASE doc = None
  <2> DEFINE t == [o EXCEPT !.step = "check", !.pre = None]
  <2>1. /\ TaskFields \subseteq DOMAIN t /\ t.doc = o.doc /\ t.aborted = o.aborted
        /\ t.step = "check" /\ t.version = o.version /\ t.opening = o.opening /\ t.pre = None
        /\ t.result = None
    BY <1>4 DEF TaskFields
  <2>2. timers' = [timers EXCEPT ![g] = t]
    BY <1>1, <1>2, <1>6 DEF ReadText, Inv, Domains
  <2> HIDE DEF t
  <2>3. Awake(t)
    BY <1>4, <2>1 DEF Awake, Read
  <2>4. Becomes(g, t) /\ snapshots' = snapshots /\ DOMAIN published' = Docs
    BY <1>1, <1>3, <1>5, <2>1, <2>2 DEF Becomes, others, client, queue, caches, Inv, Domains
  <2> QED BY <2>3, <2>4, BecomesKeeps
<1>7. CASE doc # None
  <2> DEFINE t == [o EXCEPT !.step = "loader", !.text = doc.text]
  <2>1. /\ TaskFields \subseteq DOMAIN t /\ t.doc = o.doc /\ t.aborted = o.aborted
        /\ t.step = "loader" /\ t.version = o.version /\ t.opening = o.opening
        /\ t.pre = o.pre /\ t.result = None /\ t.text = doc.text
    BY <1>4 DEF TaskFields
  <2>2. timers' = [timers EXCEPT ![g] = t]
    BY <1>1, <1>2, <1>7 DEF ReadText, Inv, Domains
  <2> HIDE DEF t
  <2>3. Awake(t)
    BY <1>2, <1>4, <2>1 DEF Awake, Read
  <2>4. Becomes(g, t) /\ snapshots' = snapshots /\ DOMAIN published' = Docs
    BY <1>1, <1>3, <1>5, <2>1, <2>2 DEF Becomes, others, client, queue, caches, Inv, Domains
  <2> QED BY <2>3, <2>4, BecomesKeeps
<1> QED BY <1>6, <1>7

LEMMA AnalyzeKeeps ==
  ASSUME Inv, NEW g \in Timers, Analyze(g)
  PROVE  Inv'
<1>1. PICK o : o = timers[g]
  OBVIOUS
<1>2. PICK texts : texts = Seen(o.doc, o.text)
  OBVIOUS
<1>3. PICK step \in {"check", "recheck"} :
        timers' = [timers EXCEPT ![g].step = step, ![g].text = None, ![g].result = texts]
  BY <1>1, <1>2 DEF Analyze
<1> DEFINE t == [o EXCEPT !.step = step, !.text = None, !.result = texts]
<1>4. o # None /\ o.step = "loader"
  BY <1>1 DEF Analyze, At
<1>5. o.doc \in Docs /\ Awake(o) /\ TaskFields \subseteq DOMAIN o
  BY <1>1, <1>4, TimerIsOK
<1>6. texts[o.doc] = o.text
  BY <1>2, <1>5 DEF Seen
<1>7. /\ TaskFields \subseteq DOMAIN t /\ t.doc = o.doc /\ t.aborted = o.aborted
      /\ t.step = step /\ t.version = o.version /\ t.opening = o.opening /\ t.pre = o.pre
      /\ t.result = texts
  BY <1>5 DEF TaskFields
<1>8. timers' = [timers EXCEPT ![g] = t] /\ UNCHANGED <<others, caches, published>>
  BY <1>1, <1>3 DEF Analyze, Inv, Domains
<1> HIDE DEF t
<1>9. Awake(t)
  BY <1>4, <1>5, <1>6, <1>7 DEF Awake, Read
<1>10. Becomes(g, t) /\ snapshots' = snapshots /\ DOMAIN published' = Docs
  BY <1>1, <1>4, <1>7, <1>8 DEF Becomes, others, client, queue, caches, Inv, Domains
<1> QED BY <1>9, <1>10, BecomesKeeps

LEMMA RecheckKeeps ==
  ASSUME Inv, NEW g \in Timers, Recheck(g)
  PROVE  Inv'
<1>1. PICK o : o = timers[g]
  OBVIOUS
<1>2. o # None /\ o.step = "recheck"
  BY <1>1 DEF Recheck, At
<1>3. o.doc \in Docs /\ Awake(o) /\ TaskFields \subseteq DOMAIN o
  BY <1>1, <1>2, TimerIsOK
<1>4. PICK t : /\ timers' = [timers EXCEPT ![g] = t]
               /\ \/ o.pre # None /\ t = [o EXCEPT !.step = "store"]
                  \/ t = [o EXCEPT !.step = "check", !.pre = None]
  BY <1>1 DEF Recheck, Inv, Domains
<1>5. /\ TaskFields \subseteq DOMAIN t /\ t.doc = o.doc /\ t.aborted = o.aborted
      /\ t.version = o.version /\ t.opening = o.opening /\ t.result = o.result
      /\ \/ o.pre # None /\ t.step = "store" /\ t.pre = o.pre
         \/ t.step = "check" /\ t.pre = None
  BY <1>3, <1>4 DEF TaskFields
<1>6. Awake(t)
  BY <1>2, <1>3, <1>5 DEF Awake, Read
<1>7. UNCHANGED <<others, caches, published>>
  BY DEF Recheck
<1>8. Becomes(g, t) /\ snapshots' = snapshots /\ DOMAIN published' = Docs
  BY <1>1, <1>2, <1>4, <1>5, <1>7 DEF Becomes, others, client, queue, caches, Inv, Domains
<1> QED BY <1>6, <1>8, BecomesKeeps

LEMMA StoreSnapshotKeeps ==
  ASSUME Inv, NEW g \in Timers, StoreSnapshot(g)
  PROVE  Inv'
<1>1. PICK o : o = timers[g]
  OBVIOUS
<1> DEFINE t == [o EXCEPT !.step = "check", !.pre = None]
           s == [version |-> o.pre, opening |-> o.opening, texts |-> o.result]
<1>2. o # None /\ o.step = "store"
  BY <1>1 DEF StoreSnapshot, At
<1>3. o.doc \in Docs /\ Awake(o) /\ TaskFields \subseteq DOMAIN o
  BY <1>1, <1>2, TimerIsOK
<1>4. /\ TaskFields \subseteq DOMAIN t /\ t.doc = o.doc /\ t.aborted = o.aborted
      /\ t.step = "check" /\ t.version = o.version /\ t.opening = o.opening /\ t.pre = None
      /\ t.result = o.result
  BY <1>3 DEF TaskFields
<1>5. timers' = [timers EXCEPT ![g] = t] /\ UNCHANGED <<others, published>>
      /\ snapshots' = [snapshots EXCEPT ![o.doc] = s]
  BY <1>1 DEF StoreSnapshot, Store, Inv, Domains
<1>6. s.version = o.pre /\ s.opening = o.opening /\ s.texts = o.result
  OBVIOUS
<1> HIDE DEF t, s
<1>7. Awake(t)
  BY <1>2, <1>3, <1>4 DEF Awake, Read
<1>8. Becomes(g, t) /\ DOMAIN published' = Docs /\ snapshots'[o.doc] = s
  BY <1>1, <1>2, <1>3, <1>4, <1>5 DEF Becomes, others, client, queue, Inv, Domains
<1>9. ReadOK(o.doc, o.opening, o.pre, o.result[o.doc])
  BY <1>2, <1>3 DEF Awake, Read, ReadOK
<1>10. SnapshotOK(o.doc)'
  <2>1. ReadOK(o.doc, o.opening, o.pre, o.result[o.doc])'
    BY <1>8, <1>9 DEF ReadOK, Past, IsCurrent, Becomes
  <2>2. PICK d, p, v, x : d = o.doc /\ p = o.opening /\ v = o.pre /\ x = o.result[o.doc]
    OBVIOUS
  <2>3. ReadOK(d, p, v, x)'
    BY <2>1, <2>2
  <2>4. snapshots'[d].opening = p /\ snapshots'[d].version = v /\ snapshots'[d].texts[d] = x
    BY <1>6, <1>8, <2>2
  <2> QED BY <2>2, <2>3, <2>4 DEF SnapshotOK
<1> QED BY <1>4, <1>5, <1>7, <1>8, <1>10, BecomesKeeps

LEMMA PublishKeeps ==
  ASSUME Inv, NEW g \in Timers, Check(g) \/ SendDiagnostics(g)
  PROVE  Inv'
<1>1. PICK o : o = timers[g]
  OBVIOUS
<1>2. o # None /\ o.step \in {"check", "send"}
  BY <1>1 DEF Check, SendDiagnostics, At
<1>3. PICK step \in {"send", "untrack"} : timers' = [timers EXCEPT ![g].step = step]
  BY DEF Check, SendDiagnostics
<1> DEFINE t == [o EXCEPT !.step = step]
<1>4. o.doc \in Docs /\ Awake(o) /\ TaskFields \subseteq DOMAIN o
  BY <1>1, <1>2, TimerIsOK
<1>5. /\ TaskFields \subseteq DOMAIN t /\ t.doc = o.doc /\ t.aborted = o.aborted
      /\ t.step = step /\ t.version = o.version /\ t.opening = o.opening /\ t.pre = o.pre
      /\ t.result = o.result
  BY <1>4 DEF TaskFields
<1>6. timers' = [timers EXCEPT ![g] = t] /\ UNCHANGED <<others, caches>>
      /\ DOMAIN published' = Docs
  BY <1>1, <1>3 DEF Check, SendDiagnostics, Send, Inv, Domains
<1> HIDE DEF t
<1>7. Awake(t)
  BY <1>2, <1>4, <1>5 DEF Awake, Read
<1>8. Becomes(g, t) /\ snapshots' = snapshots
  BY <1>1, <1>2, <1>5, <1>6 DEF Becomes, others, client, queue, caches
<1> QED BY <1>6, <1>7, <1>8, BecomesKeeps

LEMMA EndOfTimerKeeps ==
  ASSUME Inv, NEW g \in Timers, Untrack(g) \/ Drop(g)
  PROVE  Inv'
<1>1. timers' = [timers EXCEPT ![g] = None] /\ timers[g] # None
  BY DEF Untrack, Drop, At
<1>2. /\ \A e \in Docs : \/ pending_diagnostics'[e] = pending_diagnostics[e]
                         \/ pending_diagnostics[e] = g
      /\ DOMAIN pending_diagnostics' = Docs
  BY DEF Untrack, Drop, RemoveIfOwn, others, Inv, Domains
<1>3. UNCHANGED <<disk, editor, opened, lastVersion, edits, waiting, documents, snapshots,
                  diagnostics_generation, published>>
  BY DEF Untrack, Drop, others, client, queue, caches
<1>4. NumbersOK' /\ Domains'
  BY <1>1, <1>2, <1>3 DEF Inv, NumbersOK, Domains
<1>5. \A e \in Docs : Carries(e)
  BY <1>3, LineCarries DEF Continues
<1>6. QueueOK' /\ DocsOK'
  BY <1>3, <1>5, LineQueue, DocCarried, SnapshotCarried DEF Continues, DocsOK
<1>7. TimersOK'
  <2> SUFFICES ASSUME NEW h \in Timers, NEW t, t = timers'[h], t # None
               PROVE  TimerOK(h, t)'
    BY DEF TimersOK
  <2>1. h # g /\ t = timers[h]
    BY <1>1 DEF Inv, Domains
  <2>2. TimerOK(h, t) /\ t.doc \in Docs
    BY <2>1 DEF Inv, TimersOK, TimerOK
  <2> QED BY <1>2, <1>3, <1>5, <2>1, <2>2, AwakeCarried DEF TimerOK
<1> QED BY <1>4, <1>6, <1>7 DEF Inv

-----------------------------------------------------------------------------
(* All steps together.                                                     *)

LEMMA InitInv == Init => Inv
<1> SUFFICES ASSUME Init PROVE Inv
  OBVIOUS
<1>1. NumbersOK /\ Domains
  BY DEF Init, NumbersOK, Domains
<1>2. QueueOK
  BY DEF Init, QueueOK, Sorted
<1>3. DocsOK /\ TimersOK
  BY DEF Init, DocsOK, DocOK, SnapshotOK, TimersOK
<1> QED BY <1>1, <1>2, <1>3 DEF Inv

LEMMA StutterKeeps ==
  ASSUME Inv, UNCHANGED vars
  PROVE  Inv'
<1>1. UNCHANGED <<disk, editor, opened, lastVersion, edits, waiting, documents, snapshots,
                  timers, pending_diagnostics, diagnostics_generation, published>>
  BY DEF vars, client, queue, caches, timing
<1>2. NumbersOK' /\ Domains'
  BY <1>1 DEF Inv, NumbersOK, Domains
<1>3. \A e \in Docs : Carries(e)
  BY <1>1, LineCarries DEF Continues
<1> QED BY <1>1, <1>2, <1>3, LineQueue, DocCarried, SnapshotCarried, TimersCarried
        DEF Continues, DocsOK, Inv

LEMMA NextKeeps == Inv /\ [Next]_vars => Inv'
<1> SUFFICES ASSUME Inv, Next PROVE Inv'
  BY StutterKeeps
<1>1. ASSUME NEW d \in Docs, Client(d) PROVE Inv'
  BY <1>1, DidOpenKeeps, DidChangeKeeps, DidCloseKeeps, AsksKeeps DEF Client
<1>2. CASE Handler
  BY <1>2, FinishOpenKeeps, FinishChangeKeeps, FinishCloseKeeps, FinishAnalysisKeeps
     DEF Handler
<1>3. ASSUME NEW g \in Timers, RunTimer(g) \/ Drop(g) PROVE Inv'
  BY <1>3, WakeKeeps, LookUpKeeps, ReadTextKeeps, AnalyzeKeeps, RecheckKeeps,
     StoreSnapshotKeeps, PublishKeeps, EndOfTimerKeeps DEF RunTimer
<1> QED BY <1>1, <1>2, <1>3 DEF Next

LEMMA Invariance == Spec => []Inv
  BY InitInv, NextKeeps, PTL DEF Spec

(* Every timer that can still publish is the one that the next didChange   *)
(* or didClose of its document aborts, however the timers overlap.         *)
THEOREM NoTimerIsLost == Spec => []TimersTracked
<1>1. Inv => TimersTracked
  BY DEF Inv, TimersOK, TimerOK, TimersTracked
<1> QED BY <1>1, Invariance, PTL

(* No snapshot is served for an open document that was made from another   *)
(* text than the document has, unless its analysis began before the        *)
(* document was closed and opened again: for any client that counts the    *)
(* versions of an opening up, whether or not it begins again with 1.       *)
THEOREM NoStaleSnapshot == Spec => []ServesOwnText
<1>1. Inv => ServesOwnText
  BY DEF Inv, DocsOK, SnapshotOK, ReadOK, IsCurrent, CacheHit, Answers, ServesOwnText
<1> QED BY <1>1, Invariance, PTL

-----------------------------------------------------------------------------
(* What the check of the version lets through.                             *)

(* A timer passes the check only by its own step. *)
LEMMA PassesByCheck ==
  ASSUME Inv, Next, NEW g \in Timers, PassesCheck(g)
  PROVE  Check(g)
<1>1. timers[g] # None /\ timers[g].step = "check" /\ timers'[g].step = "send"
  BY DEF PassesCheck, At
<1>2. timers'[g] # timers[g]
  BY <1>1
<1>3. DOMAIN timers = Timers
  BY DEF Inv, Domains
<1>4. TaskFields \subseteq DOMAIN timers[g]
  BY <1>1, TimerIsOK
<1>5. ASSUME NEW d \in Docs PROVE AbortPending(d)[g].step = "check"
  <2>1. Aborted(timers[g]).step = "check"
    BY <1>1, <1>4 DEF Aborted, TaskFields
  <2> QED BY <1>1, <1>3, <2>1 DEF AbortPending
<1>6. ~ \E d \in Docs : Client(d)
  <2>1. \A d \in Docs : Client(d) => timers' = timers \/ timers' = AbortPending(d)
    BY DEF Client, DidOpen, DidChange, DidClose, DidSave, Request, timing
  <2> QED BY <1>1, <1>5, <2>1
<1>7. ~Handler
  <2>1. ~(FinishOpen \/ FinishClose \/ FinishAnalysis)
    BY <1>2 DEF FinishOpen, FinishClose, FinishAnalysis, timing
  <2>2. ~FinishChange
    <3> SUFFICES ASSUME FinishChange PROVE FALSE
      OBVIOUS
    <3>1. PICK n, h : n = Head(waiting) /\ h = diagnostics_generation + 1
      OBVIOUS
    <3>2. n.doc \in Docs
      BY <3>1, HeadOK, OneIn DEF FinishChange, Has
    <3>3. timers' = [AbortPending(n.doc) EXCEPT ![h] = Timer(n.doc)]
      BY <3>1 DEF FinishChange, ScheduleDiagnostics
    <3>4. DOMAIN AbortPending(n.doc) = Timers
      BY AbortDomain
    <3>5. timers'[g] = AbortPending(n.doc)[g] \/ timers'[g] = Timer(n.doc)
      BY <3>3, <3>4
    <3> QED BY <1>1, <1>5, <3>2, <3>5, NewTimer
  <2> QED BY <2>1, <2>2 DEF Handler
<1>8. ASSUME NEW h \in Timers, RunTimer(h) \/ Drop(h) PROVE h = g
  <2>1. \E t : timers' = [timers EXCEPT ![h] = t]
    <3>1. CASE Drop(h) \/ Untrack(h)
      BY <3>1 DEF Drop, Untrack
    <3>2. CASE Wake(h)
      BY <1>3, <3>2 DEF Wake
    <3>3. CASE LookUp(h)
      BY <1>3, <3>3 DEF LookUp
    <3>4. CASE ReadText(h)
      BY <1>3, <3>4 DEF ReadText
    <3>5. CASE Analyze(h)
      BY <1>3, <3>5 DEF Analyze
    <3>6. CASE Recheck(h)
      BY <1>3, <3>6 DEF Recheck
    <3>7. CASE StoreSnapshot(h) \/ Check(h) \/ SendDiagnostics(h)
      BY <1>3, <3>7 DEF StoreSnapshot, Check, SendDiagnostics
    <3> QED BY <1>8, <3>1, <3>2, <3>3, <3>4, <3>5, <3>6, <3>7 DEF RunTimer
  <2> QED BY <1>2, <1>3, <2>1
<1>9. RunTimer(g)
  BY <1>1, <1>6, <1>7, <1>8 DEF Next, Drop
<1> QED BY <1>1, <1>9 DEF RunTimer, Wake, LookUp, ReadText, Analyze, Recheck, StoreSnapshot,
           SendDiagnostics, Untrack, At

LEMMA TimersDiscard ==
  ASSUME Inv, Next, NEW g \in Timers, PassesCheck(g), NEW t, t = timers[g], t.result # None
  PROVE  Fresh(documents[t.doc], t.opening, t.result[t.doc])
<1>1. /\ t # None /\ t.step = "check" /\ timers'[g].step = "send"
  BY DEF PassesCheck, At
<1>2. t.doc \in Docs /\ Awake(t) /\ TaskFields \subseteq DOMAIN t
  BY <1>1, TimerIsOK
<1>3. t.version = Version(t.doc)
  <2>1. timers' = [timers EXCEPT ![g].step =
                     IF t.version = Version(t.doc) THEN "send" ELSE "untrack"]
    BY PassesByCheck DEF Check, Wanted
  <2>2. timers'[g].step = IF t.version = Version(t.doc) THEN "send" ELSE "untrack"
    BY <1>2, <2>1 DEF TaskFields, Inv, Domains
  <2> QED BY <1>1, <2>2
<1>4. documents[t.doc] # None /\ t.version = documents[t.doc].version
  BY <1>2, <1>3, LspAssumption, VersionOf DEF Awake, Past
<1> QED BY <1>2, <1>4 DEF Fresh, Awake, IsCurrent, Read

LEMMA SnapshotIsFresh ==
  ASSUME Inv, NEW d \in Docs, NEW s, s = snapshots[d], s # None, documents[d] # None,
         s.version = documents[d].version
  PROVE  Fresh(documents[d], s.opening, s.texts[d])
  BY DEF Inv, DocsOK, SnapshotOK, ReadOK, IsCurrent, Fresh

(* What a handler sends. *)
LEMMA SentIs ==
  ASSUME Inv, NEW d \in Docs, NEW a, Send(d, a), NEW e \in Docs,
         published'[e] \notin {published[e], None}
  PROVE  e = d /\ a # None /\ published'[e] = [text |-> a.texts[d], opening |-> a.opening]
  BY DEF Send, Inv, Domains

LEMMA HandlersDiscard ==
  ASSUME Inv, Next, NEW e \in Docs, SentByHandler(e)
  PROVE  Fresh(documents'[e], published'[e].opening, published'[e].text)
<1>1. timers' = timers /\ published'[e] \notin {published[e], None}
  BY DEF SentByHandler
<1>2. published' # published
  BY <1>1
<1>3. ASSUME NEW d \in Docs, Client(d)
      PROVE  Fresh(documents'[e], published'[e].opening, published'[e].text)
  <2>1. DidSave(d)
    BY <1>2, <1>3 DEF Client, DidOpen, DidChange, DidClose, Request, BeginAnalysis
  <2>2. PICK doc, s : doc = documents[d] /\ s = snapshots[d]
    OBVIOUS
  <2>3. /\ Send(d, IF doc = None THEN None ELSE s)
        /\ doc = None \/ (s # None /\ s.version = doc.version)
        /\ documents' = documents
    BY <1>2, <2>1, <2>2 DEF DidSave, BeginAnalysis, Answers
  <2>4. /\ e = d /\ doc # None /\ s # None /\ s.version = doc.version
        /\ published'[e] = [text |-> s.texts[d], opening |-> s.opening]
    BY <1>1, <2>3, SentIs
  <2> QED BY <2>2, <2>3, <2>4, SnapshotIsFresh
<1>4. CASE FinishOpen
  <2>1. PICK n, s : n = Head(waiting) /\ s = snapshots[n.doc]
    OBVIOUS
  <2>2. PICK doc : doc = documents'[n.doc]
    OBVIOUS
  <2>3. /\ waiting # <<>> /\ n.kind = "open" /\ Insert(n)
        /\ BeginAnalysis("publish", n.doc, doc, Tail(waiting))
    BY <1>4, <2>1, <2>2 DEF FinishOpen, Has
  <2>4. /\ n.doc \in Docs /\ n.opening \in Nat /\ n.version \in Nat
    BY <2>1, <2>3, HeadOK, OneIn
  <2>5. doc.version = n.version /\ doc.opening = n.opening
    BY <2>2, <2>3, <2>4 DEF Insert, Inv, Domains
  <2>6. /\ doc = None \/ (s # None /\ s.version = doc.version)
        /\ Send(n.doc, IF doc = None THEN None ELSE s)
    BY <1>2, <2>1, <2>3 DEF BeginAnalysis, Answers
  <2>7. /\ e = n.doc /\ doc # None /\ s # None /\ s.version = doc.version
        /\ published'[e].opening = s.opening
    <3>1. PICK a : a = IF doc = None THEN None ELSE s
      OBVIOUS
    <3>2. Send(n.doc, a)
      BY <2>6, <3>1
    <3>3. /\ e = n.doc /\ a # None
          /\ published'[e] = [text |-> a.texts[n.doc], opening |-> a.opening]
      BY <1>1, <2>4, <3>2, SentIs
    <3> QED BY <2>6, <3>1, <3>3
  <2>8. Past(e, s.opening, s.version)
    BY <2>1, <2>7 DEF Inv, DocsOK, SnapshotOK, ReadOK
  <2>9. Before(s.opening, s.version, n.opening, n.version)
    BY <2>1, <2>3, <2>7, <2>8, HeadOK DEF Past, Inserts
  <2>10. s.opening # doc.opening
    BY <2>4, <2>5, <2>7, <2>8, <2>9 DEF Before, Past
  <2> QED BY <2>2, <2>7, <2>10 DEF Fresh
<1>5. CASE FinishAnalysis
  <2>1. PICK r : r = Head(waiting)
    OBVIOUS
  <2>2. PICK a : a = [version |-> r.version, opening |-> r.opening, texts |-> Seen(r.doc, r.text)]
    OBVIOUS
  <2>3. /\ waiting # <<>> /\ r.kind = "publish" /\ Send(r.doc, a) /\ r.version = Version(r.doc)
        /\ documents' = documents
    BY <1>2, <1>5, <2>1, <2>2 DEF FinishAnalysis, Has, Wanted
  <2>4. r.doc \in Docs /\ r.version \in Nat /\ ReadOK(r.doc, r.opening, r.version, r.text)
    BY <2>1, <2>3, HeadOK, OneIn DEF HandlingOK
  <2>5. a.opening = r.opening /\ a.texts[r.doc] = r.text
    BY <2>2, <2>4 DEF Seen
  <2>6. e = r.doc /\ published'[e] = [text |-> r.text, opening |-> r.opening]
    BY <1>1, <2>3, <2>4, <2>5, SentIs
  <2>7. documents[e] # None /\ r.version = documents[e].version
    BY <2>3, <2>4, <2>6, LspAssumption, VersionOf
  <2> QED BY <2>3, <2>4, <2>6, <2>7 DEF Fresh, ReadOK, IsCurrent
<1>6. CASE FinishClose
  <2>1. waiting # <<>> /\ Send(Head(waiting).doc, None)
    BY <1>6 DEF FinishClose, Has
  <2>2. Head(waiting).doc \in Docs
    BY <2>1, HeadOK, OneIn
  <2> QED BY <1>1, <2>1, <2>2, SentIs
<1>7. ~FinishChange
  BY <1>2 DEF FinishChange
<1>8. ~ \E g \in Timers : RunTimer(g) \/ Drop(g)
  <2>1. ASSUME NEW g \in Timers, SendDiagnostics(g) PROVE FALSE
    <3>1. timers[g] # None /\ timers[g].step = "send"
      BY <2>1 DEF SendDiagnostics, At
    <3>2. TaskFields \subseteq DOMAIN timers[g] /\ DOMAIN timers = Timers
      BY <3>1, TimerIsOK DEF Inv, Domains
    <3>3. timers'[g].step = "untrack"
      BY <2>1, <3>2 DEF SendDiagnostics, TaskFields
    <3> QED BY <1>1, <3>1, <3>3
  <2> QED BY <1>2, <2>1 DEF RunTimer, Drop, Wake, LookUp, ReadText, Analyze, Recheck,
             StoreSnapshot, Check, Untrack
<1> QED BY <1>3, <1>4, <1>5, <1>6, <1>7, <1>8 DEF Next, Handler

(* The check of the version lets through only diagnostics of the text that *)
(* the document has, whatever notifications and timers come in between;    *)
(* except for analyses that began before it was closed and opened again.   *)
THEOREM NoStaleDiagnostics == Spec => StaleDiscarded
<1> DEFINE Discards ==
      /\ \A g \in Timers : LET t == timers[g] IN
           PassesCheck(g) /\ t.result # None
             => Fresh(documents[t.doc], t.opening, t.result[t.doc])
      /\ \A d \in Docs : SentByHandler(d)
             => Fresh(documents'[d], published'[d].opening, published'[d].text)
<1>1. Inv /\ [Next]_vars => [Discards]_vars
  BY TimersDiscard, HandlersDiscard
<1>2. StaleDiscarded <=> [][Discards]_vars
  BY DEF StaleDiscarded
<1> HIDE DEF Discards
<1> QED BY <1>1, <1>2, Invariance, PTL DEF Spec

-----------------------------------------------------------------------------
(* The types.  Edits and openings are counted; each change that waits has  *)
(* the number of an edit that has no timer yet.                            *)

(* What an analysis reads at a step is there.                              *)
Ready(t) ==
  /\ t \in Tasks
  /\ t.step = "loader" => t.text \in Texts
  /\ t.step \in {"recheck", "store"} => t.result \in Views

ReadyInv == \A g \in Timers : timers[g] # None => Ready(timers[g])

IsOpen(d) == IF editor[d] = None THEN 0 ELSE 1

CountsInv ==
  \A d \in Docs :
    /\ opened[d] <= closes + IsOpen(d)
    /\ lastVersion[d] <= edits + closes + IsOpen(d)

(* The texts of the changes in this line go up, from a generation to the   *)
(* last edit.                                                              *)
Changes(line, g, last) ==
  \A i \in 1 .. Len(line) :
    line[i].kind = "change" =>
      /\ g < line[i].text /\ line[i].text <= last
      /\ \A j \in 1 .. Len(line) :
           i < j /\ line[j].kind = "change" => line[i].text < line[j].text

ChangesInv ==
  diagnostics_generation <= edits /\ Changes(waiting, diagnostics_generation, edits)

TypesInv == TypeOK /\ ReadyInv /\ CountsInv /\ ChangesInv

(* The parts of TypeOK. *)
ClientTyped ==
  /\ disk \in [Docs -> Texts] /\ editor \in [Docs -> Texts \cup {None}]
  /\ opened \in [Docs -> Openings] /\ lastVersion \in [Docs -> Versions]
  /\ edits \in 0 .. MaxEdits /\ closes \in 0 .. MaxCloses /\ asked \in 0 .. MaxRequests

QueueTyped ==
  waiting \in Seq(Notices) /\ Len(waiting) <= Handlers /\ suspended \in BOOLEAN

Contents == [text : Texts, version : Versions, opening : Openings]

DocsTyped ==
  documents \in [Docs -> Contents \cup {None}] /\ overlays \in [Docs -> Texts \cup {None}]

CachesTyped ==
  /\ snapshots \in [Docs -> Analyses \cup {None}]
  /\ last_valid_snapshot \in [Docs -> Views \cup {None}]

TimingTyped ==
  /\ pending_diagnostics \in [Docs -> Timers \cup {None}]
  /\ diagnostics_generation \in 0 .. MaxEdits
  /\ timers \in [Timers -> Tasks \cup {None}]

PublishedTyped == published \in [Docs -> [text : Texts, opening : Openings] \cup {None}]

LEMMA TypeParts ==
  TypeOK <=> /\ ClientTyped /\ QueueTyped /\ DocsTyped /\ CachesTyped /\ TimingTyped
             /\ PublishedTyped
  BY DEF TypeOK, ClientTyped, QueueTyped, DocsTyped, CachesTyped, TimingTyped,
         PublishedTyped, Contents

LEMMA TypePartsNext ==
  TypeOK' <=> /\ ClientTyped' /\ QueueTyped' /\ DocsTyped' /\ CachesTyped' /\ TimingTyped'
              /\ PublishedTyped'
  BY DEF TypeOK, ClientTyped, QueueTyped, DocsTyped, CachesTyped, TimingTyped,
         PublishedTyped, Contents

-----------------------------------------------------------------------------
(* The line.                                                               *)

LEMMA NoticeIs ==
  ASSUME NEW n \in Notices
  PROVE  /\ n.doc \in Docs /\ n.kind \in {"open", "change", "publish", "request", "close"}
         /\ n.kind # "close" => n.opening \in Openings /\ n.version \in Versions /\ n.text \in Texts
  BY DEF Notices

LEMMA IsNotice ==
  ASSUME NEW kind \in {"open", "change", "publish", "request"}, NEW d \in Docs,
         NEW o \in Openings, NEW v \in Versions, NEW x \in Texts
  PROVE  LET n == Handling(kind, d, o, v, x) IN
         n \in Notices /\ n.kind = kind /\ n.text = x
  BY DEF Handling, Notices

(* What is left when the head goes. *)
LEMMA TailTyped ==
  ASSUME TypesInv, waiting # <<>>
  PROVE  LET n == Head(waiting)
             line == Tail(waiting)
         IN
         /\ n \in Notices /\ line \in Seq(Notices) /\ Len(line) \in Nat /\ Len(line) < Handlers
         /\ Changes(line, diagnostics_generation, edits)
         /\ n.kind = "change" =>
              /\ diagnostics_generation + 1 <= edits
              /\ Changes(line, diagnostics_generation + 1, edits)
<1> DEFINE line == Tail(waiting)
           g == diagnostics_generation
<1>1. /\ waiting \in Seq(Notices) /\ Len(waiting) <= Handlers /\ Handlers \in Nat
      /\ Changes(waiting, g, edits) /\ g \in Nat /\ edits \in Nat
  BY BoundsAssumption, TypeParts DEF TypesInv, ChangesInv, QueueTyped, ClientTyped, TimingTyped
<1>2. /\ Len(waiting) \in Nat /\ Len(line) = Len(waiting) - 1 /\ 1 \in 1 .. Len(waiting)
      /\ Head(waiting) = waiting[1] /\ waiting[1] \in Notices /\ line \in Seq(Notices)
      /\ \A i \in 1 .. Len(line) : line[i] = waiting[i + 1] /\ i + 1 \in 1 .. Len(waiting)
  BY <1>1
<1> HIDE DEF line, g
<1>3. Changes(line, g, edits)
  <2> SUFFICES ASSUME NEW i \in 1 .. Len(line), line[i].kind = "change"
               PROVE  /\ g < line[i].text /\ line[i].text <= edits
                      /\ \A j \in 1 .. Len(line) :
                           i < j /\ line[j].kind = "change" => line[i].text < line[j].text
    BY DEF Changes
  <2>1. /\ g < line[i].text /\ line[i].text <= edits
    BY <1>1, <1>2 DEF Changes
  <2>2. ASSUME NEW j \in 1 .. Len(line), i < j, line[j].kind = "change"
        PROVE  line[i].text < line[j].text
    <3>1. i + 1 < j + 1
      BY <2>2, <1>2
    <3> QED BY <1>1, <1>2, <2>2, <3>1 DEF Changes
  <2> QED BY <2>1, <2>2
<1>4. ASSUME waiting[1].kind = "change"
      PROVE  g + 1 <= edits /\ Changes(line, g + 1, edits)
  <2>1. waiting[1].text \in Nat
    BY <1>2, <1>4, NoticeIs DEF Texts
  <2>2. g < waiting[1].text /\ waiting[1].text <= edits
    BY <1>1, <1>2, <1>4 DEF Changes
  <2>3. ASSUME NEW i \in 1 .. Len(line), line[i].kind = "change" PROVE g + 1 < line[i].text
    <3>1. 1 < i + 1 /\ line[i] = waiting[i + 1] /\ i + 1 \in 1 .. Len(waiting)
      BY <1>2
    <3>2. waiting[1].text < line[i].text
      BY <1>1, <1>2, <1>4, <2>3, <3>1 DEF Changes
    <3>3. line[i].text \in Nat
      BY <1>1, <2>3, <3>1, NoticeIs DEF Texts
    <3> QED BY <1>1, <2>1, <2>2, <3>2, <3>3
  <2> QED BY <1>1, <1>3, <2>1, <2>2, <2>3 DEF Changes
<1> QED BY <1>1, <1>2, <1>3, <1>4 DEF line, g

LEMMA LineTyped ==
  ASSUME TypesInv, Yields
  PROVE  /\ waiting \in Seq(Notices) /\ Len(waiting) \in Nat /\ Len(waiting) < Handlers
         /\ Changes(waiting, diagnostics_generation, edits)
  BY TypeParts DEF TypesInv, ChangesInv, QueueTyped, Yields

(* A handler that joins this line.                                         *)
LEMMA MoreTyped ==
  ASSUME NEW line \in Seq(Notices), Len(line) \in Nat, Len(line) < Handlers,
         NEW n \in Notices, NEW g \in Nat, NEW last \in Nat, Changes(line, g, last)
  PROVE  LET more == Append(line, n) IN
         /\ more \in Seq(Notices) /\ Len(more) <= Handlers
         /\ n.kind # "change" => Changes(more, g, last)
         /\ n.kind = "change" /\ n.text = last + 1 /\ g <= last => Changes(more, g, last + 1)
<1> DEFINE more == Append(line, n)
<1>1. /\ more \in Seq(Notices) /\ Len(more) = Len(line) + 1 /\ more[Len(more)] = n
      /\ \A i \in 1 .. Len(more) : i # Len(more) => i \in 1 .. Len(line) /\ more[i] = line[i]
      /\ \A i \in 1 .. Len(line) : line[i] \in Notices
  OBVIOUS
<1> HIDE DEF more
<1>2. Len(more) <= Handlers
  BY <1>1, BoundsAssumption
<1>3. ASSUME n.kind # "change" PROVE Changes(more, g, last)
  BY <1>1, <1>3 DEF Changes
<1>4. ASSUME n.kind = "change", n.text = last + 1, g <= last PROVE Changes(more, g, last + 1)
  <2> SUFFICES ASSUME NEW i \in 1 .. Len(more), more[i].kind = "change"
               PROVE  /\ g < more[i].text /\ more[i].text <= last + 1
                      /\ \A j \in 1 .. Len(more) :
                           i < j /\ more[j].kind = "change" => more[i].text < more[j].text
    BY DEF Changes
  <2>1. CASE i = Len(more)
    BY <1>1, <1>4, <2>1
  <2>2. CASE i # Len(more)
    <3>1. /\ i \in 1 .. Len(line) /\ more[i] = line[i] /\ more[i].text \in Nat
      BY <1>1, <2>2, NoticeIs DEF Texts
    <3>2. g < more[i].text /\ more[i].text <= last
      BY <3>1 DEF Changes
    <3>3. ASSUME NEW j \in 1 .. Len(more), i < j, more[j].kind = "change"
          PROVE  more[i].text < more[j].text
      <4>1. CASE j = Len(more)
        BY <1>1, <1>4, <3>1, <3>2, <4>1
      <4>2. CASE j # Len(more)
        BY <1>1, <3>1, <3>3, <4>2 DEF Changes
      <4> QED BY <4>1, <4>2
    <3> QED BY <3>1, <3>2, <3>3
  <2> QED BY <2>1, <2>2
<1> QED BY <1>1, <1>2, <1>3, <1>4 DEF more

-----------------------------------------------------------------------------
(* Readings, messages and stores.                                          *)

LEMMA ReadsTyped ==
  ASSUME TypesInv, NEW d \in Docs
  PROVE  /\ Version(d) \in Versions \cup {None} /\ Opening(d) \in Openings \cup {None}
         /\ documents[d] \in Contents \cup {None} /\ snapshots[d] \in Analyses \cup {None}
         /\ \A t \in Texts : Seen(d, t) \in Views
<1>1. /\ disk \in [Docs -> Texts] /\ overlays \in [Docs -> Texts \cup {None}]
      /\ documents \in [Docs -> Contents \cup {None}]
      /\ snapshots \in [Docs -> Analyses \cup {None}]
  BY TypeParts DEF TypesInv, ClientTyped, DocsTyped, CachesTyped
<1>2. documents[d] \in Contents \cup {None} /\ snapshots[d] \in Analyses \cup {None}
  BY <1>1
<1>3. Version(d) \in Versions \cup {None} /\ Opening(d) \in Openings \cup {None}
  BY <1>2 DEF Version, Opening, Contents
<1>4. \A e \in Docs : View(e) \in Texts
  BY <1>1 DEF View
<1>5. \A t \in Texts : Seen(d, t) \in Views
  BY <1>4 DEF Seen, Views
<1> QED BY <1>2, <1>3, <1>5

LEMMA SendTyped ==
  ASSUME TypesInv, NEW d \in Docs, NEW a, Send(d, a),
         a # None => a.texts \in Views /\ a.opening \in Openings
  PROVE  PublishedTyped'
<1>1. published \in [Docs -> [text : Texts, opening : Openings] \cup {None}]
  BY TypeParts DEF TypesInv, PublishedTyped
<1>2. a # None => a.texts[d] \in Texts
  BY DEF Views
<1> QED BY <1>1, <1>2 DEF Send, PublishedTyped

LEMMA StoreTyped ==
  ASSUME TypesInv, NEW d \in Docs, NEW a \in Analyses, Store(d, a)
  PROVE  CachesTyped'
<1>1. CachesTyped /\ a.texts \in Views
  BY TypeParts DEF TypesInv, Analyses
<1> QED BY <1>1 DEF Store, CachesTyped

(* An analysis of a handler, up to the lock of the loader.                 *)
LEMMA BeginTyped ==
  ASSUME TypesInv, NEW kind \in {"publish", "request"}, NEW d \in Docs,
         NEW doc \in Contents \cup {None}, NEW line, BeginAnalysis(kind, d, doc, line)
  PROVE  /\ PublishedTyped' /\ suspended' \in BOOLEAN
         /\ \/ waiting' = line
            \/ \E n \in Notices : n.kind # "change" /\ waiting' = Append(line, n)
<1>1. CASE doc = None \/ Answers(d, doc)
  <2>1. waiting' = line /\ suspended' \in BOOLEAN
    BY <1>1 DEF BeginAnalysis, Leave
  <2>2. PublishedTyped'
    <3>1. CASE UNCHANGED published
      BY <3>1, TypeParts DEF TypesInv, PublishedTyped
    <3>2. CASE ~UNCHANGED published
      <4>1. PICK a : a = IF doc = None THEN None ELSE snapshots[d]
        OBVIOUS
      <4>2. Send(d, a)
        BY <1>1, <3>2, <4>1 DEF BeginAnalysis
      <4>3. a # None => a.texts \in Views /\ a.opening \in Openings
        BY <4>1, ReadsTyped DEF Analyses
      <4> QED BY <4>2, <4>3, SendTyped
    <3> QED BY <3>1, <3>2
  <2> QED BY <2>1, <2>2
<1>2. CASE ~(doc = None \/ Answers(d, doc))
  <2>1. /\ waiting' = Append(line, Handling(kind, d, doc.opening, doc.version, doc.text))
        /\ suspended' \in BOOLEAN /\ UNCHANGED published
    BY <1>2 DEF BeginAnalysis, Enqueue
  <2>2. PublishedTyped'
    BY <2>1, TypeParts DEF TypesInv, PublishedTyped
  <2>3. doc.opening \in Openings /\ doc.version \in Versions /\ doc.text \in Texts
    BY <1>2 DEF Contents
  <2> QED BY <2>1, <2>2, <2>3, IsNotice
<1> QED BY <1>1, <1>2

-----------------------------------------------------------------------------
(* The steps of timers.                                                    *)

LEMMA TimerTypes ==
  ASSUME TypesInv, NEW g \in Timers, NEW t, timers' = [timers EXCEPT ![g] = t],
         t = None \/ Ready(t), CachesTyped', PublishedTyped',
         pending_diagnostics' \in [Docs -> Timers \cup {None}],
         UNCHANGED <<client, queue, documents, overlays, diagnostics_generation>>
  PROVE  TypesInv'
<1>1. ClientTyped /\ QueueTyped /\ DocsTyped /\ TimingTyped /\ ReadyInv
  BY TypeParts DEF TypesInv
<1>2. UNCHANGED <<disk, editor, opened, lastVersion, edits, closes, asked, waiting, suspended>>
  BY DEF client, queue
<1>3. ClientTyped' /\ QueueTyped' /\ DocsTyped'
  BY <1>1, <1>2 DEF ClientTyped, QueueTyped, DocsTyped
<1>4. TimingTyped'
  <2>1. t \in Tasks \cup {None}
    BY DEF Ready
  <2> QED BY <1>1, <2>1 DEF TimingTyped
<1>5. ReadyInv'
  BY <1>1 DEF ReadyInv, TimingTyped
<1>6. CountsInv' /\ ChangesInv'
  BY <1>2 DEF TypesInv, CountsInv, ChangesInv, IsOpen
<1> QED BY <1>3, <1>4, <1>5, <1>6, TypePartsNext DEF TypesInv

LEMMA TimerKeepsTypes ==
  ASSUME TypesInv, Inv, NEW g \in Timers, RunTimer(g) \/ Drop(g)
  PROVE  TypesInv'
<1>1. PICK o : o = timers[g]
  OBVIOUS
<1>2. o # None
  BY <1>1 DEF RunTimer, Drop, At, Wake, LookUp, ReadText, Analyze, Recheck, StoreSnapshot,
              Check, SendDiagnostics, Untrack
<1>3. Ready(o) /\ o \in Tasks /\ o.doc \in Docs
  BY <1>1, <1>2 DEF TypesInv, ReadyInv, Ready, Tasks
<1>4. /\ CachesTyped /\ PublishedTyped /\ TimingTyped /\ DOMAIN timers = Timers
      /\ pending_diagnostics \in [Docs -> Timers \cup {None}]
  BY TypeParts DEF TypesInv, TimingTyped
<1>5. /\ UNCHANGED caches => CachesTyped'
      /\ UNCHANGED published => PublishedTyped'
  BY <1>4 DEF caches, CachesTyped, PublishedTyped
<1>6. /\ Version(o.doc) \in Versions \cup {None} /\ Opening(o.doc) \in Openings \cup {None}
      /\ documents[o.doc] \in Contents \cup {None} /\ snapshots[o.doc] \in Analyses \cup {None}
      /\ \A x \in Texts : Seen(o.doc, x) \in Views
  BY <1>3, ReadsTyped
<1>7. o.step # "sleep" => Awake(o)
  BY <1>1, <1>2, TimerIsOK
<1>8. CASE Wake(g)
  <2>1. PICK v, p : v = Version(o.doc) /\ p = Opening(o.doc)
    OBVIOUS
  <2> DEFINE t == [o EXCEPT !.step = "lookup", !.version = v, !.opening = p]
  <2>2. timers' = [timers EXCEPT ![g] = t]
    BY <1>1, <1>4, <1>8, <2>1 DEF Wake
  <2>3. Ready(t)
    BY <1>3, <1>6, <2>1 DEF Ready, Tasks
  <2> HIDE DEF t
  <2> QED BY <1>4, <1>5, <1>8, <2>2, <2>3, TimerTypes DEF Wake, others
<1>9. CASE LookUp(g)
  <2>1. CASE CacheHit(o.doc)
    <3>1. PICK s, p : s = snapshots[o.doc] /\ p = Earlier(o.opening, s.opening)
      OBVIOUS
    <3> DEFINE t == [o EXCEPT !.step = "check", !.opening = p, !.result = s.texts]
    <3>2. s \in Analyses /\ s.opening \in Openings /\ s.texts \in Views
      BY <1>6, <2>1, <3>1 DEF CacheHit, Answers, Analyses
    <3>3. p \in Openings \cup {None}
      BY <1>3, <3>1, <3>2 DEF Earlier, Tasks
    <3>4. timers' = [timers EXCEPT ![g] = t]
      BY <1>1, <1>4, <1>9, <2>1, <3>1 DEF LookUp
    <3>5. Ready(t)
      BY <1>3, <3>2, <3>3 DEF Ready, Tasks
    <3> HIDE DEF t
    <3> QED BY <1>4, <1>5, <1>9, <3>4, <3>5, TimerTypes DEF LookUp, others
  <2>2. CASE ~CacheHit(o.doc)
    <3>1. PICK v : v = Version(o.doc)
      OBVIOUS
    <3> DEFINE t == [o EXCEPT !.step = "read", !.pre = v]
    <3>2. timers' = [timers EXCEPT ![g] = t]
      BY <1>1, <1>4, <1>9, <2>2, <3>1 DEF LookUp
    <3>3. Ready(t)
      BY <1>3, <1>6, <3>1 DEF Ready, Tasks
    <3> HIDE DEF t
    <3> QED BY <1>4, <1>5, <1>9, <3>2, <3>3, TimerTypes DEF LookUp, others
  <2> QED BY <2>1, <2>2
<1>10. CASE ReadText(g)
  <2>1. PICK doc : doc = documents[o.doc]
    OBVIOUS
  <2>2. CASE doc = None
    <3> DEFINE t == [o EXCEPT !.step = "check", !.pre = None]
    <3>1. timers' = [timers EXCEPT ![g] = t]
      BY <1>1, <1>4, <1>10, <2>1, <2>2 DEF ReadText
    <3>2. Ready(t)
      BY <1>3 DEF Ready, Tasks
    <3> HIDE DEF t
    <3> QED BY <1>4, <1>5, <1>10, <3>1, <3>2, TimerTypes DEF ReadText, others
  <2>3. CASE doc # None
    <3> DEFINE t == [o EXCEPT !.step = "loader", !.text = doc.text]
    <3>1. timers' = [timers EXCEPT ![g] = t]
      BY <1>1, <1>4, <1>10, <2>1, <2>3 DEF ReadText
    <3>2. doc.text \in Texts
      BY <1>6, <2>1, <2>3 DEF Contents
    <3>3. Ready(t)
      BY <1>3, <3>2 DEF Ready, Tasks
    <3> HIDE DEF t
    <3> QED BY <1>4, <1>5, <1>10, <3>1, <3>3, TimerTypes DEF ReadText, others
  <2> QED BY <2>2, <2>3
<1>11. CASE Analyze(g)
  <2>1. PICK texts : texts = Seen(o.doc, o.text)
    OBVIOUS
  <2>2. PICK step \in {"check", "recheck"} :
          timers' = [timers EXCEPT ![g].step = step, ![g].text = None, ![g].result = texts]
    BY <1>1, <1>11, <2>1 DEF Analyze
  <2> DEFINE t == [o EXCEPT !.step = step, !.text = None, !.result = texts]
  <2>3. timers' = [timers EXCEPT ![g] = t]
    BY <1>1, <1>4, <2>2
  <2>4. texts \in Views
    BY <1>1, <1>3, <1>6, <1>11, <2>1 DEF Analyze, At, Ready
  <2>5. Ready(t)
    BY <1>3, <2>4 DEF Ready, Tasks
  <2> HIDE DEF t
  <2> QED BY <1>4, <1>5, <1>11, <2>3, <2>5, TimerTypes DEF Analyze, others
<1>12. CASE Recheck(g)
  <2>1. PICK t : /\ timers' = [timers EXCEPT ![g] = t]
                 /\ \/ t = [o EXCEPT !.step = "store"]
                    \/ t = [o EXCEPT !.step = "check", !.pre = None]
    BY <1>1, <1>4, <1>12 DEF Recheck
  <2>2. o.step = "recheck"
    BY <1>1, <1>12 DEF Recheck, At
  <2>3. Ready(t)
    BY <1>3, <2>1, <2>2 DEF Ready, Tasks
  <2> QED BY <1>4, <1>5, <1>12, <2>1, <2>3, TimerTypes DEF Recheck, others
<1>13. CASE StoreSnapshot(g)
  <2> DEFINE t == [o EXCEPT !.step = "check", !.pre = None]
             s == [version |-> o.pre, opening |-> o.opening, texts |-> o.result]
  <2>1. timers' = [timers EXCEPT ![g] = t] /\ Store(o.doc, s) /\ o.step = "store"
    BY <1>1, <1>4, <1>13 DEF StoreSnapshot, At
  <2>2. o.pre \in Versions /\ o.opening \in Openings /\ o.result \in Views
    <3>1. o.pre # None /\ o.opening \in Nat
      BY <1>7, <2>1 DEF Awake, Past
    <3> QED BY <1>3, <2>1, <3>1, LspAssumption DEF Ready, Tasks
  <2>3. s \in Analyses
    BY <2>2 DEF Analyses
  <2>4. Ready(t)
    BY <1>3 DEF Ready, Tasks
  <2> HIDE DEF t, s
  <2>5. CachesTyped'
    BY <1>3, <2>1, <2>3, StoreTyped
  <2> QED BY <1>4, <1>5, <1>13, <2>1, <2>4, <2>5, TimerTypes DEF StoreSnapshot, others
<1>14. CASE Check(g)
  <2>1. PICK step \in {"send", "untrack"} : timers' = [timers EXCEPT ![g].step = step]
    BY <1>14 DEF Check
  <2> DEFINE t == [o EXCEPT !.step = step]
  <2>2. timers' = [timers EXCEPT ![g] = t]
    BY <1>1, <1>4, <2>1
  <2>3. Ready(t)
    BY <1>3 DEF Ready, Tasks
  <2> HIDE DEF t
  <2> QED BY <1>4, <1>5, <1>14, <2>2, <2>3, TimerTypes DEF Check, others
<1>15. CASE SendDiagnostics(g)
  <2> DEFINE t == [o EXCEPT !.step = "untrack"]
             a == IF o.result = None THEN None
                  ELSE [opening |-> o.opening, texts |-> o.result]
  <2>1. timers' = [timers EXCEPT ![g] = t] /\ Send(o.doc, a) /\ o.step = "send"
    BY <1>1, <1>4, <1>15 DEF SendDiagnostics, At
  <2>2. a # None => a.texts \in Views /\ a.opening \in Openings
    <3>1. o.opening \in Nat
      BY <1>7, <2>1 DEF Awake, Past
    <3>2. o.opening \in Openings /\ o.result \in Views \cup {None}
      BY <1>3, <3>1, LspAssumption DEF Tasks
    <3> QED BY <3>2
  <2>3. Ready(t)
    BY <1>3 DEF Ready, Tasks
  <2> HIDE DEF t, a
  <2>4. PublishedTyped'
    BY <1>3, <2>1, <2>2, SendTyped
  <2> QED BY <1>4, <1>5, <1>15, <2>1, <2>3, <2>4, TimerTypes DEF SendDiagnostics, others
<1>16. CASE Untrack(g)
  <2>1. pending_diagnostics' \in [Docs -> Timers \cup {None}]
    BY <1>4, <1>16 DEF Untrack, RemoveIfOwn
  <2> QED BY <1>4, <1>5, <1>16, <2>1, TimerTypes DEF Untrack
<1>17. CASE Drop(g)
  BY <1>4, <1>5, <1>17, TimerTypes DEF Drop, others
<1> QED BY <1>8, <1>9, <1>10, <1>11, <1>12, <1>13, <1>14, <1>15, <1>16, <1>17 DEF RunTimer

-----------------------------------------------------------------------------
(* The steps of handlers.                                                  *)

LEMMA NumbersTyped ==
  ASSUME TypesInv
  PROVE  /\ edits \in Nat /\ edits <= MaxEdits /\ closes \in Nat /\ closes <= MaxCloses
         /\ diagnostics_generation \in Nat /\ diagnostics_generation <= edits
         /\ MaxEdits \in Nat /\ MaxCloses \in Nat
         /\ \A d \in Docs :
              /\ opened[d] \in Nat /\ lastVersion[d] \in Nat /\ IsOpen(d) \in 0 .. 1
              /\ opened[d] <= closes + IsOpen(d)
              /\ lastVersion[d] <= edits + closes + IsOpen(d)
              /\ editor[d] = None => IsOpen(d) = 0
  BY BoundsAssumption, TypeParts
     DEF TypesInv, ClientTyped, TimingTyped, Openings, Versions, CountsInv, ChangesInv, IsOpen

LEMMA NotNone ==
  ASSUME NEW x \in Nat
  PROVE  x # None
  BY LspAssumption

LEMMA DidOpenTypes ==
  ASSUME TypesInv, NEW d \in Docs, DidOpen(d)
  PROVE  TypesInv'
<1>1. /\ ClientTyped /\ QueueTyped /\ DocsTyped /\ CachesTyped /\ TimingTyped
      /\ PublishedTyped /\ ReadyInv /\ CountsInv /\ ChangesInv
  BY TypeParts DEF TypesInv
<1>2. PICK o : o = opened[d] + 1
  OBVIOUS
<1>3. PICK v \in {1, lastVersion[d] + 1} :
        /\ lastVersion' = [lastVersion EXCEPT ![d] = v]
        /\ waiting' = Append(waiting, Handling("open", d, o, v, disk[d]))
        /\ suspended' \in BOOLEAN
  BY <1>2 DEF DidOpen, Enqueue
<1>4. /\ editor[d] = None /\ editor' = [editor EXCEPT ![d] = disk[d]]
      /\ opened' = [opened EXCEPT ![d] = o] /\ snapshots' = [snapshots EXCEPT ![d] = None]
      /\ UNCHANGED <<disk, edits, closes, asked, documents, overlays, last_valid_snapshot,
                     pending_diagnostics, diagnostics_generation, timers, published>>
  BY <1>2 DEF DidOpen, timing
<1>5. /\ o \in Nat /\ o <= closes + 1 /\ v \in Nat /\ v <= edits + closes + 1
      /\ o \in Openings /\ v \in Versions
  BY <1>2, <1>4, NumbersTyped DEF Openings, Versions
<1>6. disk[d] \in Texts /\ disk[d] # None
  BY <1>1, NotNone DEF ClientTyped, Texts
<1>7. ClientTyped'
  BY <1>1, <1>3, <1>4, <1>5, <1>6 DEF ClientTyped
<1>8. PICK n : n \in Notices /\ n.kind = "open" /\ waiting' = Append(waiting, n)
  BY <1>3, <1>5, <1>6, IsNotice
<1>9. QueueTyped' /\ ChangesInv'
  <2>1. /\ waiting \in Seq(Notices) /\ Len(waiting) \in Nat /\ Len(waiting) < Handlers
        /\ Changes(waiting, diagnostics_generation, edits)
    BY LineTyped DEF DidOpen
  <2> QED BY <1>1, <1>3, <1>4, <1>8, <2>1, MoreTyped, NumbersTyped DEF QueueTyped, ChangesInv
<1>10. CachesTyped' /\ DocsTyped' /\ TimingTyped' /\ PublishedTyped' /\ ReadyInv'
  BY <1>1, <1>4 DEF CachesTyped, DocsTyped, TimingTyped, PublishedTyped, ReadyInv
<1>11. CountsInv'
  <2> SUFFICES ASSUME NEW e \in Docs
               PROVE  /\ opened'[e] <= closes + IsOpen(e)'
                      /\ lastVersion'[e] <= edits + closes + IsOpen(e)'
    BY <1>4 DEF CountsInv
  <2>1. CASE e = d
    <3>1. IsOpen(e)' = 1 /\ opened'[e] = o /\ lastVersion'[e] = v
      BY <1>1, <1>3, <1>4, <1>6, <2>1 DEF IsOpen, ClientTyped
    <3> QED BY <1>5, <3>1
  <2>2. CASE e # d
    <3>1. IsOpen(e)' = IsOpen(e) /\ opened'[e] = opened[e] /\ lastVersion'[e] = lastVersion[e]
      BY <1>1, <1>3, <1>4, <2>2 DEF IsOpen, ClientTyped
    <3> QED BY <1>1, <3>1 DEF CountsInv
  <2> QED BY <2>1, <2>2
<1> QED BY <1>7, <1>9, <1>10, <1>11, TypePartsNext DEF TypesInv

LEMMA DidChangeTypes ==
  ASSUME TypesInv, NEW d \in Docs, DidChange(d)
  PROVE  TypesInv'
<1>1. /\ ClientTyped /\ QueueTyped /\ DocsTyped /\ CachesTyped /\ TimingTyped
      /\ PublishedTyped /\ ReadyInv /\ CountsInv /\ ChangesInv
  BY TypeParts DEF TypesInv
<1>2. PICK x, v : x = edits + 1 /\ v = lastVersion[d] + 1
  OBVIOUS
<1>3. /\ editor[d] # None /\ edits < MaxEdits /\ edits' = x
      /\ editor' = [editor EXCEPT ![d] = x] /\ lastVersion' = [lastVersion EXCEPT ![d] = v]
      /\ snapshots' = [e \in Docs |-> None] /\ suspended' \in BOOLEAN
      /\ waiting' = Append(waiting, Handling("change", d, opened[d], v, x))
      /\ UNCHANGED <<disk, opened, closes, asked, documents, overlays, last_valid_snapshot,
                     pending_diagnostics, diagnostics_generation, timers, published>>
  <2>1. /\ edits' = x /\ lastVersion' = [lastVersion EXCEPT ![d] = v]
    BY <1>2 DEF DidChange
  <2>2. lastVersion'[d] = v
    BY <1>1, <2>1 DEF ClientTyped
  <2> QED BY <2>1, <2>2 DEF DidChange, Enqueue, timing
<1>4. /\ x \in Nat /\ x <= MaxEdits /\ x \in Texts /\ x # None
      /\ v \in Nat /\ v <= x + closes + 1 /\ v \in Versions /\ opened[d] \in Openings
  <2>1. x \in Nat /\ x <= MaxEdits /\ opened[d] \in Openings
    BY <1>1, <1>2, <1>3, NumbersTyped DEF ClientTyped
  <2>2. v \in Nat /\ v <= x + closes + 1
    BY <1>2, NumbersTyped
  <2>3. x \in Texts /\ x # None /\ v \in Versions
    BY <2>1, <2>2, NumbersTyped, NotNone DEF Texts, Versions
  <2> QED BY <2>1, <2>2, <2>3
<1>5. ClientTyped'
  BY <1>1, <1>3, <1>4, NumbersTyped DEF ClientTyped
<1>6. PICK n : /\ n \in Notices /\ n.kind = "change" /\ n.text = x
               /\ waiting' = Append(waiting, n)
  BY <1>3, <1>4, IsNotice
<1>7. QueueTyped' /\ ChangesInv'
  <2>1. /\ waiting \in Seq(Notices) /\ Len(waiting) \in Nat /\ Len(waiting) < Handlers
        /\ Changes(waiting, diagnostics_generation, edits)
    BY LineTyped DEF DidChange
  <2>2. /\ waiting' \in Seq(Notices) /\ Len(waiting') <= Handlers
        /\ Changes(waiting', diagnostics_generation, x)
    BY <1>2, <1>6, <2>1, MoreTyped, NumbersTyped
  <2>3. diagnostics_generation <= x
    BY <1>2, NumbersTyped
  <2> QED BY <1>3, <2>2, <2>3 DEF QueueTyped, ChangesInv
<1>8. CachesTyped' /\ DocsTyped' /\ TimingTyped' /\ PublishedTyped' /\ ReadyInv'
  BY <1>1, <1>3 DEF CachesTyped, DocsTyped, TimingTyped, PublishedTyped, ReadyInv
<1>9. CountsInv'
  <2> SUFFICES ASSUME NEW e \in Docs
               PROVE  /\ opened[e] <= closes + IsOpen(e)'
                      /\ lastVersion'[e] <= x + closes + IsOpen(e)'
    BY <1>3 DEF CountsInv
  <2>1. CASE e = d
    <3>1. IsOpen(e)' = 1 /\ IsOpen(e) = 1 /\ lastVersion'[e] = v
      BY <1>1, <1>3, <1>4, <2>1 DEF IsOpen, ClientTyped
    <3> QED BY <1>4, <2>1, <3>1, NumbersTyped
  <2>2. CASE e # d
    <3>1. IsOpen(e)' = IsOpen(e) /\ lastVersion'[e] = lastVersion[e]
      BY <1>1, <1>3, <2>2 DEF IsOpen, ClientTyped
    <3> QED BY <1>2, <3>1, NumbersTyped
  <2> QED BY <2>1, <2>2
<1> QED BY <1>5, <1>7, <1>8, <1>9, TypePartsNext DEF TypesInv

LEMMA AbortTypes ==
  ASSUME TypesInv, Inv, NEW d \in Docs
  PROVE  /\ AbortPending(d) \in [Timers -> Tasks \cup {None}]
         /\ \A g \in Timers : AbortPending(d)[g] # None => Ready(AbortPending(d)[g])
<1>1. /\ timers \in [Timers -> Tasks \cup {None}]
      /\ pending_diagnostics[d] \in Timers \cup {None}
      /\ \A g \in Timers : timers[g] # None => Ready(timers[g])
  BY TypeParts DEF TypesInv, TimingTyped, ReadyInv
<1>2. ASSUME NEW g \in Timers, Aborted(timers[g]) # None
      PROVE  Ready(Aborted(timers[g])) /\ Aborted(timers[g]) \in Tasks
  <2>1. PICK o : o = timers[g]
    OBVIOUS
  <2>2. Ready(o) /\ Aborted(timers[g]) = [o EXCEPT !.aborted = TRUE]
    BY <1>1, <1>2, <2>1 DEF Aborted
  <2>3. Ready([o EXCEPT !.aborted = TRUE])
    BY <2>2 DEF Ready, Tasks
  <2> QED BY <2>2, <2>3 DEF Ready
<1>3. CASE pending_diagnostics[d] = None
  BY <1>1, <1>3 DEF AbortPending
<1>4. CASE pending_diagnostics[d] # None
  <2>1. PICK h \in Timers : AbortPending(d) = [timers EXCEPT ![h] = Aborted(timers[h])]
    BY <1>1, <1>4 DEF AbortPending
  <2> QED BY <1>1, <1>2, <2>1
<1> QED BY <1>3, <1>4

LEMMA DidCloseTypes ==
  ASSUME TypesInv, Inv, NEW d \in Docs, DidClose(d)
  PROVE  TypesInv'
<1>1. /\ ClientTyped /\ QueueTyped /\ DocsTyped /\ CachesTyped /\ TimingTyped
      /\ PublishedTyped /\ ReadyInv /\ CountsInv /\ ChangesInv
  BY TypeParts DEF TypesInv
<1>2. PICK c : c = closes + 1
  OBVIOUS
<1>3. /\ editor[d] # None /\ closes < MaxCloses /\ closes' = c
      /\ editor' = [editor EXCEPT ![d] = None] /\ timers' = AbortPending(d)
      /\ pending_diagnostics' = [pending_diagnostics EXCEPT ![d] = None]
      /\ documents' = [documents EXCEPT ![d] = None]
      /\ snapshots' = [snapshots EXCEPT ![d] = None]
      /\ last_valid_snapshot' = [last_valid_snapshot EXCEPT ![d] = None]
      /\ waiting' = Append(waiting, Handling("close", d, None, None, None))
      /\ suspended' \in BOOLEAN
      /\ UNCHANGED <<disk, opened, lastVersion, edits, asked, overlays,
                     diagnostics_generation, published>>
  BY <1>2 DEF DidClose, Enqueue
<1>4. c \in Nat /\ c <= MaxCloses
  BY <1>2, <1>3, NumbersTyped
<1>5. ClientTyped'
  BY <1>1, <1>3, <1>4 DEF ClientTyped
<1>6. PICK n : n \in Notices /\ n.kind = "close" /\ waiting' = Append(waiting, n)
  BY <1>3 DEF Handling, Notices
<1>7. QueueTyped' /\ ChangesInv'
  <2>1. /\ waiting \in Seq(Notices) /\ Len(waiting) \in Nat /\ Len(waiting) < Handlers
        /\ Changes(waiting, diagnostics_generation, edits)
    BY LineTyped DEF DidClose
  <2> QED BY <1>1, <1>3, <1>6, <2>1, MoreTyped, NumbersTyped DEF QueueTyped, ChangesInv
<1>8. CachesTyped' /\ DocsTyped' /\ PublishedTyped'
  BY <1>1, <1>3 DEF CachesTyped, DocsTyped, PublishedTyped
<1>9. TimingTyped' /\ ReadyInv'
  BY <1>1, <1>3, AbortTypes DEF TimingTyped, ReadyInv
<1>10. CountsInv'
  <2> SUFFICES ASSUME NEW e \in Docs
               PROVE  /\ opened[e] <= c + IsOpen(e)'
                      /\ lastVersion[e] <= edits + c + IsOpen(e)'
    BY <1>3 DEF CountsInv
  <2>1. IsOpen(e)' \in 0 .. 1
    BY DEF IsOpen
  <2>2. CASE e = d
    BY <1>2, <2>1, <2>2, NumbersTyped
  <2>3. CASE e # d
    <3>1. IsOpen(e)' = IsOpen(e)
      BY <1>1, <1>3, <2>3 DEF IsOpen, ClientTyped
    <3> QED BY <1>2, <3>1, NumbersTyped
  <2> QED BY <2>2, <2>3
<1> QED BY <1>5, <1>7, <1>8, <1>9, <1>10, TypePartsNext DEF TypesInv

LEMMA AsksTypes ==
  ASSUME TypesInv, NEW d \in Docs, DidSave(d) \/ Request(d)
  PROVE  TypesInv'
<1>1. /\ ClientTyped /\ QueueTyped /\ DocsTyped /\ CachesTyped /\ TimingTyped
      /\ ReadyInv /\ CountsInv /\ ChangesInv
  BY TypeParts DEF TypesInv
<1>2. PICK kind \in {"publish", "request"} : BeginAnalysis(kind, d, documents[d], waiting)
  BY DEF DidSave, Request
<1>3. /\ Yields /\ asked < MaxRequests /\ asked' = asked + 1
      /\ disk' = disk \/ (editor[d] # None /\ disk' = [disk EXCEPT ![d] = editor[d]])
      /\ UNCHANGED <<editor, opened, lastVersion, edits, closes, documents, overlays, snapshots,
                     last_valid_snapshot, pending_diagnostics, diagnostics_generation, timers>>
  BY DEF DidSave, Request, caches, timing
<1>4. ClientTyped'
  BY <1>1, <1>3, BoundsAssumption DEF ClientTyped
<1>5. /\ PublishedTyped' /\ suspended' \in BOOLEAN
      /\ \/ waiting' = waiting
         \/ \E n \in Notices : n.kind # "change" /\ waiting' = Append(waiting, n)
  BY <1>2, ReadsTyped, BeginTyped
<1>6. QueueTyped' /\ ChangesInv'
  <2>1. /\ waiting \in Seq(Notices) /\ Len(waiting) \in Nat /\ Len(waiting) < Handlers
        /\ Changes(waiting, diagnostics_generation, edits)
    BY <1>3, LineTyped
  <2>2. CASE waiting' = waiting
    BY <1>1, <1>3, <1>5, <2>2 DEF QueueTyped, ChangesInv
  <2>3. CASE \E n \in Notices : n.kind # "change" /\ waiting' = Append(waiting, n)
    BY <1>1, <1>3, <1>5, <2>1, <2>3, MoreTyped, NumbersTyped DEF QueueTyped, ChangesInv
  <2> QED BY <1>5, <2>2, <2>3
<1>7. CachesTyped' /\ DocsTyped' /\ TimingTyped' /\ ReadyInv' /\ CountsInv'
  BY <1>1, <1>3 DEF CachesTyped, DocsTyped, TimingTyped, ReadyInv, CountsInv, IsOpen
<1> QED BY <1>4, <1>5, <1>6, <1>7, TypePartsNext DEF TypesInv

(* The text that is inserted. *)
LEMMA InsertTyped ==
  ASSUME TypesInv, NEW n \in Notices, n.kind # "close", Insert(n)
  PROVE  DocsTyped' /\ documents'[n.doc] \in Contents
<1>1. /\ DocsTyped /\ n.doc \in Docs /\ n.opening \in Openings /\ n.version \in Versions
      /\ n.text \in Texts
  BY TypeParts, NoticeIs DEF TypesInv
<1>2. [text |-> n.text, version |-> n.version, opening |-> n.opening] \in Contents
  BY <1>1 DEF Contents
<1> QED BY <1>1, <1>2 DEF Insert, DocsTyped

LEMMA FinishOpenTypes ==
  ASSUME TypesInv, FinishOpen
  PROVE  TypesInv'
<1>1. /\ ClientTyped /\ QueueTyped /\ CachesTyped /\ TimingTyped /\ ReadyInv /\ CountsInv
      /\ ChangesInv
  BY TypeParts DEF TypesInv
<1>2. PICK n, line : n = Head(waiting) /\ line = Tail(waiting)
  OBVIOUS
<1>3. PICK doc : doc = documents'[n.doc]
  OBVIOUS
<1>4. /\ waiting # <<>> /\ n.kind = "open" /\ Insert(n)
      /\ BeginAnalysis("publish", n.doc, doc, line)
      /\ UNCHANGED <<client, caches, timing>>
  BY <1>2, <1>3 DEF FinishOpen, Has
<1>5. /\ n \in Notices /\ line \in Seq(Notices) /\ Len(line) \in Nat /\ Len(line) < Handlers
      /\ Changes(line, diagnostics_generation, edits)
  BY <1>2, <1>4, TailTyped
<1>6. DocsTyped' /\ doc \in Contents /\ n.doc \in Docs
  BY <1>3, <1>4, <1>5, InsertTyped, NoticeIs
<1>7. /\ PublishedTyped' /\ suspended' \in BOOLEAN
      /\ \/ waiting' = line
         \/ \E m \in Notices : m.kind # "change" /\ waiting' = Append(line, m)
  BY <1>4, <1>6, BeginTyped
<1>8. UNCHANGED <<disk, editor, opened, lastVersion, edits, closes, asked, snapshots,
                  last_valid_snapshot, pending_diagnostics, diagnostics_generation, timers>>
  BY <1>4 DEF client, caches, timing
<1>9. QueueTyped' /\ ChangesInv'
  <2>1. CASE waiting' = line
    BY <1>1, <1>5, <1>7, <1>8, <2>1, BoundsAssumption DEF QueueTyped, ChangesInv
  <2>2. CASE \E m \in Notices : m.kind # "change" /\ waiting' = Append(line, m)
    BY <1>1, <1>5, <1>7, <1>8, <2>2, MoreTyped, NumbersTyped DEF QueueTyped, ChangesInv
  <2> QED BY <1>7, <2>1, <2>2
<1>10. ClientTyped' /\ CachesTyped' /\ TimingTyped' /\ ReadyInv' /\ CountsInv'
  BY <1>1, <1>8 DEF ClientTyped, CachesTyped, TimingTyped, ReadyInv, CountsInv, IsOpen
<1> QED BY <1>6, <1>7, <1>9, <1>10, TypePartsNext DEF TypesInv

LEMMA FinishChangeTypes ==
  ASSUME TypesInv, Inv, FinishChange
  PROVE  TypesInv'
<1>1. /\ ClientTyped /\ QueueTyped /\ CachesTyped /\ TimingTyped /\ PublishedTyped /\ CountsInv
  BY TypeParts DEF TypesInv
<1>2. PICK n, line : n = Head(waiting) /\ line = Tail(waiting)
  OBVIOUS
<1>3. PICK h : h = diagnostics_generation + 1
  OBVIOUS
<1>4. /\ waiting # <<>> /\ n.kind = "change" /\ Insert(n) /\ waiting' = line
      /\ suspended' \in BOOLEAN
      /\ timers' = [AbortPending(n.doc) EXCEPT ![h] = Timer(n.doc)]
      /\ pending_diagnostics' = [pending_diagnostics EXCEPT ![n.doc] = h]
      /\ diagnostics_generation' = h
      /\ UNCHANGED <<client, caches, published>>
  BY <1>2, <1>3 DEF FinishChange, Has, ScheduleDiagnostics, Leave
<1>5. /\ n \in Notices /\ line \in Seq(Notices) /\ Len(line) \in Nat /\ Len(line) < Handlers
      /\ h <= edits /\ Changes(line, h, edits)
  BY <1>2, <1>3, <1>4, TailTyped
<1>6. DocsTyped' /\ n.doc \in Docs
  BY <1>4, <1>5, InsertTyped, NoticeIs
<1>7. h \in Timers /\ h \in 0 .. MaxEdits
  BY <1>3, <1>5, NumbersTyped DEF Timers
<1>8. UNCHANGED <<disk, editor, opened, lastVersion, edits, closes, asked, snapshots,
                  last_valid_snapshot, published>>
  BY <1>4 DEF client, caches
<1>9. ClientTyped' /\ CachesTyped' /\ PublishedTyped' /\ CountsInv'
  BY <1>1, <1>8 DEF ClientTyped, CachesTyped, PublishedTyped, CountsInv, IsOpen
<1>10. QueueTyped' /\ ChangesInv'
  BY <1>4, <1>5, <1>8, BoundsAssumption DEF QueueTyped, ChangesInv
<1>11. TimingTyped' /\ ReadyInv'
  <2>1. PICK t : t = Timer(n.doc)
    OBVIOUS
  <2>2. t \in Tasks /\ t.step = "sleep"
    BY <1>6, <2>1 DEF Timer, Tasks
  <2>3. Ready(t)
    BY <2>2 DEF Ready
  <2>4. /\ AbortPending(n.doc) \in [Timers -> Tasks \cup {None}]
        /\ \A g \in Timers : AbortPending(n.doc)[g] # None => Ready(AbortPending(n.doc)[g])
    BY <1>6, AbortTypes
  <2>5. timers' = [AbortPending(n.doc) EXCEPT ![h] = t]
    BY <1>4, <2>1
  <2>6. timers' \in [Timers -> Tasks \cup {None}]
    BY <1>7, <2>2, <2>4, <2>5
  <2>7. ReadyInv'
    BY <1>7, <2>3, <2>4, <2>5 DEF ReadyInv
  <2> QED BY <1>1, <1>4, <1>6, <1>7, <2>6, <2>7 DEF TimingTyped
<1> QED BY <1>6, <1>9, <1>10, <1>11, TypePartsNext DEF TypesInv

LEMMA FinishCloseTypes ==
  ASSUME TypesInv, FinishClose
  PROVE  TypesInv'
<1>1. /\ ClientTyped /\ QueueTyped /\ DocsTyped /\ CachesTyped /\ TimingTyped /\ ReadyInv
      /\ CountsInv /\ ChangesInv
  BY TypeParts DEF TypesInv
<1>2. PICK n, line : n = Head(waiting) /\ line = Tail(waiting)
  OBVIOUS
<1>3. /\ waiting # <<>> /\ overlays' = [overlays EXCEPT ![n.doc] = None] /\ Send(n.doc, None)
      /\ waiting' = line /\ suspended' \in BOOLEAN
      /\ UNCHANGED <<disk, editor, opened, lastVersion, edits, closes, asked, documents,
                     snapshots, last_valid_snapshot, pending_diagnostics,
                     diagnostics_generation, timers>>
  BY <1>2 DEF FinishClose, Has, Leave, client, caches, timing
<1>4. /\ n \in Notices /\ line \in Seq(Notices) /\ Len(line) \in Nat /\ Len(line) < Handlers
      /\ Changes(line, diagnostics_generation, edits)
  BY <1>2, <1>3, TailTyped
<1>5. PublishedTyped'
  BY <1>3, <1>4, SendTyped, NoticeIs
<1>6. /\ ClientTyped' /\ DocsTyped' /\ CachesTyped' /\ TimingTyped' /\ ReadyInv' /\ CountsInv'
  BY <1>1, <1>3 DEF ClientTyped, DocsTyped, CachesTyped, TimingTyped, ReadyInv, CountsInv, IsOpen
<1>7. QueueTyped' /\ ChangesInv'
  BY <1>1, <1>3, <1>4, BoundsAssumption DEF QueueTyped, ChangesInv
<1> QED BY <1>5, <1>6, <1>7, TypePartsNext DEF TypesInv

LEMMA FinishAnalysisTypes ==
  ASSUME TypesInv, FinishAnalysis
  PROVE  TypesInv'
<1>1. /\ ClientTyped /\ QueueTyped /\ DocsTyped /\ CachesTyped /\ TimingTyped /\ ReadyInv
      /\ CountsInv /\ ChangesInv /\ PublishedTyped
  BY TypeParts DEF TypesInv
<1>2. PICK r, line : r = Head(waiting) /\ line = Tail(waiting)
  OBVIOUS
<1>3. PICK a : a = [version |-> r.version, opening |-> r.opening, texts |-> Seen(r.doc, r.text)]
  OBVIOUS
<1>4. /\ waiting # <<>> /\ r.kind \in {"publish", "request"}
      /\ Store(r.doc, a) \/ UNCHANGED caches
      /\ Send(r.doc, a) \/ UNCHANGED published
      /\ waiting' = line /\ suspended' \in BOOLEAN
      /\ UNCHANGED <<disk, editor, opened, lastVersion, edits, closes, asked, documents,
                     overlays, pending_diagnostics, diagnostics_generation, timers>>
  BY <1>2, <1>3 DEF FinishAnalysis, Has, Leave, client, timing
<1>5. /\ r \in Notices /\ line \in Seq(Notices) /\ Len(line) \in Nat /\ Len(line) < Handlers
      /\ Changes(line, diagnostics_generation, edits)
  BY <1>2, <1>4, TailTyped
<1>6. /\ r.doc \in Docs /\ r.opening \in Openings /\ r.version \in Versions
      /\ Seen(r.doc, r.text) \in Views
  BY <1>4, <1>5, NoticeIs, ReadsTyped
<1>7. a \in Analyses /\ a.texts \in Views /\ a.opening \in Openings
  BY <1>3, <1>6 DEF Analyses
<1>8. CachesTyped'
  BY <1>1, <1>4, <1>6, <1>7, StoreTyped DEF CachesTyped, caches
<1>9. PublishedTyped'
  BY <1>1, <1>4, <1>6, <1>7, SendTyped DEF PublishedTyped
<1>10. /\ ClientTyped' /\ DocsTyped' /\ TimingTyped' /\ ReadyInv' /\ CountsInv'
  BY <1>1, <1>4 DEF ClientTyped, DocsTyped, TimingTyped, ReadyInv, CountsInv, IsOpen
<1>11. QueueTyped' /\ ChangesInv'
  BY <1>1, <1>4, <1>5, BoundsAssumption DEF QueueTyped, ChangesInv
<1> QED BY <1>8, <1>9, <1>10, <1>11, TypePartsNext DEF TypesInv

-----------------------------------------------------------------------------
LEMMA InitTypes == Init => TypesInv
<1> SUFFICES ASSUME Init PROVE TypesInv
  OBVIOUS
<1>1. TypeOK
  <2>1. ClientTyped
    BY BoundsAssumption DEF Init, ClientTyped, Texts, Versions, Openings
  <2>2. QueueTyped
    <3>1. waiting = <<>> /\ suspended = FALSE
      BY DEF Init
    <3>2. waiting \in Seq(Notices) /\ Len(waiting) = 0
      BY <3>1
    <3>3. Len(waiting) <= Handlers
      BY <3>2, BoundsAssumption
    <3>4. suspended \in BOOLEAN
      BY <3>1
    <3> QED BY <3>2, <3>3, <3>4 DEF QueueTyped
  <2>3. DocsTyped /\ CachesTyped
    BY DEF Init, DocsTyped, CachesTyped
  <2>4. TimingTyped /\ PublishedTyped
    BY BoundsAssumption DEF Init, TimingTyped, PublishedTyped
  <2> QED BY <2>1, <2>2, <2>3, <2>4, TypeParts
<1>2. ReadyInv /\ ChangesInv
  BY DEF Init, ReadyInv, ChangesInv, Changes
<1>3. CountsInv
  <2> SUFFICES ASSUME NEW d \in Docs
               PROVE  /\ opened[d] <= closes + IsOpen(d)
                      /\ lastVersion[d] <= edits + closes + IsOpen(d)
    BY DEF CountsInv
  <2>1. IsOpen(d) = 0
    BY DEF Init, IsOpen
  <2> QED BY <2>1 DEF Init
<1> QED BY <1>1, <1>2, <1>3 DEF TypesInv

LEMMA NextKeepsTypes == TypesInv /\ Inv /\ [Next]_vars => TypesInv'
<1> SUFFICES ASSUME TypesInv, Inv, [Next]_vars PROVE TypesInv'
  OBVIOUS
<1>1. CASE UNCHANGED vars
  BY <1>1 DEF vars, client, queue, caches, timing, TypesInv, TypeOK, CountsInv, IsOpen,
              ChangesInv, ReadyInv
<1>2. ASSUME NEW d \in Docs, Client(d) PROVE TypesInv'
  BY <1>2, DidOpenTypes, DidChangeTypes, DidCloseTypes, AsksTypes DEF Client
<1>3. CASE Handler
  BY <1>3, FinishOpenTypes, FinishChangeTypes, FinishCloseTypes, FinishAnalysisTypes
     DEF Handler
<1>4. ASSUME NEW g \in Timers, RunTimer(g) \/ Drop(g) PROVE TypesInv'
  BY <1>4, TimerKeepsTypes
<1> QED BY <1>1, <1>2, <1>3, <1>4 DEF Next

(* The types; in particular each edit has a generation of its own, a       *)
(* version goes up by one for each edit and at most one more for each      *)
(* opening, and no more handlers wait than tower-lsp runs.                 *)
THEOREM Types == Spec => []TypeOK
<1>1. TypesInv => TypeOK
  BY DEF TypesInv
<1> QED BY <1>1, InitTypes, NextKeepsTypes, Invariance, PTL DEF Spec
=============================================================================
