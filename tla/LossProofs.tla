----------------------------- MODULE LossProofs ------------------------------
(***************************************************************************)
(* Proofs that nothing spoken is lost between a capture and the file       *)
(* (Dictation), for every number of captures, frames, starts and faults:   *)
(* what the user did not give up is in the file or is left in a WAV that   *)
(* the next start reads from before it, and what a list skips is written.  *)
(***************************************************************************)
EXTENDS OnceProofs

-----------------------------------------------------------------------------
(* The words of a capture, by where they are. *)

TextOf(x, kind, c) == IF x.kind = kind /\ x.c = c THEN Words(x.from, x.through) ELSE {}
TextIn(f, c) ==
  {i \in Speech : \E k \in DOMAIN f : f[k].c = c /\ i \in Words(f[k].from, f[k].through)}

(* In the part of a queue before place n. *)
TextWithin(q, kind, c, n) ==
  {i \in Speech : \E k \in DOMAIN q : k < n /\ i \in TextOf(q[k], kind, c)}

(* In the file or sent to it; and with the results before place n. *)
Safe(f, e, c) == TextIn(f, c) \cup TextWithin(e, "append", c, Len(e) + 1)
Said(f, e, r, c, n) == Safe(f, e, c) \cup TextWithin(r, "commit", c, n)
AllSaid(f, e, r, c) == Said(f, e, r, c, Len(r) + 1)

(* Text only moves on, where d results were taken. *)
MovesOn(f, e, r, f2, e2, r2, d) ==
  \A c : /\ Safe(f, e, c) \subseteq Safe(f2, e2, c)
         /\ \A k \in 1..(Len(r) + 1) : Said(f, e, r, c, k) \subseteq Said(f2, e2, r2, c, k - d)

LEMMA WithinAppended ==
  ASSUME NEW S, NEW q \in Seq(S), NEW x, NEW kind, NEW c
  PROVE  /\ \A n : TextWithin(q, kind, c, n) \subseteq TextWithin(Append(q, x), kind, c, n)
         /\ TextWithin(q, kind, c, Len(q) + 1) \cup TextOf(x, kind, c)
              = TextWithin(Append(q, x), kind, c, Len(Append(q, x)) + 1)
<1>1. /\ DOMAIN Append(q, x) = 1..(Len(q) + 1) /\ Len(Append(q, x)) = Len(q) + 1
      /\ DOMAIN q = 1..Len(q) /\ Len(q) \in Nat
      /\ Append(q, x)[Len(q) + 1] = x
      /\ \A k \in DOMAIN q : Append(q, x)[k] = q[k]
  OBVIOUS
<1>2. \A n : TextWithin(q, kind, c, n) \subseteq TextWithin(Append(q, x), kind, c, n)
  BY <1>1 DEF TextWithin
<1>3. TextOf(x, kind, c) \subseteq Speech
  BY DEF TextOf, Words
<1>4. \A i : i \in TextWithin(q, kind, c, Len(q) + 1) \cup TextOf(x, kind, c)
        => i \in TextWithin(Append(q, x), kind, c, Len(Append(q, x)) + 1)
  BY <1>1, <1>3 DEF TextWithin
<1>5. \A i : i \in TextWithin(Append(q, x), kind, c, Len(Append(q, x)) + 1)
        => i \in TextWithin(q, kind, c, Len(q) + 1) \cup TextOf(x, kind, c)
  BY <1>1 DEF TextWithin
<1> QED BY <1>2, <1>4, <1>5

LEMMA WithinTaken ==
  ASSUME NEW S, NEW q \in Seq(S), q # <<>>, NEW kind, NEW c, NEW n \in Nat
  PROVE  TextWithin(q, kind, c, n)
           \subseteq TextWithin(Tail(q), kind, c, n - 1) \cup TextOf(Head(q), kind, c)
<1>1. /\ DOMAIN q = 1..Len(q) /\ Len(q) \in Nat
      /\ DOMAIN Tail(q) = 1..(Len(q) - 1)
      /\ Head(q) = q[1]
      /\ \A k \in 1..(Len(q) - 1) : Tail(q)[k] = q[k + 1]
  OBVIOUS
<1>2. ASSUME NEW i \in TextWithin(q, kind, c, n)
      PROVE  i \in TextWithin(Tail(q), kind, c, n - 1) \cup TextOf(Head(q), kind, c)
  <2>1. PICK k \in DOMAIN q : k < n /\ i \in TextOf(q[k], kind, c)
    BY <1>2 DEF TextWithin
  <2>2. CASE k = 1
    BY <1>1, <2>1, <2>2
  <2>3. CASE k # 1
    <3>1. k - 1 \in DOMAIN Tail(q) /\ k - 1 < n - 1 /\ i \in TextOf(Tail(q)[k - 1], kind, c)
      BY <1>1, <2>1, <2>3
    <3> QED BY <1>2, <3>1 DEF TextWithin
  <2> QED BY <2>2, <2>3
<1> QED BY <1>2

LEMMA WithinMore ==
  ASSUME NEW q, NEW kind, NEW c, NEW m \in Int, NEW n \in Int, m <= n,
         \A k \in DOMAIN q : k \in Int
  PROVE  TextWithin(q, kind, c, m) \subseteq TextWithin(q, kind, c, n)
BY DEF TextWithin

(* A result, or two, is added: text or not. *)
LEMMA MovesReported ==
  ASSUME NEW f, NEW e, NEW r \in Seq(Result), NEW x
  PROVE  /\ MovesOn(f, e, r, f, e, Append(r, x), 0)
         /\ \A c : AllSaid(f, e, r, c) \cup TextOf(x, "commit", c)
                     = AllSaid(f, e, Append(r, x), c)
<1>1. \A c : /\ \A n : TextWithin(r, "commit", c, n) \subseteq TextWithin(Append(r, x), "commit", c, n)
             /\ TextWithin(r, "commit", c, Len(r) + 1) \cup TextOf(x, "commit", c)
                  = TextWithin(Append(r, x), "commit", c, Len(Append(r, x)) + 1)
  BY WithinAppended
<1>2. \A k \in 1..(Len(r) + 1) : k - 0 = k
  OBVIOUS
<1> QED BY <1>1, <1>2 DEF MovesOn, Said, AllSaid

(* The editor is sent something. *)
LEMMA MovesSent ==
  ASSUME NEW f, NEW e \in Seq(EditorWork), NEW r \in Seq(Result), NEW x
  PROVE  /\ MovesOn(f, e, r, f, Append(e, x), r, 0)
         /\ \A c : Safe(f, e, c) \cup TextOf(x, "append", c) = Safe(f, Append(e, x), c)
<1>1. \A c : TextWithin(e, "append", c, Len(e) + 1) \cup TextOf(x, "append", c)
               = TextWithin(Append(e, x), "append", c, Len(Append(e, x)) + 1)
  BY WithinAppended
<1>2. \A k \in 1..(Len(r) + 1) : k - 0 = k
  OBVIOUS
<1>3. \A c : Safe(f, e, c) \cup TextOf(x, "append", c) = Safe(f, Append(e, x), c)
  BY <1>1 DEF Safe
<1> QED BY <1>2, <1>3 DEF MovesOn, Said

LEMMA SafeSent ==
  ASSUME NEW f, NEW e, e \in Seq(EditorWork), NEW x, NEW c
  PROVE  Safe(f, e, c) \cup TextOf(x, "append", c) = Safe(f, Append(e, x), c)
<1>1. TextWithin(e, "append", c, Len(e) + 1) \cup TextOf(x, "append", c)
        = TextWithin(Append(e, x), "append", c, Len(Append(e, x)) + 1)
  BY WithinAppended
<1> QED BY <1>1 DEF Safe

(* A result is taken, and its text sent on. *)
LEMMA MovesDelivered ==
  ASSUME NEW f, NEW e, NEW e2, NEW r \in Seq(Result), r # <<>>,
         \A c : Safe(f, e, c) \cup TextOf(Head(r), "commit", c) \subseteq Safe(f, e2, c)
  PROVE  MovesOn(f, e, r, f, e2, Tail(r), 1)
<1>1. \A c : \A k \in 1..(Len(r) + 1) :
        TextWithin(r, "commit", c, k)
          \subseteq TextWithin(Tail(r), "commit", c, k - 1) \cup TextOf(Head(r), "commit", c)
  BY WithinTaken
<1> QED BY <1>1 DEF MovesOn, Said

(* The editor thread is done with what it was sent. *)
LEMMA MovesWritten ==
  ASSUME NEW S, NEW f \in Seq(S), NEW f2, NEW e \in Seq(EditorWork), e # <<>>,
         NEW r \in Seq(Result),
         \/ Head(e).kind # "append" /\ f2 = f
         \/ f2 = Append(f, [c |-> Head(e).c, from |-> Head(e).from, through |-> Head(e).through])
  PROVE  MovesOn(f, e, r, f2, Tail(e), r, 0)
<1> DEFINE x == [c |-> Head(e).c, from |-> Head(e).from, through |-> Head(e).through]
<1>1. Len(e) \in Nat /\ Len(Tail(e)) = Len(e) - 1
  OBVIOUS
<1>2. \A c : TextWithin(e, "append", c, Len(e) + 1)
               \subseteq TextWithin(Tail(e), "append", c, Len(e)) \cup TextOf(Head(e), "append", c)
  <2>1. Len(e) + 1 \in Nat /\ (Len(e) + 1) - 1 = Len(e)
    BY <1>1
  <2> QED BY <2>1, WithinTaken
<1>3. \A c : TextIn(f, c) \cup TextOf(Head(e), "append", c) \subseteq TextIn(f2, c)
  <2>1. CASE Head(e).kind # "append" /\ f2 = f
    BY <2>1 DEF TextOf
  <2>2. CASE f2 = Append(f, x)
    <3>1. /\ DOMAIN f2 = 1..(Len(f) + 1) /\ DOMAIN f = 1..Len(f) /\ Len(f) \in Nat
          /\ f2[Len(f) + 1] = x /\ \A k \in DOMAIN f : f2[k] = f[k]
      BY <2>2
    <3>2. \A c : TextIn(f, c) \subseteq TextIn(f2, c)
      BY <3>1 DEF TextIn
    <3>3. \A c : TextOf(Head(e), "append", c) \subseteq Speech
      BY DEF TextOf, Words
    <3>4. ASSUME NEW c, NEW i \in TextOf(Head(e), "append", c) PROVE i \in TextIn(f2, c)
      <4>1. x.c = c /\ i \in Words(x.from, x.through)
        BY <3>4 DEF TextOf
      <4>2. i \in Speech /\ Len(f) + 1 \in DOMAIN f2
        BY <3>1, <3>3, <3>4
      <4> HIDE DEF x
      <4> QED BY <3>1, <4>1, <4>2 DEF TextIn
    <3> QED BY <3>2, <3>4
  <2> QED BY <2>1, <2>2
<1>4. \A c : Safe(f, e, c) \subseteq Safe(f2, Tail(e), c)
  <2>1. Len(Tail(e)) + 1 = Len(e)
    BY <1>1
  <2> QED BY <1>2, <1>3, <2>1 DEF Safe
<1>5. \A k \in 1..(Len(r) + 1) : k - 0 = k
  OBVIOUS
<1> QED BY <1>4, <1>5 DEF MovesOn, Said

LEMMA MovesNot ==
  ASSUME NEW f, NEW e, NEW r
  PROVE  MovesOn(f, e, r, f, e, r, 0)
<1>1. \A k \in 1..(Len(r) + 1) : k - 0 = k
  OBVIOUS
<1> QED BY <1>1 DEF MovesOn

(* What was said in all is said in all. *)
LEMMA MovesAll ==
  ASSUME NEW f, NEW e, NEW r, r \in Seq(Result), NEW f2, NEW e2, NEW r2, r2 \in Seq(Result),
         NEW d, d \in {0, 1}, MovesOn(f, e, r, f2, e2, r2, d), Len(r2) >= Len(r) - d, NEW c
  PROVE  AllSaid(f, e, r, c) \subseteq AllSaid(f2, e2, r2, c)
<1>1. /\ Len(r) + 1 \in 1..(Len(r) + 1) /\ Len(r) \in Nat /\ Len(r2) \in Nat
      /\ (Len(r) + 1) - d \in Int /\ Len(r2) + 1 \in Int /\ (Len(r) + 1) - d <= Len(r2) + 1
      /\ \A k \in DOMAIN r2 : k \in Int
  OBVIOUS
<1>2. Said(f, e, r, c, Len(r) + 1) \subseteq Said(f2, e2, r2, c, (Len(r) + 1) - d)
  BY <1>1 DEF MovesOn
<1>3. TextWithin(r2, "commit", c, (Len(r) + 1) - d)
               \subseteq TextWithin(r2, "commit", c, Len(r2) + 1)
  BY <1>1, WithinMore
<1> QED BY <1>2, <1>3 DEF Said, AllSaid

-----------------------------------------------------------------------------
(* The captures something is still said of: nobody gave them up. *)
Due == (1..made) \ (lost \cup crashed)

(* The words of c up to frame n are in the file or sent to it; with those
   reported before place k; and with all reported. *)
SafeTo(c, n) == Words(0, n) \subseteq Safe(file, editor, c)
SaidTo(c, n, k) == Words(0, n) \subseteq Said(file, editor, results, c, k)
ReportedTo(c, n) == Words(0, n) \subseteq AllSaid(file, editor, results, c)
Complete(c) == c # mic /\ SafeTo(c, captured[c])

(* What a recovery WAV, an entry and a line of the list stand for. *)
WavsWhole == \A c \in Due : wav[c] \in {Gone, captured[c]}
EntriesSafe ==
  \A c \in Captures : trans[c].stage # "none" =>
    c <= made /\ (c \in Due => SafeTo(c, trans[c].through))
ListSafe ==
  \A c \in Captures : list[c] # Gone => c <= made /\ (c \in Due => SafeTo(c, list[c]))

(* What the worker is past was reported, by a decode to its end all of it. *)
ProgressSafe ==
  /\ engine.id <= made
  /\ engine.id \in Due => ReportedTo(engine.id, engine.through)
  /\ engine.phase = "busy" => engine.id = engine.job.c
  /\ engine.phase = "busy" /\ engine.job.c \in Due => ReportedTo(engine.job.c, engine.at)
ResultTrue(k) ==
  /\ results[k].kind = "commit" /\ results[k].c \in Due
       => SaidTo(results[k].c, results[k].from, k)
  /\ results[k].kind = "finished" /\ results[k].c \in Due /\ results[k].outcome = "ok"
       => SaidTo(results[k].c, captured[results[k].c], k)
ResultsTrue == \A k \in DOMAIN results : ResultTrue(k)

(* A final decode has all of its capture, and nothing calls it off; one from
   the WAV begins where the text is safe. *)
FinishWhole(x) ==
  x.kind = "finish" /\ x.c \in Due => x.end = captured[x.c] /\ life[x.c] = "released"
StartSafe(x) == x.kind = "recording" /\ x.c \in Due => SafeTo(x.c, x.start)
WorkTrue == \A k \in DOMAIN work : FinishWhole(work[k]) /\ StartSafe(work[k])
JobTrue ==
  /\ FinishWhole(engine.job)
  /\ engine.job.kind = "recording" /\ engine.job.c \in Due
       => engine.job.end = captured[engine.job.c]

(* The capture under way is the one captured, and nobody cancelled it. *)
MicOpen == mic # None => UnderWay /\ mic = session.current
Lives ==
  /\ session.current <= made
  /\ \A c \in Captures : life[c] = "cancelled" => c <= made
  /\ UnderWay /\ pc \notin Leaving /\ session.current \in Due
       => life[session.current] # "cancelled"
  /\ pc = "postroll" /\ session.current \in Due => life[session.current] = "released"

(* Whose end is still to come. *)
Closes(x, c) == x.kind \in {"finish", "recording", "finished"} /\ x.c = c
ToEnd(c) ==
  \/ \E k \in DOMAIN work : Closes(work[k], c)
  \/ Closes(engine.job, c)
  \/ \E k \in DOMAIN results : Closes(results[k], c)
Forsaken(c) == pc \in {"joining", "draining", "closing"} \/ (UnderWay /\ c = session.current)

(* Every capture is complete, or its entry says what is still to come of it,
   or it has none, having no WAV either. *)
Accounted(c) ==
  /\ trans[c].stage = "none" /\ pc # "down" =>
       Complete(c) \/ (wav[c] = Gone /\ (Forsaken(c) \/ ToEnd(c)))
  /\ trans[c].stage = "capturing" => Forsaken(c)
  /\ trans[c].stage \in {"finishing", "sent"} => ToEnd(c)
AccountedFor == \A c \in Due : Accounted(c)

(* What a stop leaves to the next start. *)
LeftBehind ==
  \A c \in Due :
    /\ pc = "closing" /\ list[c] = Gone => Complete(c) \/ wav[c] = Gone
    /\ pc = "down" => wav[c] = captured[c] /\ (list[c] = Gone => Complete(c))

TextInv == EntriesSafe /\ ListSafe /\ ProgressSafe /\ ResultsTrue /\ WorkTrue /\ JobTrue
CaptureInv == WavsWhole /\ MicOpen /\ Lives
LossInv == TextInv /\ CaptureInv /\ AccountedFor /\ LeftBehind

(* On top of what is known of the order of the text, and of the work sent. *)
LossHere == OrderInv /\ NothingToDrop /\ LossInv

-----------------------------------------------------------------------------
(* What a step leaves. *)

(* Captures are begun, and given up. *)
Onto == made' >= made /\ \A c \in Due' : c <= made => c \in Due
Moves(d) ==
  /\ MovesOn(file, editor, results, file', editor', results', d)
  /\ Len(results') >= Len(results) - d
TextMoves == \E d \in {0, 1} : Moves(d)
CapturedStays == \A c \in Captures : c <= made /\ c # mic => captured'[c] = captured[c]

LEMMA DueBegun == TypeOK => \A c \in Due : c \in Captures /\ c \in Nat /\ c <= made
BY PipelineAssumption DEF Due, TypeOK, Captures

LEMMA SaysOn ==
  ASSUME TypeOK, TypeOK', TextMoves
  PROVE  /\ \A c : Safe(file, editor, c) \subseteq Safe(file', editor', c)
         /\ \A c : AllSaid(file, editor, results, c) \subseteq AllSaid(file', editor', results', c)
<1>1. PICK d \in {0, 1} : Moves(d)
  BY DEF TextMoves
<1>2. results \in Seq(Result) /\ results' \in Seq(Result)
  BY DEF TypeOK
<1>3. \A c : Safe(file, editor, c) \subseteq Safe(file', editor', c)
  BY <1>1 DEF Moves, MovesOn
<1>4. \A c : AllSaid(file, editor, results, c) \subseteq AllSaid(file', editor', results', c)
  <2>1. /\ MovesOn(file, editor, results, file', editor', results', d)
        /\ Len(results') >= Len(results) - d
    BY <1>1 DEF Moves
  <2> QED BY <1>2, <2>1, MovesAll
<1> QED BY <1>3, <1>4

LEMMA EntriesSafeOn ==
  ASSUME TypeOK, TypeOK', EntriesSafe, Onto, TextMoves,
         \A c \in Captures : trans'[c].stage # "none" =>
           \/ trans[c].stage # "none" /\ trans'[c].through = trans[c].through
           \/ c <= made' /\ (c \in Due' => Words(0, trans'[c].through) \subseteq Safe(file', editor', c))
  PROVE  EntriesSafe'
<1> SUFFICES ASSUME NEW c \in Captures, trans'[c].stage # "none"
             PROVE  /\ c <= made'
                    /\ c \in Due' => Words(0, trans'[c].through) \subseteq Safe(file', editor', c)
  BY DEF EntriesSafe, SafeTo
<1>1. c \in Nat /\ made \in Nat /\ made' \in Nat
  BY PipelineAssumption DEF TypeOK, Captures
<1>2. CASE trans[c].stage # "none" /\ trans'[c].through = trans[c].through
  <2>1. c <= made /\ (c \in Due => Words(0, trans[c].through) \subseteq Safe(file, editor, c))
    BY <1>2 DEF EntriesSafe, SafeTo
  <2>2. Safe(file, editor, c) \subseteq Safe(file', editor', c)
    BY SaysOn
  <2> QED BY <1>1, <1>2, <2>1, <2>2 DEF Onto
<1> QED BY <1>2

LEMMA ListSafeOn ==
  ASSUME TypeOK, TypeOK', ListSafe, EntriesSafe', Onto, TextMoves,
         \A c \in Captures : list'[c] # Gone =>
           \/ list'[c] = list[c]
           \/ trans'[c].stage # "none" /\ list'[c] = trans'[c].through
  PROVE  ListSafe'
<1> SUFFICES ASSUME NEW c \in Captures, list'[c] # Gone
             PROVE  /\ c <= made'
                    /\ c \in Due' => Words(0, list'[c]) \subseteq Safe(file', editor', c)
  BY DEF ListSafe, SafeTo
<1>1. c \in Nat /\ made \in Nat /\ made' \in Nat
  BY PipelineAssumption DEF TypeOK, Captures
<1>2. CASE list'[c] = list[c]
  <2>1. c <= made /\ (c \in Due => Words(0, list[c]) \subseteq Safe(file, editor, c))
    BY <1>2 DEF ListSafe, SafeTo
  <2>2. Safe(file, editor, c) \subseteq Safe(file', editor', c)
    BY SaysOn
  <2> QED BY <1>1, <1>2, <2>1, <2>2 DEF Onto
<1>3. CASE trans'[c].stage # "none" /\ list'[c] = trans'[c].through
  BY <1>3 DEF EntriesSafe, SafeTo
<1> QED BY <1>2, <1>3

(* The worker's offset, and the one it decodes at, are kept or had again. *)
LEMMA ProgressSafeOn ==
  ASSUME OrderInv, TypeOK', ProgressSafe, Onto, TextMoves,
         \/ engine'.id = engine.id /\ engine'.through = engine.through
         \/ engine'.id = None /\ engine'.phase # "busy",
         engine'.phase = "busy" =>
           engine.phase = "busy" /\ engine'.job.c = engine.job.c /\ engine'.at = engine.at
  PROVE  ProgressSafe'
<1>1. /\ engine.id \in Nat /\ made \in Nat /\ made' \in Nat /\ TypeOK
      /\ None \notin Due'
  BY PipelineAssumption DEF OrderInv, TypeInv, TypeOK, EngineState, Captures, None, Due
<1>2. \A c : AllSaid(file, editor, results, c) \subseteq AllSaid(file', editor', results', c)
  BY <1>1, SaysOn
<1>3. engine.phase = "busy" => engine.job.c <= made
  BY DEF OrderInv, TypeInv, Attached, InStream, Stream, Fits, Text, DecodeJob
<1>4. engine'.id <= made'
  BY <1>1 DEF ProgressSafe, Onto, None
<1>5. engine'.id \in Due' => Words(0, engine'.through) \subseteq AllSaid(file', editor', results', engine'.id)
  BY <1>1, <1>2 DEF ProgressSafe, Onto, ReportedTo
<1>7. engine'.phase = "busy" => engine'.id = engine'.job.c
  BY DEF ProgressSafe
<1>6. engine'.phase = "busy" /\ engine'.job.c \in Due'
        => Words(0, engine'.at) \subseteq AllSaid(file', editor', results', engine'.job.c)
  BY <1>2, <1>3 DEF ProgressSafe, Onto, ReportedTo
<1> QED BY <1>4, <1>5, <1>6, <1>7 DEF ProgressSafe, ReportedTo

(* Nothing that ends the capture under way is on its way. *)
ClosesElsewhere(x) == Closes(x, x.c) /\ x.c \in Captures => x.c # mic /\ x.c <= made

LEMMA EndsElsewhere ==
  OrderInv /\ MicOpen =>
    /\ \A k \in DOMAIN work : ClosesElsewhere(work[k])
    /\ \A k \in DOMAIN results : ClosesElsewhere(results[k])
    /\ ClosesElsewhere(engine.job)
<1> SUFFICES ASSUME OrderInv, MicOpen
             PROVE  \A x : Fits(x, made, Open) => ClosesElsewhere(x)
  BY DEF OrderInv, InStream, Stream, AllFit
<1>1. \A x : Closes(x, x.c) => Ends(x)
  BY DEF Closes, Ends
<1>2. mic # None => mic \in Open
  BY DEF MicOpen, Open, UnderWay
<1>3. None \notin Captures
  BY DEF Captures, None
<1> SUFFICES ASSUME NEW x, Fits(x, made, Open), Closes(x, x.c), x.c \in Captures
             PROVE  x.c # mic /\ x.c <= made
  BY DEF ClosesElsewhere
<1>4. x.c <= made /\ x.c \notin Open
  BY <1>1 DEF Fits
<1> QED BY <1>2, <1>3, <1>4

LEMMA ResultsTrueOn ==
  ASSUME OrderInv, TypeOK', MicOpen, ResultsTrue, Onto, CapturedStays,
         NEW d, d \in {0, 1}, Moves(d),
         \A k \in DOMAIN results' :
           \/ k + d \in DOMAIN results /\ results'[k] = results[k + d]
           \/ ResultTrue(k)'
  PROVE  ResultsTrue'
<1> SUFFICES ASSUME NEW k \in DOMAIN results',
                    k + d \in DOMAIN results, results'[k] = results[k + d]
             PROVE  ResultTrue(k)'
  BY DEF ResultsTrue
<1> DEFINE x == results[k + d]
<1>1. /\ results \in Seq(Result) /\ results' \in Seq(Result) /\ made \in Nat
      /\ DOMAIN results = 1..Len(results) /\ Len(results) \in Nat
      /\ k \in Nat /\ (k + d) - d = k /\ k + d \in 1..(Len(results) + 1)
  <2>1. results \in Seq(Result) /\ results' \in Seq(Result) /\ made \in Nat
    BY PipelineAssumption DEF OrderInv, TypeInv, TypeOK
  <2>2. k \in Nat /\ d \in Nat
    BY <2>1
  <2> QED BY <2>1, <2>2
<1>2. \A c : Said(file, editor, results, c, k + d) \subseteq Said(file', editor', results', c, k)
  <2>1. MovesOn(file, editor, results, file', editor', results', d)
    BY DEF Moves
  <2> QED BY <1>1, <2>1 DEF MovesOn
<1>3. x \in Result /\ ResultTrue(k + d)
  BY <1>1 DEF ResultsTrue
<1>4. ASSUME x.kind = "commit", x.c \in Due'
      PROVE  Words(0, x.from) \subseteq Said(file', editor', results', x.c, k)
  <2>1. x.c \in Due
    BY <1>4, FromHere DEF InStream, Stream, AllFit, Fits, Text, Onto
  <2> QED BY <1>2, <1>3, <1>4, <2>1 DEF ResultTrue, SaidTo
<1>5. ASSUME x.kind = "finished", x.c \in Due', x.outcome = "ok"
      PROVE  Words(0, captured'[x.c]) \subseteq Said(file', editor', results', x.c, k)
  <2>1. x.c \in Captures /\ x.c # mic /\ x.c <= made
    BY <1>3, <1>5, EndsElsewhere, ResultRead DEF ClosesElsewhere, Closes
  <2>2. x.c \in Due /\ captured'[x.c] = captured[x.c]
    BY <1>5, <2>1 DEF Onto, CapturedStays
  <2> QED BY <1>2, <1>3, <1>5, <2>2 DEF ResultTrue, SaidTo
<1> HIDE DEF x
<1>6. results'[k] = x
  BY DEF x
<1> QED BY <1>4, <1>5, <1>6 DEF ResultTrue, SaidTo

(* A final decode's capture stays released. *)
LifeStays == \A c \in Due' : c <= made /\ life[c] = "released" => life'[c] = "released"

LEMMA WorkTrueOn ==
  ASSUME OrderInv, TypeOK', MicOpen, WorkTrue, Onto, TextMoves, CapturedStays, LifeStays,
         \A k \in DOMAIN work' :
           \/ \E j \in DOMAIN work : work'[k] = work[j]
           \/ FinishWhole(work[k])' /\ StartSafe(work[k])'
  PROVE  WorkTrue'
<1> SUFFICES ASSUME NEW k \in DOMAIN work', NEW j \in DOMAIN work, work'[k] = work[j]
             PROVE  FinishWhole(work[k])' /\ StartSafe(work[k])'
  BY DEF WorkTrue
<1> DEFINE x == work[j]
<1>1. /\ x \in Job /\ TypeOK
      /\ FinishWhole(x) /\ StartSafe(x)
  BY DEF OrderInv, TypeInv, TypeOK, WorkTrue
<1>2. x.kind \in {"finish", "recording"} => x.c \in Captures /\ x.c # mic /\ x.c <= made
  BY <1>1, EndsElsewhere, JobRead DEF ClosesElsewhere, Closes, DecodeJob
<1> HIDE DEF x
<1>3. ASSUME x.kind = "finish", x.c \in Due'
      PROVE  x.end = captured'[x.c] /\ life'[x.c] = "released"
  BY <1>1, <1>2, <1>3 DEF FinishWhole, Onto, CapturedStays, LifeStays
<1>4. ASSUME x.kind = "recording", x.c \in Due'
      PROVE  Words(0, x.start) \subseteq Safe(file', editor', x.c)
  BY <1>1, <1>2, <1>4, SaysOn DEF StartSafe, Onto, SafeTo
<1>5. work'[k] = x
  BY DEF x
<1> QED BY <1>3, <1>4, <1>5 DEF FinishWhole, StartSafe, SafeTo

LEMMA JobTrueOn ==
  ASSUME OrderInv, TypeOK', MicOpen, JobTrue, Onto, CapturedStays, LifeStays,
         engine'.job = engine.job
  PROVE  JobTrue'
<1> DEFINE x == engine.job
<1>1. x.kind \in {"finish", "recording"} => x.c \in Captures
  BY JobRead DEF OrderInv, TypeInv, TypeOK, EngineState, DecodeJob
<1>2. x.kind \in {"finish", "recording"} => x.c # mic /\ x.c <= made
  BY <1>1, EndsElsewhere DEF ClosesElsewhere, Closes
<1>3. FinishWhole(x) /\ (x.kind = "recording" /\ x.c \in Due => x.end = captured[x.c])
  BY DEF JobTrue
<1> HIDE DEF x
<1>4. ASSUME x.kind = "finish", x.c \in Due'
      PROVE  x.end = captured'[x.c] /\ life'[x.c] = "released"
  BY <1>1, <1>2, <1>3, <1>4 DEF FinishWhole, Onto, CapturedStays, LifeStays
<1>5. ASSUME x.kind = "recording", x.c \in Due' PROVE x.end = captured'[x.c]
  BY <1>1, <1>2, <1>3, <1>5 DEF Onto, CapturedStays
<1>6. engine'.job = x
  BY DEF x
<1> QED BY <1>4, <1>5, <1>6 DEF JobTrue, FinishWhole

(* What is still to come of a capture, or is complete of it, stays so. *)
WaitMove(c) ==
  /\ trans'[c].stage \in {trans[c].stage, "kept", "retry"}
  /\ pc' # "down" => pc # "down"
  /\ Forsaken(c) => Forsaken(c)' \/ ToEnd(c)'
  /\ trans'[c].stage = "capturing" /\ Forsaken(c) => Forsaken(c)'
  /\ ToEnd(c) => ToEnd(c)'
  /\ wav[c] = Gone => wav'[c] = Gone
  /\ c # mic => c # mic'

LEMMA CompleteOn ==
  ASSUME TypeOK, TypeOK', TextMoves, CapturedStays, NEW c \in Captures, c <= made,
         c # mic => c # mic', Complete(c)
  PROVE  Complete(c)'
<1>1. c # mic /\ Words(0, captured[c]) \subseteq Safe(file, editor, c)
  BY DEF Complete, SafeTo
<1>2. c # mic' /\ captured'[c] = captured[c]
  BY <1>1 DEF CapturedStays
<1> QED BY <1>1, <1>2, SaysOn DEF Complete, SafeTo

LEMMA AccountedOn ==
  ASSUME TypeOK, TypeOK', AccountedFor, Onto, TextMoves, CapturedStays,
         \A c \in Due' : (c <= made /\ WaitMove(c)) \/ Accounted(c)'
  PROVE  AccountedFor'
<1> SUFFICES ASSUME NEW c \in Due', c <= made, WaitMove(c) PROVE Accounted(c)'
  BY DEF AccountedFor
<1>1. c \in Due /\ c \in Captures /\ Accounted(c)
  BY PipelineAssumption DEF AccountedFor, Onto, Due, TypeOK, Captures
<1>2. Complete(c) => Complete(c)'
  BY <1>1, CompleteOn DEF WaitMove
<1> QED BY <1>1, <1>2 DEF Accounted, WaitMove

LEMMA LeftBehindOn ==
  ASSUME TypeOK, TypeOK', LeftBehind, Onto, TextMoves, CapturedStays,
         pc' \in {"closing", "down"} =>
           /\ pc = pc'
           /\ \A c \in Due' : c <= made /\ WaitMove(c) /\ list'[c] = list[c],
         pc' = "down" =>
           mic = None /\ \A c \in Due' : wav'[c] = wav[c]
  PROVE  LeftBehind'
<1> SUFFICES ASSUME NEW c \in Due', pc' \in {"closing", "down"}
             PROVE  /\ pc' = "closing" /\ list'[c] = Gone => Complete(c)' \/ wav'[c] = Gone
                    /\ pc' = "down" => wav'[c] = captured'[c] /\ (list'[c] = Gone => Complete(c)')
  BY DEF LeftBehind
<1>1. c \in Due /\ c \in Captures /\ c <= made
  BY PipelineAssumption DEF Onto, Due, TypeOK, Captures
<1>2. Complete(c) => Complete(c)'
  BY <1>1, CompleteOn DEF WaitMove
<1>3. pc' = "down" => captured'[c] = captured[c]
  BY <1>1 DEF CapturedStays, None, Captures
<1> QED BY <1>1, <1>2, <1>3 DEF LeftBehind, WaitMove

-----------------------------------------------------------------------------
(* The threads' steps. *)

(* A step that gives up no capture and leaves the microphone and the disk. *)
LEMMA QuietCapture ==
  ASSUME LossHere, UNCHANGED <<pc, session, mic, captured, wav, life, made, lost, crashed>>
  PROVE  /\ CaptureInv' /\ Due' = Due /\ Onto /\ CapturedStays /\ LifeStays
         /\ \A c : Forsaken(c)' = Forsaken(c)
<1>1. Due' = Due /\ UnderWay' = UnderWay /\ \A c : Forsaken(c)' = Forsaken(c)
  BY DEF Due, UnderWay, Forsaken
<1>2. CaptureInv'
  BY <1>1 DEF LossHere, LossInv, CaptureInv, WavsWhole, MicOpen, Lives
<1>3. made \in Nat
  BY FromHere DEF LossHere
<1> QED BY <1>1, <1>2, <1>3 DEF Onto, CapturedStays, LifeStays

(* The inference thread reports; what was to end still is. *)
LEMMA ThreadLoss ==
  ASSUME LossHere, TypeOK', UNCHANGED engineOnly, Moves(0),
         \A c \in Captures : ToEnd(c) => ToEnd(c)',
         ProgressSafe', ResultsTrue', WorkTrue', JobTrue'
  PROVE  LossInv'
<1>1. /\ UNCHANGED <<pc, session, mic, captured, wav, life, made, lost, crashed>>
      /\ UNCHANGED <<trans, list, file, editor>>
  BY DEF engineOnly, loopVars, micVars, diskVars, modelVars
<1>2. /\ CaptureInv' /\ Due' = Due /\ Onto /\ CapturedStays /\ LifeStays
      /\ \A c : Forsaken(c)' = Forsaken(c)
  BY <1>1, QuietCapture
<1>3. TypeOK /\ TextMoves
  BY DEF LossHere, OrderInv, TypeInv, TextMoves
<1>4. EntriesSafe'
  <2>1. \A c \in Captures : trans'[c].stage # "none" =>
           trans[c].stage # "none" /\ trans'[c].through = trans[c].through
    BY <1>1
  <2> QED BY <1>2, <1>3, <2>1, EntriesSafeOn DEF LossHere, LossInv, TextInv
<1>5. ListSafe'
  BY <1>1, <1>2, <1>3, <1>4, ListSafeOn DEF LossHere, LossInv, TextInv
<1>6. \A c \in Due' : c <= made /\ WaitMove(c)
  <2>1. \A c \in Due' : c \in Captures /\ c <= made
    BY <1>2, <1>3, DueBegun
  <2> QED BY <1>1, <1>2, <2>1 DEF WaitMove
<1>7. AccountedFor'
  BY <1>2, <1>3, <1>6, AccountedOn DEF LossHere, LossInv
<1>8. LeftBehind'
  <2>1. pc = "down" => mic = None
    BY FromHere DEF LossHere, LossInv, CaptureInv, MicOpen, UnderWay, Attached
  <2> QED BY <1>1, <1>2, <1>3, <1>6, <2>1, LeftBehindOn DEF LossHere, LossInv
<1> QED BY <1>2, <1>4, <1>5, <1>7, <1>8 DEF LossInv, TextInv

LEMMA HereTyped ==
  LossHere =>
    /\ TypeOK /\ engine \in EngineState /\ made \in Nat
    /\ editor \in Seq(EditorWork) /\ results \in Seq(Result) /\ work \in Seq(Job)
    /\ EntriesSafe /\ ListSafe /\ ProgressSafe /\ ResultsTrue /\ WorkTrue /\ JobTrue
    /\ WavsWhole /\ MicOpen /\ Lives /\ AccountedFor /\ LeftBehind
    /\ Numbered /\ Attached /\ OrderInv
BY FromHere DEF LossHere, OrderInv, TypeInv, LossInv, TextInv, CaptureInv

(* The thread reports x. *)
LEMMA ReportedOne ==
  ASSUME LossHere, TypeOK', UNCHANGED engineOnly, NEW x, x \in Result,
         results' = Append(results, x)
  PROVE  /\ Moves(0)
         /\ \A c : AllSaid(file, editor, results, c) \cup TextOf(x, "commit", c)
                     = AllSaid(file', editor', results', c)
         /\ (x.kind = "commit" /\ x.c \in Due => ReportedTo(x.c, x.from))
            /\ (x.kind = "finished" /\ x.c \in Due /\ x.outcome = "ok"
                  => ReportedTo(x.c, captured[x.c]))
            => ResultsTrue'
<1>1. /\ UNCHANGED <<pc, session, mic, captured, wav, life, made, lost, crashed>>
      /\ UNCHANGED <<trans, list, file, editor>>
  BY DEF engineOnly, loopVars, micVars, diskVars, modelVars
<1>2. results \in Seq(Result) /\ OrderInv /\ MicOpen /\ ResultsTrue
  BY HereTyped
<1>3. /\ Len(results') = Len(results) + 1 /\ Len(results) \in Nat
      /\ \A k \in DOMAIN results' :
           \/ k \in DOMAIN results /\ results'[k] = results[k] /\ k + 0 = k
           \/ k = Len(results) + 1 /\ results'[k] = x
  BY <1>2
<1>4. /\ MovesOn(file, editor, results, file, editor, results', 0)
      /\ \A c : AllSaid(file, editor, results, c) \cup TextOf(x, "commit", c)
                  = AllSaid(file, editor, results', c)
  BY <1>2, MovesReported
<1>5. Moves(0)
  BY <1>1, <1>3, <1>4 DEF Moves
<1>6. ASSUME x.kind = "commit" /\ x.c \in Due => ReportedTo(x.c, x.from),
             x.kind = "finished" /\ x.c \in Due /\ x.outcome = "ok"
               => ReportedTo(x.c, captured[x.c])
      PROVE  ResultsTrue'
  <2>1. Due' = Due /\ Onto /\ CapturedStays
    BY <1>1, QuietCapture
  <2>2. \A c : AllSaid(file, editor, results, c) \subseteq Said(file, editor, results', c, Len(results) + 1)
    <3>1. Len(results) + 1 \in 1..(Len(results) + 1) /\ (Len(results) + 1) - 0 = Len(results) + 1
      BY <1>3
    <3> QED BY <1>4, <3>1 DEF MovesOn, AllSaid
  <2>3. ASSUME NEW k \in DOMAIN results', k = Len(results) + 1, results'[k] = x
        PROVE  ResultTrue(k)'
    BY <1>1, <1>6, <2>1, <2>2, <2>3 DEF ResultTrue, SaidTo, ReportedTo
  <2> QED BY <1>2, <1>3, <1>5, <2>1, <2>3, ResultsTrueOn
<1> QED BY <1>1, <1>4, <1>5, <1>6

(* What ends a capture is still there, or did. *)
LEMMA ToEndOn ==
  ASSUME \A k \in DOMAIN work : \/ \E j \in DOMAIN work' : work'[j] = work[k]
                                \/ \A c : Closes(work[k], c) => ToEnd(c)',
         engine'.job = engine.job \/ \A c : Closes(engine.job, c) => ToEnd(c)',
         \A k \in DOMAIN results : \/ \E j \in DOMAIN results' : results'[j] = results[k]
                                   \/ \A c : Closes(results[k], c) => ToEnd(c)'
  PROVE  \A c : ToEnd(c) => ToEnd(c)'
<1> TAKE c
<1>1. ASSUME NEW k \in DOMAIN work, Closes(work[k], c) PROVE ToEnd(c)'
  BY <1>1 DEF ToEnd
<1>2. ASSUME Closes(engine.job, c) PROVE ToEnd(c)'
  BY <1>2 DEF ToEnd
<1>3. ASSUME NEW k \in DOMAIN results, Closes(results[k], c) PROVE ToEnd(c)'
  BY <1>3 DEF ToEnd
<1> QED BY <1>1, <1>2, <1>3 DEF ToEnd

LEMMA LossLoad == LossHere /\ TypeOK' /\ Load => LossInv'
<1> SUFFICES ASSUME LossHere, TypeOK', Load PROVE LossInv' OBVIOUS
<1>1. PICK x \in {Event("ready"), Event("unavailable")} :
        results' = results \o <<Event("preparing"), x>>
  BY DEF Load, LoadSucceeds, LoadFails
<1>2. /\ UNCHANGED <<engineOnly, work>> /\ engine.phase = "loading"
      /\ \E phase \in {"idle", "failed"} : engine' = [engine EXCEPT !.phase = phase]
  BY DEF Load, LoadSucceeds, LoadFails
<1>3. /\ UNCHANGED <<pc, session, mic, captured, wav, life, made, lost, crashed, file, editor>>
  BY <1>2 DEF engineOnly, loopVars, micVars, diskVars, modelVars
<1>4. Due' = Due /\ Onto /\ CapturedStays /\ LifeStays
  BY <1>3, QuietCapture
<1> DEFINE longer == Append(results, Event("preparing"))
<1>5. /\ longer \in Seq(Result) /\ results' = Append(longer, x)
      /\ Len(longer) = Len(results) + 1 /\ Len(results') = Len(results) + 2 /\ Len(results) \in Nat
      /\ \A k \in DOMAIN results' : \/ k \in DOMAIN results /\ results'[k] = results[k] /\ k + 0 = k
                                    \/ results'[k] = Event("preparing")
                                    \/ results'[k] = x
      /\ \A k \in DOMAIN results : k \in DOMAIN results' /\ results'[k] = results[k]
  <2>1. Event("preparing") \in Result /\ x \in Result /\ results \in Seq(Result)
    BY ResultMade, HereTyped
  <2> QED BY <1>1, <2>1
<1> HIDE DEF longer
<1>6. MovesOn(file, editor, results, file, editor, results', 0)
  <2>1. /\ MovesOn(file, editor, results, file, editor, longer, 0)
        /\ MovesOn(file, editor, longer, file, editor, results', 0)
    BY <1>5, HereTyped, MovesReported DEF longer
  <2>2. \A k \in 1..(Len(results) + 1) : k - 0 = k /\ k \in 1..(Len(longer) + 1)
    BY <1>5
  <2> QED BY <2>1, <2>2 DEF MovesOn
<1>7. Moves(0) /\ TextMoves
  BY <1>3, <1>5, <1>6 DEF Moves, TextMoves
<1>8. ResultsTrue'
  <2>1. ASSUME NEW k \in DOMAIN results', results'[k] = Event("preparing") \/ results'[k] = x
        PROVE  ResultTrue(k)'
    BY <2>1 DEF ResultTrue, Event
  <2> QED BY <1>4, <1>5, <1>7, <2>1, HereTyped, ResultsTrueOn
<1>9. engine'.job = engine.job /\ engine'.phase # "busy"
      /\ engine'.id = engine.id /\ engine'.through = engine.through
  BY <1>2, HereTyped, JobLeft, ProgressLeft
<1>10. ProgressSafe' /\ JobTrue'
  BY <1>4, <1>7, <1>9, HereTyped, ProgressSafeOn, JobTrueOn
<1>11. WorkTrue'
  BY <1>2, <1>4, <1>7, HereTyped, WorkTrueOn
<1>12. \A c : ToEnd(c) => ToEnd(c)'
  BY <1>2, <1>5, <1>9, ToEndOn
<1> QED BY <1>2, <1>7, <1>8, <1>10, <1>11, <1>12, ThreadLoss

(* The thread takes work, which is decoded or answered. *)
LEMMA TakenLoss ==
  ASSUME LossHere, TypeOK', UNCHANGED engineOnly, engine.phase # "busy",
         work # <<>>, work' = Tail(work), Moves(0),
         \A k \in DOMAIN results : k \in DOMAIN results' /\ results'[k] = results[k],
         \A c : Closes(Head(work), c) => ToEnd(c)',
         ProgressSafe', ResultsTrue', JobTrue'
  PROVE  LossInv'
<1>1. UNCHANGED <<pc, session, mic, captured, wav, life, made, lost, crashed>>
  BY DEF engineOnly, loopVars, micVars, diskVars, modelVars
<1>2. Due' = Due /\ Onto /\ CapturedStays /\ LifeStays /\ TextMoves
  BY <1>1, QuietCapture DEF TextMoves
<1>3. /\ \A k \in DOMAIN work' : \E j \in DOMAIN work : work'[k] = work[j]
      /\ \A k \in DOMAIN work : work[k] = Head(work) \/ \E j \in DOMAIN work' : work'[j] = work[k]
  <2>1. /\ work \in Seq(Job) /\ Head(work) = work[1]
        /\ \A k \in DOMAIN work' : k + 1 \in DOMAIN work /\ work'[k] = work[k + 1]
        /\ \A k \in DOMAIN work : k \in Nat /\ (k # 1 => k - 1 \in DOMAIN work')
    BY HereTyped, TailOf
  <2>2. ASSUME NEW k \in DOMAIN work, k # 1
        PROVE  k - 1 \in DOMAIN work' /\ work'[k - 1] = work[k]
    BY <2>1, <2>2
  <2> QED BY <2>1, <2>2
<1>4. WorkTrue'
  BY <1>2, <1>3, HereTyped, WorkTrueOn
<1>5. \A c : ~Closes(engine.job, c)
  BY HereTyped DEF Numbered, NoJob, Closes
<1>6. \A c : ToEnd(c) => ToEnd(c)'
  <2>1. \A k \in DOMAIN work : \/ \E j \in DOMAIN work' : work'[j] = work[k]
                               \/ \A c : Closes(work[k], c) => ToEnd(c)'
    BY <1>3
  <2> QED BY <1>5, <2>1, ToEndOn
<1> QED BY <1>4, <1>6, ThreadLoss

(* The worker's offset in a capture, new or not, is reported. *)
LEMMA OffsetSafe ==
  LossHere => \A c \in Due : ReportedTo(c, Offset(engine.id, engine.through, c))
<1>1. Words(0, 0) = {}
  <2>1. \A i \in Speech : i \in Int /\ ~(0 < i /\ i <= 0)
    BY PipelineAssumption
  <2> QED BY <2>1 DEF Words
<1> QED BY <1>1, HereTyped DEF ProgressSafe, Offset, ReportedTo

(* The work taken is of a capture that was begun. *)
LEMMA TakenFits ==
  ASSUME LossHere, work # <<>>, Head(work).kind \in {"tick", "finish", "recording"}
  PROVE  /\ Head(work) \in DecodeJob /\ Head(work).c \in Captures /\ Head(work).c <= made
         /\ FinishWhole(Head(work)) /\ StartSafe(Head(work))
<1>1. 1 \in DOMAIN work /\ Head(work) = work[1] /\ Head(work) \in Job
  BY HereTyped
<1>2. Head(work) \in DecodeJob /\ Head(work).c \in Captures
  BY <1>1, JobRead DEF DecodeJob
<1>3. Head(work).c <= made
  BY <1>1, HereTyped DEF OrderInv, InStream, Stream, AllFit, Fits, Text
<1> QED BY <1>1, <1>2, <1>3, HereTyped DEF WorkTrue

LEMMA LossDropped == LossHere /\ TypeOK' /\ (TakeWhileFailed \/ TakeQuit) => LossInv'
<1> SUFFICES ASSUME LossHere, TypeOK', TakeWhileFailed \/ TakeQuit PROVE LossInv' OBVIOUS
<1>1. /\ UNCHANGED <<engineOnly, results>> /\ engine.phase # "busy"
      /\ work # <<>> /\ work' = Tail(work)
      /\ \E phase : phase # "busy" /\ engine' = [engine EXCEPT !.phase = phase]
  BY DEF TakeWhileFailed, TakeQuit, Take
<1>2. Head(work).kind \in {"load", "quit"}
  <2>1. 1 \in DOMAIN work /\ Head(work) = work[1]
    BY <1>1, HereTyped
  <2> QED BY <1>1, <2>1 DEF TakeWhileFailed, TakeQuit, Take, LossHere, NothingToDrop
<1>3. /\ UNCHANGED <<pc, session, mic, captured, wav, life, made, lost, crashed, file, editor>>
  BY <1>1 DEF engineOnly, loopVars, micVars, diskVars, modelVars
<1>4. Due' = Due /\ Onto /\ CapturedStays /\ LifeStays
  BY <1>3, QuietCapture
<1>5. Moves(0) /\ TextMoves
  BY <1>1, <1>3, MovesNot, HereTyped DEF Moves, TextMoves
<1>6. engine'.job = engine.job /\ engine'.phase # "busy"
      /\ engine'.id = engine.id /\ engine'.through = engine.through
  BY <1>1, HereTyped, JobLeft, ProgressLeft
<1>7. ProgressSafe' /\ JobTrue'
  BY <1>4, <1>5, <1>6, HereTyped, ProgressSafeOn, JobTrueOn
<1>8. ResultsTrue'
  <2>1. \A k \in DOMAIN results' : k + 0 \in DOMAIN results /\ results'[k] = results[k + 0]
    BY <1>1, HereTyped
  <2> QED BY <1>4, <1>5, <2>1, HereTyped, ResultsTrueOn
<1>9. \A c : ~Closes(Head(work), c)
  BY <1>2 DEF Closes
<1> QED BY <1>1, <1>5, <1>7, <1>8, <1>9, TakenLoss

(* Answered at once: a tick too late, or what cannot be decoded. *)
LEMMA LossAnswered ==
  ASSUME LossHere, TypeOK', UNCHANGED engineOnly, engine.phase = "idle",
         work # <<>>, work' = Tail(work), Head(work).kind \in {"tick", "finish", "recording"},
         engine' \in {engine, Begun(engine, Head(work).c)},
         NEW x, x \in Result, results' = Append(results, x),
         x.kind = IF Head(work).kind = "tick" THEN "tick" ELSE "finished",
         x.kind = "finished" => x.outcome # "ok" /\ x.c = Head(work).c
  PROVE  LossInv'
<1>1. /\ Moves(0) /\ ResultsTrue'
      /\ \A c : AllSaid(file, editor, results, c) \subseteq AllSaid(file', editor', results', c)
  BY ReportedOne
<1>2. UNCHANGED <<pc, session, mic, captured, wav, life, made, lost, crashed>>
  BY DEF engineOnly, loopVars, micVars, diskVars, modelVars
<1>3. Due' = Due /\ Onto /\ CapturedStays /\ LifeStays
  BY <1>2, QuietCapture
<1>4. Head(work).c \in Captures /\ Head(work).c <= made
  BY TakenFits
<1>5. /\ engine'.job = engine.job /\ engine'.phase = "idle"
      /\ \/ engine'.id = engine.id /\ engine'.through = engine.through
         \/ /\ engine'.id = Head(work).c
            /\ engine'.through = Offset(engine.id, engine.through, Head(work).c)
  BY HereTyped, JobLeft, ProgressLeft
<1>6. ProgressSafe'
  <2>1. \A c \in Due : Words(0, Offset(engine.id, engine.through, c))
                         \subseteq AllSaid(file', editor', results', c)
    BY <1>1, OffsetSafe DEF ReportedTo
  <2> QED BY <1>1, <1>2, <1>3, <1>4, <1>5, <2>1, HereTyped DEF ProgressSafe, ReportedTo
<1>7. JobTrue'
  BY <1>3, <1>5, HereTyped, JobTrueOn
<1>8. /\ \A k \in DOMAIN results : k \in DOMAIN results' /\ results'[k] = results[k]
      /\ \E k \in DOMAIN results' : results'[k] = x
  <2>1. results \in Seq(Result)
    BY HereTyped
  <2>2. Len(results) + 1 \in DOMAIN results' /\ results'[Len(results) + 1] = x
    BY <2>1
  <2> QED BY <2>1, <2>2
<1>9. \A c : Closes(Head(work), c) => ToEnd(c)'
  BY <1>8 DEF Closes, ToEnd
<1> QED BY <1>1, <1>6, <1>7, <1>8, <1>9, TakenLoss

(* Or decoded, all of it that is there. *)
LEMMA LossTaken ==
  ASSUME LossHere, TypeOK', UNCHANGED engineOnly, engine.phase = "idle",
         work # <<>>, work' = Tail(work), Head(work).kind \in {"tick", "finish", "recording"},
         results' = results, engine'.phase = "busy",
         NEW job, engine'.job = job, job.kind = Head(work).kind, job.c = Head(work).c,
         engine'.id = job.c, engine'.at = engine'.through,
         job.c \in Due => ReportedTo(job.c, engine'.through),
         FinishWhole(job),
         job.kind = "recording" /\ job.c \in Due => job.end = captured[job.c]
  PROVE  LossInv'
<1>1. UNCHANGED <<pc, session, mic, captured, wav, life, made, lost, crashed, file, editor>>
  BY DEF engineOnly, loopVars, micVars, diskVars, modelVars
<1>2. Due' = Due /\ Onto /\ CapturedStays /\ LifeStays
  BY <1>1, QuietCapture
<1>3. Moves(0)
  BY <1>1, MovesNot, HereTyped DEF Moves
<1>4. ResultsTrue'
  <2>1. \A k \in DOMAIN results' : k + 0 \in DOMAIN results /\ results'[k] = results[k + 0]
    BY HereTyped
  <2> QED BY <1>2, <1>3, <2>1, HereTyped, ResultsTrueOn
<1>5. ProgressSafe'
  <2>1. job.c <= made
    BY TakenFits
  <2> QED BY <1>1, <1>2, <2>1 DEF ProgressSafe, ReportedTo
<1>6. JobTrue'
  BY <1>1, <1>2 DEF JobTrue, FinishWhole
<1>7. \A c : Closes(Head(work), c) => ToEnd(c)'
  BY DEF Closes, ToEnd
<1> QED BY <1>3, <1>4, <1>5, <1>6, <1>7, TakenLoss

LEMMA LossTakeWork == LossHere /\ TypeOK' /\ TakeWork => LossInv'
<1> SUFFICES ASSUME LossHere, TypeOK', TakeWork PROVE LossInv' OBVIOUS
<1>1. CASE TakeWhileFailed \/ TakeQuit
  BY <1>1, LossDropped
<1> DEFINE job == Head(work)
<1>2. ASSUME TakeTick \/ TakeFinish \/ TakeRecording
      PROVE  /\ UNCHANGED engineOnly /\ engine.phase = "idle" /\ work # <<>> /\ work' = Tail(work)
             /\ job.kind \in {"tick", "finish", "recording"}
             /\ job \in DecodeJob /\ job.c \in Captures /\ job.c <= made
             /\ FinishWhole(job) /\ StartSafe(job)
             /\ job.c \in Due => ReportedTo(job.c, Offset(engine.id, engine.through, job.c))
  <2>1. /\ UNCHANGED engineOnly /\ engine.phase = "idle" /\ work # <<>> /\ work' = Tail(work)
        /\ job.kind \in {"tick", "finish", "recording"}
    BY <1>2 DEF TakeTick, TakeFinish, TakeRecording, Take
  <2>2. /\ job \in DecodeJob /\ job.c \in Captures /\ job.c <= made
        /\ FinishWhole(job) /\ StartSafe(job)
    BY <2>1, TakenFits
  <2> QED BY <2>1, <2>2, OffsetSafe
<1>3. CASE TakeTick
  <2>1. job.kind = "tick" /\ TickDone(job.c) \in Result
    BY <1>2, <1>3, ResultMade DEF TakeTick, Take
  <2>2. \/ results' = Append(results, TickDone(job.c)) /\ engine' \in {engine, Begun(engine, job.c)}
        \/ /\ engine' = Busy(Begun(engine, job.c), job, Begun(engine, job.c).through)
           /\ results' = results
    BY <1>3 DEF TakeTick
  <2>3. CASE results' = Append(results, TickDone(job.c)) /\ engine' \in {engine, Begun(engine, job.c)}
    BY <1>2, <1>3, <2>1, <2>3, LossAnswered DEF TickDone
  <2>4. CASE /\ engine' = Busy(Begun(engine, job.c), job, Begun(engine, job.c).through)
             /\ results' = results
    <3>1. /\ engine'.phase = "busy" /\ engine'.job = job /\ engine'.id = job.c
          /\ engine'.at = engine'.through
          /\ engine'.through = Offset(engine.id, engine.through, job.c)
      BY <2>4, HereTyped, JobLeft, ProgressLeft
    <3> HIDE DEF job
    <3> QED BY <1>2, <1>3, <2>1, <2>4, <3>1, LossTaken DEF job
  <2> QED BY <2>2, <2>3, <2>4
<1>4. CASE TakeFinish
  <2>1. job.kind = "finish" /\ Finished(job.c, "failed") \in Result
    BY <1>2, <1>4, ResultMade DEF TakeFinish, Take
  <2>2. \/ results' = Append(results, Finished(job.c, "failed")) /\ engine' = Begun(engine, job.c)
        \/ /\ engine' = Busy(Begun(engine, job.c), job, Begun(engine, job.c).through)
           /\ results' = results
    BY <1>4 DEF TakeFinish
  <2>3. CASE results' = Append(results, Finished(job.c, "failed")) /\ engine' = Begun(engine, job.c)
    BY <1>2, <1>4, <2>1, <2>3, LossAnswered DEF Finished
  <2>4. CASE /\ engine' = Busy(Begun(engine, job.c), job, Begun(engine, job.c).through)
             /\ results' = results
    <3>1. /\ engine'.phase = "busy" /\ engine'.job = job /\ engine'.id = job.c
          /\ engine'.at = engine'.through
          /\ engine'.through = Offset(engine.id, engine.through, job.c)
      BY <2>4, HereTyped, JobLeft, ProgressLeft
    <3> HIDE DEF job
    <3> QED BY <1>2, <1>4, <2>1, <2>4, <3>1, LossTaken DEF job
  <2> QED BY <2>2, <2>3, <2>4
<1>5. CASE TakeRecording
  <2> DEFINE whole == [job EXCEPT !.end = wav[job.c]]
  <2>1. /\ job.kind = "recording"
        /\ Finished(job.c, "failed") \in Result /\ Finished(job.c, "short") \in Result
    BY <1>2, <1>5, ResultMade DEF TakeRecording, Take
  <2>2. \/ /\ results' \in {Append(results, Finished(job.c, "failed")),
                             Append(results, Finished(job.c, "short"))}
           /\ engine' = engine
        \/ /\ wav[job.c] # Gone /\ results' = results
           /\ engine' = Busy(Resumed(engine, job.c, job.start), whole, job.start)
    <3>1. CASE wav[job.c] = Gone
      BY <1>5, <3>1 DEF TakeRecording
    <3>2. CASE wav[job.c] # Gone
      BY <1>5, <3>2 DEF TakeRecording
    <3> QED BY <3>1, <3>2
  <2>3. CASE /\ results' \in {Append(results, Finished(job.c, "failed")),
                             Append(results, Finished(job.c, "short"))}
             /\ engine' = engine
    BY <1>2, <1>5, <2>1, <2>3, LossAnswered DEF Finished
  <2>4. CASE /\ wav[job.c] # Gone /\ results' = results
             /\ engine' = Busy(Resumed(engine, job.c, job.start), whole, job.start)
    <3>1. /\ whole.kind = "recording" /\ whole.c = job.c
          /\ whole.end = wav[job.c]
      BY <1>2, <1>5, <2>1 DEF DecodeJob
    <3>2. job.c \in Due => whole.end = captured[whole.c]
      BY <2>4, <3>1, HereTyped DEF WavsWhole
    <3> HIDE DEF whole
    <3>3. /\ engine'.phase = "busy" /\ engine'.job = whole /\ engine'.id = job.c
          /\ engine'.at = job.start /\ engine'.through = job.start
      BY <2>4, HereTyped, JobLeft, ProgressLeft
    <3>4. job.c \in Due => ReportedTo(job.c, engine'.through)
      BY <1>2, <1>5, <2>1, <3>3 DEF StartSafe, SafeTo, ReportedTo, AllSaid, Said
    <3>5. FinishWhole(whole)
      BY <3>1 DEF FinishWhole
    <3> HIDE DEF job
    <3> QED BY <1>2, <1>5, <2>1, <2>4, <3>1, <3>2, <3>3, <3>4, <3>5, LossTaken DEF job
  <2> QED BY <2>2, <2>3, <2>4
<1> QED BY <1>1, <1>3, <1>4, <1>5 DEF TakeWork

-----------------------------------------------------------------------------
(* Decoding. *)

LEMMA Decoding ==
  ASSUME LossHere, Decode
  PROVE  /\ UNCHANGED <<engineOnly, work>> /\ engine.phase = "busy"
         /\ engine.job \in DecodeJob /\ engine.job.c \in Captures /\ engine.job.c <= made
         /\ engine.id = engine.job.c
         /\ engine.job.c \in Due => ReportedTo(engine.job.c, engine.at)
<1>1. UNCHANGED <<engineOnly, work>> /\ engine.phase = "busy"
  BY DEF Decode, DecodeSegment, CommitSilence, CommitSegment, JobDone, JobFails, JobEnded, Deciding
<1>2. engine.job \in DecodeJob /\ engine.job.c \in Captures
  BY <1>1, HereTyped DEF Attached, DecodeJob
<1>3. engine.job.c <= made
  BY <1>2, HereTyped DEF OrderInv, InStream, Stream, Fits, Text, DecodeJob
<1> QED BY <1>1, <1>2, <1>3, HereTyped DEF ProgressSafe

LEMMA LossSegment == LossHere /\ TypeOK' /\ (\E e \in 1..MaxFrames : DecodeSegment(e)) => LossInv'
<1> SUFFICES ASSUME LossHere, TypeOK', NEW e \in 1..MaxFrames, DecodeSegment(e) PROVE LossInv'
  OBVIOUS
<1>1. /\ UNCHANGED <<engineOnly, work>> /\ engine.phase = "busy" /\ results' = results
      /\ engine' = [engine EXCEPT !.segment = e]
  BY Decoding DEF Decode, DecodeSegment
<1>2. UNCHANGED <<pc, session, mic, captured, wav, life, made, lost, crashed, file, editor>>
  BY <1>1 DEF engineOnly, loopVars, micVars, diskVars, modelVars
<1>3. Due' = Due /\ Onto /\ CapturedStays /\ LifeStays
  BY <1>2, QuietCapture
<1>4. Moves(0) /\ TextMoves
  BY <1>1, <1>2, MovesNot, HereTyped DEF Moves, TextMoves
<1>5. engine'.job = engine.job /\ engine'.id = engine.id /\ engine'.through = engine.through
      /\ engine'.at = engine.at
  BY <1>1, HereTyped DEF EngineState
<1>6. ProgressSafe' /\ JobTrue'
  BY <1>1, <1>3, <1>4, <1>5, HereTyped, ProgressSafeOn, JobTrueOn
<1>7. ResultsTrue'
  <2>1. \A k \in DOMAIN results' : k + 0 \in DOMAIN results /\ results'[k] = results[k + 0]
    BY <1>1, HereTyped
  <2> QED BY <1>3, <1>4, <2>1, HereTyped, ResultsTrueOn
<1>8. WorkTrue'
  BY <1>1, <1>3, <1>4, HereTyped, WorkTrueOn
<1>9. \A c : ToEnd(c) => ToEnd(c)'
  BY <1>1, <1>5, ToEndOn
<1> QED BY <1>1, <1>4, <1>6, <1>7, <1>8, <1>9, ThreadLoss

(* The thread reports x, and is or is not done with its job. *)
LEMMA ReportedLoss ==
  ASSUME LossHere, TypeOK', UNCHANGED <<engineOnly, work>>,
         NEW x, x \in Result, results' = Append(results, x),
         engine'.job = engine.job \/ \A c : Closes(engine.job, c) => Closes(x, c),
         x.kind = "commit" /\ x.c \in Due => ReportedTo(x.c, x.from),
         x.kind = "finished" /\ x.c \in Due /\ x.outcome = "ok" => ReportedTo(x.c, captured[x.c]),
         ProgressSafe', JobTrue'
  PROVE  LossInv'
<1>1. Moves(0) /\ TextMoves /\ ResultsTrue'
  BY ReportedOne DEF TextMoves
<1>2. UNCHANGED <<pc, session, mic, captured, wav, life, made, lost, crashed>>
  BY DEF engineOnly, loopVars, micVars, diskVars, modelVars
<1>3. Due' = Due /\ Onto /\ CapturedStays /\ LifeStays
  BY <1>2, QuietCapture
<1>4. WorkTrue'
  BY <1>1, <1>3, HereTyped, WorkTrueOn
<1>5. /\ \A k \in DOMAIN results : k \in DOMAIN results' /\ results'[k] = results[k]
      /\ \E k \in DOMAIN results' : results'[k] = x
  <2>1. results \in Seq(Result)
    BY HereTyped
  <2>2. Len(results) + 1 \in DOMAIN results' /\ results'[Len(results) + 1] = x
    BY <2>1
  <2> QED BY <2>1, <2>2
<1>6. \A c : Closes(x, c) => ToEnd(c)'
  BY <1>5 DEF ToEnd
<1>7. \A c : ToEnd(c) => ToEnd(c)'
  BY <1>5, <1>6, ToEndOn
<1> QED BY <1>1, <1>4, <1>7, ThreadLoss

(* Text up to a frame, and from it. *)
LEMMA WordsJoin ==
  ASSUME NEW i \in Frames, NEW j \in Frames
  PROVE  Words(0, j) \subseteq Words(0, i) \cup Words(i, j)
<1>1. i \in Int /\ j \in Int /\ \A w \in Speech : w \in Int
  BY PipelineAssumption DEF Frames
<1> SUFFICES ASSUME NEW w \in Words(0, j) PROVE w \in Words(0, i) \cup Words(i, j)
  OBVIOUS
<1>2. w \in Speech /\ w \in Int /\ 0 < w /\ w <= j
  BY <1>1 DEF Words
<1>3. w <= i \/ i < w
  BY <1>1, <1>2
<1> QED BY <1>2, <1>3 DEF Words

LEMMA LossCommit ==
  LossHere /\ TypeOK' /\ (CommitSegment \/ \E e \in 1..MaxFrames : CommitSilence(e)) => LossInv'
<1> SUFFICES ASSUME LossHere, TypeOK', CommitSegment \/ \E e \in 1..MaxFrames : CommitSilence(e)
             PROVE  LossInv'
  OBVIOUS
<1> DEFINE job == engine.job
<1>1. /\ UNCHANGED <<engineOnly, work>> /\ engine.phase = "busy"
      /\ job \in DecodeJob /\ job.c \in Captures /\ job.c <= made /\ engine.id = job.c
      /\ job.c \in Due => ReportedTo(job.c, engine.at)
  BY Decoding DEF Decode
<1>2. PICK n \in Frames : /\ engine' = CommitThrough(engine, n)
                          /\ results' = Append(results, Commit(job.c, engine.at, n))
  <2>1. engine.segment \in Frames /\ 1..MaxFrames \subseteq Frames
    BY HereTyped, PipelineAssumption DEF EngineState, Frames
  <2> QED BY <2>1 DEF CommitSegment, CommitSilence
<1>3. engine.at \in Frames
  BY HereTyped DEF EngineState
<1> DEFINE x == Commit(job.c, engine.at, n)
<1>4. x \in Result /\ x.kind = "commit" /\ x.c = job.c /\ x.from = engine.at /\ x.through = n
  BY <1>1, <1>3, ResultMade DEF Commit
<1>5. /\ engine'.job = job /\ engine'.phase = "busy"
      /\ engine'.id = engine.id /\ engine'.at = n
      /\ engine'.through \in {engine.through, n}
  BY <1>1, <1>2, HereTyped, JobLeft, ProgressLeft
<1> HIDE DEF x, job
<1>6. results' = Append(results, x)
  BY <1>2 DEF x
<1>7. UNCHANGED <<pc, session, mic, captured, wav, life, made, lost, crashed>>
  BY <1>1 DEF engineOnly, loopVars, micVars, diskVars, modelVars
<1>8. Due' = Due /\ Onto /\ CapturedStays /\ LifeStays
  BY <1>7, QuietCapture
<1>9. \A c : AllSaid(file, editor, results, c) \cup TextOf(x, "commit", c)
              = AllSaid(file', editor', results', c)
  BY <1>1, <1>4, <1>6, ReportedOne
<1>10. job.c \in Due => Words(0, n) \subseteq AllSaid(file', editor', results', job.c)
  BY <1>1, <1>3, <1>4, <1>9, WordsJoin DEF TextOf, ReportedTo
<1>11. engine.id \in Due => Words(0, engine.through) \subseteq AllSaid(file', editor', results', engine.id)
  BY <1>9, HereTyped DEF ProgressSafe, ReportedTo
<1>12. ProgressSafe'
  BY <1>1, <1>5, <1>7, <1>8, <1>10, <1>11 DEF ProgressSafe, ReportedTo
<1>13. JobTrue'
  BY <1>5, <1>8, HereTyped, JobTrueOn DEF job
<1> QED BY <1>1, <1>4, <1>5, <1>6, <1>12, <1>13, ReportedLoss DEF job

(* The end of a decode, or its failure. *)
LEMMA LossEnded == LossHere /\ TypeOK' /\ (JobDone \/ JobFails) => LossInv'
<1> SUFFICES ASSUME LossHere, TypeOK', JobDone \/ JobFails PROVE LossInv'
  OBVIOUS
<1> DEFINE job == engine.job
<1>1. /\ UNCHANGED <<engineOnly, work>> /\ engine.phase = "busy"
      /\ job \in DecodeJob /\ job.c \in Captures /\ job.c <= made /\ engine.id = job.c
      /\ job.c \in Due => ReportedTo(job.c, engine.at)
  BY Decoding DEF Decode
<1>2. PICK o \in {"ok", "failed"} : /\ results' = Append(results, Outcome(job, o))
                                    /\ o = "ok" => JobEnded
  BY DEF JobDone, JobFails
<1>3. engine' \in {Rest(engine), Rest(ResetProgress(engine))}
  BY DEF JobDone, JobFails, JobEnded
<1>4. /\ engine'.job = NoJob /\ engine'.phase # "busy"
      /\ \/ engine'.id = engine.id /\ engine'.through = engine.through
         \/ engine'.id = None
  <2>1. Rest(engine).phase = "idle" /\ Rest(ResetProgress(engine)).phase = "idle"
        /\ Rest(ResetProgress(engine)).id = None
    BY HereTyped DEF Rest, ResetProgress, EngineState
  <2> QED BY <1>3, <2>1, HereTyped, JobLeft, ProgressLeft
<1> DEFINE x == Outcome(job, o)
<1>5. /\ x \in Result /\ x.kind # "commit"
      /\ job.kind \in {"finish", "recording"} => x.kind = "finished" /\ x.c = job.c
      /\ x.kind = "finished" => job.kind \in {"finish", "recording"} /\ x.c = job.c /\ x.outcome = o
  BY <1>1, ResultMade DEF Outcome, TickDone, Finished, DecodeJob
<1>6. ASSUME x.kind = "finished", x.c \in Due, x.outcome = "ok"
      PROVE  ReportedTo(x.c, captured[x.c])
  <2>1. /\ x.c = job.c /\ job.kind \in {"finish", "recording"} /\ JobEnded
        /\ job.c \in Due
    BY <1>2, <1>5, <1>6
  <2>2. job.end = captured[job.c] /\ (job.kind = "finish" => life[job.c] = "released")
    BY <2>1, HereTyped DEF JobTrue, FinishWhole
  <2>3. ~StopsBefore(job) /\ ~StopsAfter(job)
    BY <2>1, <2>2 DEF StopsBefore, StopsAfter
  <2>4. Words(engine.at, job.end) = {}
    BY <2>1, <2>3 DEF JobEnded
  <2>5. engine.at \in Frames /\ job.end \in Frames
    BY <1>1, HereTyped DEF EngineState, DecodeJob
  <2> QED BY <1>1, <2>1, <2>2, <2>4, <2>5, WordsJoin DEF ReportedTo
<1>7. \A c : Closes(job, c) => Closes(x, c)
  BY <1>1, <1>5 DEF Closes, DecodeJob
<1> HIDE DEF x
<1>8. results' = Append(results, x)
  BY <1>2 DEF x
<1>9. UNCHANGED <<pc, session, mic, captured, wav, life, made, lost, crashed>>
  BY <1>1 DEF engineOnly, loopVars, micVars, diskVars, modelVars
<1>10. Due' = Due /\ Onto /\ TextMoves
  BY <1>1, <1>5, <1>8, <1>9, QuietCapture, ReportedOne DEF TextMoves
<1>11. ProgressSafe'
  BY <1>4, <1>10, HereTyped, ProgressSafeOn
<1>12. JobTrue'
  BY <1>4 DEF JobTrue, FinishWhole, NoJob
<1> QED BY <1>1, <1>5, <1>6, <1>7, <1>8, <1>11, <1>12, ReportedLoss DEF job

LEMMA LossEngine == LossHere /\ TypeOK' /\ Engine => LossInv'
BY LossLoad, LossTakeWork, LossSegment, LossCommit, LossEnded DEF Engine, Decode

-----------------------------------------------------------------------------
(* The microphone and the disk, the editor thread, and the loop: what leaves
   the inference thread alone. *)

LEMMA LoopLoss ==
  ASSUME LossHere, TypeOK', engine' = engine, Onto, CapturedStays, LifeStays,
         NEW d, d \in {0, 1}, Moves(d),
         \A k \in DOMAIN results' :
           \/ k + d \in DOMAIN results /\ results'[k] = results[k + d]
           \/ ResultTrue(k)',
         \A k \in DOMAIN work' :
           \/ \E j \in DOMAIN work : work'[k] = work[j]
           \/ FinishWhole(work[k])' /\ StartSafe(work[k])',
         EntriesSafe',
         \A c \in Captures : list'[c] # Gone =>
           \/ list'[c] = list[c]
           \/ trans'[c].stage # "none" /\ list'[c] = trans'[c].through,
         CaptureInv',
         \A c \in Due' : (c <= made /\ WaitMove(c)) \/ Accounted(c)',
         LeftBehind'
  PROVE  LossInv'
<1>1. TextMoves
  BY DEF TextMoves
<1>2. ListSafe'
  BY <1>1, HereTyped, ListSafeOn
<1>3. ProgressSafe' /\ JobTrue'
  BY <1>1, HereTyped, ProgressSafeOn, JobTrueOn
<1>4. ResultsTrue'
  BY HereTyped, ResultsTrueOn
<1>5. WorkTrue'
  BY <1>1, HereTyped, WorkTrueOn
<1>6. AccountedFor'
  BY <1>1, HereTyped, AccountedOn
<1> QED BY <1>2, <1>3, <1>4, <1>5, <1>6 DEF LossInv, TextInv

LEMMA LossRecorder == LossHere /\ TypeOK' /\ Recorder => LossInv'
<1> SUFFICES ASSUME LossHere, TypeOK', Recorder PROVE LossInv' OBVIOUS
<1>1. /\ UNCHANGED <<pc, session, trans, mic, list, file, life, engine, work, results, editor,
                     made, crashed>>
      /\ lost \subseteq lost'
  BY DEF Recorder, AudioArrives, Prune, CutShort, loopVars, micVars, modelVars
<1>2. /\ Due' \subseteq Due /\ made \in Nat
      /\ \A c \in Due' : c \in Captures /\ c <= made
  BY <1>1, HereTyped, DueBegun DEF Due
<1>3. pc = "down" => mic = None
  BY HereTyped DEF MicOpen, UnderWay, Attached
<1>4. /\ CapturedStays
      /\ \A c \in Due' : /\ wav[c] = Gone => wav'[c] = Gone
                         /\ wav'[c] \in {Gone, captured'[c]}
                         /\ pc = "down" => wav'[c] = wav[c]
  <2>1. /\ captured \in [Captures -> Frames] /\ wav \in [Captures -> Frames \cup {Gone}]
        /\ mic \in Captures \cup {None} /\ None \notin Captures
        /\ \A c \in Due' : wav[c] \in {Gone, captured[c]} /\ c \in Captures
        /\ Gone \notin Frames
    <3>1. None \notin Captures /\ Gone \notin Frames
      BY DEF Captures, None, Frames, Gone
    <3> QED BY <1>2, <3>1, HereTyped DEF WavsWhole, TypeOK
  <2>2. CASE AudioArrives
    <3>1. /\ mic \in Captures /\ pc # "down"
          /\ captured' = [captured EXCEPT ![mic] = @ + 1]
          /\ wav' = [wav EXCEPT ![mic] = IF @ = Gone THEN Gone ELSE @ + 1]
      BY <1>3, <2>1, <2>2 DEF AudioArrives
    <3>2. /\ \A c \in Captures : c # mic => captured'[c] = captured[c] /\ wav'[c] = wav[c]
          /\ captured'[mic] = captured[mic] + 1
          /\ wav'[mic] = IF wav[mic] = Gone THEN Gone ELSE wav[mic] + 1
      BY <2>1, <3>1
    <3> QED BY <2>1, <3>1, <3>2 DEF CapturedStays
  <2>3. CASE Prune
    <3>1. /\ mic # None /\ pc # "down" /\ captured' = captured
          /\ \E c : wav' = [wav EXCEPT ![c] = Gone]
      BY <1>3, <2>3 DEF Prune, micVars
    <3>2. \A c \in Captures : wav'[c] \in {Gone, wav[c]}
      BY <2>1, <3>1
    <3> QED BY <2>1, <3>1, <3>2 DEF CapturedStays
  <2>4. ASSUME NEW d \in Captures, CutShort(d)
        PROVE  CapturedStays /\ \A c \in Due' : wav'[c] = wav[c] /\ captured' = captured
    <3>1. captured' = captured /\ d \in lost' /\ wav' = [wav EXCEPT ![d] = @ - 1]
      BY <2>4 DEF CutShort, micVars
    <3>2. d \notin Due'
      BY <3>1 DEF Due
    <3> QED BY <2>1, <3>1, <3>2 DEF CapturedStays
  <2> QED BY <2>1, <2>2, <2>3, <2>4 DEF Recorder
<1>5. Onto /\ LifeStays
  BY <1>1, <1>2 DEF Onto, LifeStays
<1>6. Moves(0) /\ TextMoves
  BY <1>1, MovesNot, HereTyped DEF Moves, TextMoves
<1>7. EntriesSafe'
  BY <1>1, <1>5, <1>6, HereTyped, EntriesSafeOn
<1>8. UnderWay' = UnderWay /\ \A c : Forsaken(c)' = Forsaken(c) /\ ToEnd(c)' = ToEnd(c)
  BY <1>1 DEF UnderWay, Forsaken, ToEnd
<1>9. CaptureInv'
  BY <1>1, <1>2, <1>4, <1>8, HereTyped DEF CaptureInv, WavsWhole, MicOpen, Lives
<1>10. \A c \in Due' : c <= made /\ WaitMove(c)
  BY <1>1, <1>2, <1>4, <1>8 DEF WaitMove
<1>11. LeftBehind'
  BY <1>1, <1>3, <1>4, <1>5, <1>6, <1>10, HereTyped, LeftBehindOn
<1>12. /\ \A k \in DOMAIN results' : k + 0 \in DOMAIN results /\ results'[k] = results[k + 0]
       /\ \A k \in DOMAIN work' : \E j \in DOMAIN work : work'[k] = work[j]
  BY <1>1, HereTyped
<1> QED BY <1>1, <1>4, <1>5, <1>6, <1>7, <1>9, <1>10, <1>11, <1>12, LoopLoss

LEMMA LossEditor == LossHere /\ TypeOK' /\ Editor => LossInv'
<1> SUFFICES ASSUME LossHere, TypeOK', Editor PROVE LossInv' OBVIOUS
<1>1. /\ UNCHANGED <<pc, session, trans, mic, captured, wav, list, life, engine, work, results,
                     made, lost, crashed>>
      /\ editing /\ editor # <<>> /\ editor' = Tail(editor)
  BY DEF Editor, WriteText, CopyText, EditorQuits, loopVars, micVars, diskVars, modelVars
<1>2. /\ CaptureInv' /\ Due' = Due /\ Onto /\ CapturedStays /\ LifeStays
      /\ \A c : Forsaken(c)' = Forsaken(c)
  BY <1>1, QuietCapture
<1>3. Moves(0) /\ TextMoves
  <2>1. \/ Head(editor).kind # "append" /\ file' = file
        \/ file' = Append(file, [c |-> Head(editor).c, from |-> Head(editor).from,
                                 through |-> Head(editor).through])
    BY DEF Editor, WriteText, CopyText, EditorQuits
  <2>2. /\ file \in Seq([c : Captures, from : Frames, through : Frames])
        /\ editor \in Seq(EditorWork) /\ results \in Seq(Result)
    BY HereTyped DEF TypeOK
  <2>3. MovesOn(file, editor, results, file', Tail(editor), results, 0)
    BY <1>1, <2>1, <2>2, MovesWritten
  <2> QED BY <1>1, <2>2, <2>3 DEF Moves, TextMoves
<1>4. EntriesSafe'
  BY <1>1, <1>2, <1>3, HereTyped, EntriesSafeOn
<1>5. \A c : ToEnd(c)' = ToEnd(c)
  BY <1>1 DEF ToEnd
<1>6. \A c \in Due' : c <= made /\ WaitMove(c)
  BY <1>1, <1>2, <1>5, HereTyped, DueBegun DEF WaitMove
<1>7. pc # "down"
  BY <1>1, FromHere DEF LossHere, Emptied
<1>8. LeftBehind'
  BY <1>1, <1>2, <1>3, <1>6, <1>7, HereTyped, LeftBehindOn
<1>9. /\ \A k \in DOMAIN results' : k + 0 \in DOMAIN results /\ results'[k] = results[k + 0]
      /\ \A k \in DOMAIN work' : \E j \in DOMAIN work : work'[k] = work[j]
  BY <1>1, HereTyped
<1> QED BY <1>1, <1>2, <1>3, <1>4, <1>6, <1>8, <1>9, LoopLoss

(* A turn of the loop: nothing moves but orders, news and itself. *)
LEMMA LossTurn ==
  ASSUME LossHere, TypeOK',
         UNCHANGED <<engine, file, editor, trans, captured, wav, list, made, lost, crashed>>,
         \/ results' = results
         \/ results # <<>> /\ results' = Tail(results)
              /\ Head(results).kind \notin {"commit", "finished"}
         \/ \E x : results' = Append(results, x) /\ x.kind \notin {"commit", "finished"},
         \/ work' = work
         \/ \E x : work' = Append(work, x) /\ x.kind \notin {"finish", "recording"},
         pc' # "down", pc # "down", pc' = "closing" => pc = "closing",
         \A c \in Due : Forsaken(c) => Forsaken(c)',
         \A c \in Due : life[c] = "released" => life'[c] = "released",
         mic' \in {mic, None}, MicOpen', Lives'
  PROVE  LossInv'
<1>1. /\ Due' = Due /\ made \in Nat /\ results \in Seq(Result) /\ work \in Seq(Job)
      /\ \A c \in Due : c \in Captures /\ c <= made /\ c # None
  BY HereTyped, DueBegun DEF Due, None, Captures
<1>2. Onto /\ CapturedStays /\ LifeStays
  BY <1>1 DEF Onto, CapturedStays, LifeStays
<1>3. PICK d : /\ d \in {0, 1} /\ Moves(d)
               /\ \A k \in DOMAIN results' :
                    \/ k + d \in DOMAIN results /\ results'[k] = results[k + d]
                    \/ results'[k].kind \notin {"commit", "finished"}
  <2>1. CASE results' = results
    <3>1. Moves(0)
      BY <1>1, <2>1, MovesNot DEF Moves
    <3>2. \A k \in DOMAIN results' : k + 0 \in DOMAIN results /\ results'[k] = results[k + 0]
      BY <1>1, <2>1
    <3> QED BY <3>1, <3>2
  <2>2. CASE results # <<>> /\ results' = Tail(results)
             /\ Head(results).kind \notin {"commit", "finished"}
    <3>1. \A c : Safe(file, editor, c) \cup TextOf(Head(results), "commit", c) \subseteq Safe(file, editor, c)
      BY <2>2 DEF TextOf
    <3>2. MovesOn(file, editor, results, file, editor, Tail(results), 1)
      BY <1>1, <2>2, <3>1, MovesDelivered
    <3>3. Len(results') >= Len(results) - 1
      BY <1>1, <2>2
    <3>4. Moves(1)
      BY <2>2, <3>2, <3>3 DEF Moves
    <3>5. \A k \in DOMAIN results' : k + 1 \in DOMAIN results /\ results'[k] = results[k + 1]
      BY <1>1, <2>2, TailOf
    <3> QED BY <3>4, <3>5
  <2>3. ASSUME NEW x, results' = Append(results, x), x.kind \notin {"commit", "finished"}
        PROVE  /\ Moves(0)
               /\ \A k \in DOMAIN results' :
                    \/ k + 0 \in DOMAIN results /\ results'[k] = results[k + 0]
                    \/ results'[k].kind \notin {"commit", "finished"}
    <3>1. MovesOn(file, editor, results, file, editor, results', 0)
      BY <1>1, <2>3, MovesReported
    <3>2. Len(results') >= Len(results) - 0
      BY <1>1, <2>3
    <3>3. \A k \in DOMAIN results' :
            results'[k] = x \/ (k \in DOMAIN results /\ results'[k] = results[k] /\ k + 0 = k)
      BY <1>1, <2>3
    <3> QED BY <2>3, <3>1, <3>2, <3>3 DEF Moves
  <2>4. CASE \E x : results' = Append(results, x) /\ x.kind \notin {"commit", "finished"}
    <3>1. /\ Moves(0)
          /\ \A k \in DOMAIN results' :
               \/ k + 0 \in DOMAIN results /\ results'[k] = results[k + 0]
               \/ results'[k].kind \notin {"commit", "finished"}
      BY <2>3, <2>4
    <3> QED BY <3>1
  <2> QED BY <2>1, <2>2, <2>4
<1>4. TextMoves
  BY <1>3 DEF TextMoves
<1>5. \A k \in DOMAIN work' :
        \/ \E j \in DOMAIN work : work'[k] = work[j]
        \/ FinishWhole(work[k])' /\ StartSafe(work[k])'
  <2>1. CASE work' = work
    BY <2>1
  <2>2. ASSUME NEW x, work' = Append(work, x), x.kind \notin {"finish", "recording"}
        PROVE  \A k \in DOMAIN work' :
                 \/ \E j \in DOMAIN work : work'[k] = work[j]
                 \/ FinishWhole(work[k])' /\ StartSafe(work[k])'
    <3>1. \A k \in DOMAIN work' : work'[k] = x \/ (k \in DOMAIN work /\ work'[k] = work[k])
      BY <1>1, <2>2
    <3> QED BY <2>2, <3>1 DEF FinishWhole, StartSafe
  <2> QED BY <2>1, <2>2
<1>6. \A c : ToEnd(c) => ToEnd(c)'
  <2>1. \A k \in DOMAIN work : \E j \in DOMAIN work' : work'[j] = work[k]
    BY <1>1
  <2>2. \A k \in DOMAIN results : \/ \E j \in DOMAIN results' : results'[j] = results[k]
                                  \/ \A c : Closes(results[k], c) => ToEnd(c)'
    <3>1. CASE results' = results
      BY <3>1
    <3>2. CASE results # <<>> /\ results' = Tail(results)
               /\ Head(results).kind \notin {"commit", "finished"}
      <4>1. ASSUME NEW k \in DOMAIN results, k # 1
            PROVE  k - 1 \in DOMAIN results' /\ results'[k - 1] = results[k]
        BY <1>1, <3>2, <4>1
      <4>2. results[1] = Head(results) /\ Head(results) \in Result
        BY <1>1, <3>2
      <4>3. \A c : ~Closes(results[1], c)
        BY <3>2, <4>2 DEF Closes, Result, Event
      <4> QED BY <4>1, <4>3
    <3>3. CASE \E x : results' = Append(results, x)
      <4>1. \A k \in DOMAIN results : k \in DOMAIN results' /\ results'[k] = results[k]
        BY <1>1, <3>3
      <4> QED BY <4>1
    <3> QED BY <3>1, <3>2, <3>3
  <2> QED BY <2>1, <2>2, ToEndOn
<1>11. ASSUME NEW k \in DOMAIN results', results'[k].kind \notin {"commit", "finished"}
       PROVE  ResultTrue(k)'
  BY <1>11 DEF ResultTrue
<1>7. EntriesSafe'
  BY <1>2, <1>4, HereTyped, EntriesSafeOn
<1>8. CaptureInv'
  BY <1>1, HereTyped DEF CaptureInv, WavsWhole
<1>9. \A c \in Due' : c <= made /\ WaitMove(c)
  BY <1>1, <1>6 DEF WaitMove
<1>10. LeftBehind'
  BY <1>2, <1>4, <1>9, HereTyped, LeftBehindOn
<1> QED BY <1>2, <1>3, <1>5, <1>7, <1>8, <1>9, <1>10, <1>11, LoopLoss

(* Most turns leave the capture under way to be what it was. *)
LEMMA LossTurnSame ==
  ASSUME LossHere, TypeOK',
         UNCHANGED <<engine, file, editor, trans, captured, wav, list, made, lost, crashed>>,
         \/ results' = results
         \/ results # <<>> /\ results' = Tail(results)
              /\ Head(results).kind \notin {"commit", "finished"}
         \/ \E x : results' = Append(results, x) /\ x.kind \notin {"commit", "finished"},
         \/ work' = work
         \/ \E x : work' = Append(work, x) /\ x.kind \notin {"finish", "recording"},
         pc # "down", pc' # "down", pc' = "closing" => pc = "closing",
         pc' = pc \/ (pc # "postroll" /\ pc' # "postroll"),
         pc \in Leaving => pc' \in Leaving,
         UNCHANGED <<mic, life>>,
         session'.state = session.state, session'.current = session.current
  PROVE  LossInv'
<1>1. UnderWay' = UnderWay /\ Due' = Due
  BY DEF UnderWay, Due
<1>2. MicOpen' /\ Lives'
  BY <1>1, HereTyped DEF MicOpen, Lives
<1>3. \A c \in Due : Forsaken(c) => Forsaken(c)'
  BY <1>1 DEF Forsaken, Leaving
<1>4. mic' \in {mic, None} /\ \A c \in Due : life[c] = "released" => life'[c] = "released"
  OBVIOUS
<1> QED BY <1>2, <1>3, <1>4, LossTurn

LEMMA LossTurns ==
  LossHere /\ TypeOK'
    /\ (\/ AskToStop \/ CloseWindow \/ EndRequests \/ DeliverPreparing \/ DeliverReady
        \/ DeliverUnavailable \/ DeliverTick \/ EndResults \/ SendTick \/ NoTick \/ EndPass
        \/ Stall \/ JoinEngine)
  => LossInv'
<1> SUFFICES ASSUME LossHere, TypeOK',
                    \/ AskToStop \/ CloseWindow \/ EndRequests \/ DeliverPreparing
                    \/ DeliverReady \/ DeliverUnavailable \/ DeliverTick \/ EndResults
                    \/ SendTick \/ NoTick \/ EndPass \/ Stall \/ JoinEngine
             PROVE  LossInv'
  OBVIOUS
<1> USE DEF AskToStop, CloseWindow, EndRequests, DeliverPreparing, DeliverReady,
            DeliverUnavailable, DeliverTick, EndResults, SendTick, NoTick, EndPass, Stall,
            JoinEngine
<1>1. UNCHANGED <<engine, file, editor, trans, captured, wav, list, made, lost, crashed, mic, life>>
  BY DEF loopVars, micVars, diskVars, modelVars
<1>2. \/ results' = results
      \/ results # <<>> /\ results' = Tail(results)
           /\ Head(results).kind \notin {"commit", "finished"}
      \/ \E x : results' = Append(results, x) /\ x.kind \notin {"commit", "finished"}
  BY DEF Delivered, WindowClosed
<1>3. \/ work' = work
      \/ \E x : work' = Append(work, x) /\ x.kind \notin {"finish", "recording"}
  BY DEF TickWork
<1>4. pc # "down" /\ pc' # "down" /\ (pc' = "closing" => pc = "closing")
      /\ (pc' = pc \/ (pc # "postroll" /\ pc' # "postroll"))
      /\ (pc \in Leaving => pc' \in Leaving)
  <2>1. editing => pc # "down"
    BY FromHere DEF LossHere, Emptied
  <2> QED BY <2>1 DEF LoopAt, Delivered, loopVars, Leaving
<1>5. session'.state = session.state /\ session'.current = session.current
  <2>1. \/ session' = session \/ session' = Configure(session) \/ session' = IntervalPassed(session)
        \/ session' = [session EXCEPT !.tick = "pending"]
        \/ \E c : session' = TickFinished(session, c)
    BY DEF loopVars
  <2>2. session \in SessionState /\ session' \in SessionState
    BY HereTyped DEF TypeOK
  <2>3. CASE session' = [session EXCEPT !.tick = "pending"]
    BY <2>2, <2>3 DEF SessionState
  <2> QED BY <2>1, <2>2, <2>3, SessionKeeps
<1> QED BY <1>1, <1>2, <1>3, <1>4, <1>5, LossTurnSame

(* The capture under way ends, and a stop forsakes it. *)
LEMMA LossEndCapture == LossHere /\ TypeOK' /\ EndCapture => LossInv'
<1> SUFFICES ASSUME LossHere, TypeOK', EndCapture PROVE LossInv' OBVIOUS
<1>1. /\ UNCHANGED <<engine, file, editor, trans, captured, wav, list, made, lost, crashed, mic,
                     results, work>>
      /\ pc = "requests" /\ pc' = "postroll" /\ session.state = "recording"
      /\ life' = [life EXCEPT ![session.current] = Released(@)]
  BY DEF EndCapture, LoopAt, micVars, diskVars, modelVars
<1>2. session'.state = "transcribing" /\ session'.current = session.current
  BY HereTyped, SessionTurns DEF EndCapture, TypeOK
<1>3. UnderWay /\ UnderWay' /\ Due' = Due
  BY <1>1 DEF UnderWay, Due
<1>4. life \in [Captures -> {"live", "released", "cancelled"}] /\ session.current \in Captures
  BY <1>1, HereTyped DEF TypeOK, Attached, SessionState
<1>5. \A c \in Captures : /\ c # session.current => life'[c] = life[c]
                          /\ life[c] = "released" => life'[c] = "released"
                          /\ life'[c] = "cancelled" => life[c] = "cancelled"
                          /\ c = session.current /\ life[c] # "cancelled" => life'[c] = "released"
  BY <1>1, <1>4 DEF Released
<1>6. MicOpen' /\ Lives'
  <2>1. session.current \in Due => life[session.current] # "cancelled"
    BY <1>1, <1>3, HereTyped DEF Lives, Leaving
  <2> QED BY <1>1, <1>2, <1>3, <1>4, <1>5, <2>1, HereTyped DEF MicOpen, Lives
<1>7. \A c \in Due : (Forsaken(c) => Forsaken(c)') /\ (life[c] = "released" => life'[c] = "released")
  BY <1>1, <1>2, <1>3, <1>5, HereTyped, DueBegun DEF Forsaken
<1> QED BY <1>1, <1>6, <1>7, LossTurn

LEMMA LossShutDown == LossHere /\ TypeOK' /\ ShutDown => LossInv'
<1> SUFFICES ASSUME LossHere, TypeOK', ShutDown PROVE LossInv' OBVIOUS
<1>1. /\ UNCHANGED <<engine, file, editor, trans, captured, wav, list, made, lost, crashed,
                     results, session>>
      /\ pc = "leaving" /\ pc' = "joining" /\ mic' = None
      /\ work' = Append(work, QuitWork) /\ QuitWork.kind \notin {"finish", "recording"}
      /\ \/ life' = life
         \/ /\ session.current # None /\ life[session.current] = "live"
            /\ life' = [life EXCEPT ![session.current] = "cancelled"]
  BY DEF ShutDown, LoopAt, diskVars, modelVars, QuitWork, NoJob
<1>2. /\ life \in [Captures -> {"live", "released", "cancelled"}]
      /\ session.current \in Captures \cup {None}
  BY HereTyped DEF TypeOK, SessionState
<1>3. \A c \in Captures : /\ life[c] = "released" => life'[c] = "released"
                          /\ life'[c] = "cancelled" => life[c] = "cancelled" \/ c = session.current
  BY <1>1, <1>2
<1>4. MicOpen' /\ Lives'
  BY <1>1, <1>2, <1>3, HereTyped DEF MicOpen, Lives, Leaving
<1>5. \A c \in Due : Forsaken(c)' /\ (life[c] = "released" => life'[c] = "released")
  BY <1>1, <1>3, HereTyped, DueBegun DEF Forsaken
<1> QED BY <1>1, <1>4, <1>5, LossTurn

(* A discard gives up the capture under way, and nothing else. *)
LEMMA LossDiscard ==
  ASSUME LossHere, TypeOK', session.state = "recording", DiscardCurrent(TRUE),
         UNCHANGED <<pc, engine, file, editor, captured, wav, list, made, crashed, work>>,
         pc \in {"requests", "results"},
         \/ results' = results
         \/ results # <<>> /\ results' = Tail(results) /\ Head(results).kind = "closed"
  PROVE  LossInv'
<1>1. /\ results \in Seq(Result) /\ made \in Nat /\ session.current \in Captures
      /\ life \in [Captures -> {"live", "released", "cancelled"}] /\ trans \in [Captures -> Entry]
      /\ session.current <= made
  BY HereTyped DEF TypeOK, Attached, SessionState, Lives
<1>2. /\ session'.state = "idle" /\ session'.current = session.current /\ mic' = None
      /\ lost' = lost \cup {session.current}
  BY HereTyped, SessionTurns DEF DiscardCurrent, TypeOK
<1>3. /\ life' = [life EXCEPT ![session.current] = "cancelled"]
      /\ trans' = [trans EXCEPT ![session.current] = Unlisted]
  BY DEF DiscardCurrent
<1>4. \A c \in Captures : /\ c # session.current => life'[c] = life[c] /\ trans'[c] = trans[c]
                          /\ c = session.current => trans'[c] = Unlisted
  BY <1>1, <1>3
<1>5. \A c \in Due' : /\ c \in Due /\ c # session.current /\ c \in Captures /\ c <= made /\ c # None
                      /\ life'[c] = life[c] /\ trans'[c] = trans[c]
  BY <1>2, <1>4, HereTyped, DueBegun DEF Due, None, Captures
<1>6. Onto /\ CapturedStays /\ LifeStays
  BY <1>1, <1>5 DEF Onto, CapturedStays, LifeStays
<1>7. PICK d : /\ d \in {0, 1} /\ Moves(d)
               /\ \A k \in DOMAIN results' : k + d \in DOMAIN results /\ results'[k] = results[k + d]
  <2>1. CASE results' = results
    <3>1. Moves(0)
      BY <1>1, <2>1, MovesNot DEF Moves
    <3>2. \A k \in DOMAIN results' : k + 0 \in DOMAIN results /\ results'[k] = results[k + 0]
      BY <1>1, <2>1
    <3> QED BY <3>1, <3>2
  <2>2. CASE results # <<>> /\ results' = Tail(results) /\ Head(results).kind = "closed"
    <3>1. \A c : Safe(file, editor, c) \cup TextOf(Head(results), "commit", c) \subseteq Safe(file, editor, c)
      BY <2>2 DEF TextOf
    <3>2. MovesOn(file, editor, results, file, editor, Tail(results), 1)
      BY <1>1, <2>2, <3>1, MovesDelivered
    <3>3. Len(results') >= Len(results) - 1
      BY <1>1, <2>2
    <3>4. Moves(1)
      BY <2>2, <3>2, <3>3 DEF Moves
    <3>5. \A k \in DOMAIN results' : k + 1 \in DOMAIN results /\ results'[k] = results[k + 1]
      BY <1>1, <2>2, TailOf
    <3> QED BY <3>4, <3>5
  <2> QED BY <2>1, <2>2
<1>8. \A c : ToEnd(c) => ToEnd(c)'
  <2>1. \A k \in DOMAIN results : \/ \E j \in DOMAIN results' : results'[j] = results[k]
                                  \/ \A c : Closes(results[k], c) => ToEnd(c)'
    <3>1. CASE results' = results
      BY <3>1
    <3>2. CASE results # <<>> /\ results' = Tail(results) /\ Head(results).kind = "closed"
      <4>1. ASSUME NEW k \in DOMAIN results, k # 1
            PROVE  k - 1 \in DOMAIN results' /\ results'[k - 1] = results[k]
        BY <1>1, <3>2, <4>1
      <4>2. results[1] = Head(results)
        BY <1>1, <3>2
      <4>3. \A c : ~Closes(results[1], c)
        BY <3>2, <4>2 DEF Closes
      <4> QED BY <4>1, <4>3
    <3> QED BY <3>1, <3>2
  <2> QED BY <2>1, ToEndOn
<1>9. TextMoves
  BY <1>7 DEF TextMoves
<1>10. EntriesSafe'
  <2>1. \A c \in Captures : trans'[c].stage # "none" =>
           trans[c].stage # "none" /\ trans'[c].through = trans[c].through
    BY <1>4 DEF Unlisted
  <2> QED BY <1>6, <1>9, <2>1, HereTyped, EntriesSafeOn
<1>11. CaptureInv'
  <2>1. WavsWhole'
    BY <1>5, HereTyped DEF WavsWhole
  <2>2. MicOpen'
    BY <1>2 DEF MicOpen
  <2>3. Lives'
    <3>1. ~UnderWay' /\ pc' # "postroll"
      BY <1>2 DEF UnderWay
    <3>2. \A c \in Captures : life'[c] = "cancelled" => c <= made
      BY <1>1, <1>4, HereTyped DEF Lives
    <3> QED BY <1>1, <1>2, <3>1, <3>2 DEF Lives
  <2> QED BY <2>1, <2>2, <2>3 DEF CaptureInv
<1>12. \A c \in Due' : ~Forsaken(c)
  BY <1>5 DEF Forsaken
<1>13. \A c \in Due' : c <= made /\ WaitMove(c)
  BY <1>2, <1>5, <1>8, <1>12 DEF WaitMove
<1>14. LeftBehind'
  BY DEF LeftBehind
<1> QED BY <1>6, <1>7, <1>10, <1>11, <1>13, <1>14, LoopLoss

LEMMA LossGivenUp == LossHere /\ TypeOK' /\ (DiscardCapture \/ DeliverWindowClosed) => LossInv'
<1> SUFFICES ASSUME LossHere, TypeOK', DiscardCapture \/ DeliverWindowClosed PROVE LossInv'
  OBVIOUS
<1>1. CASE DiscardCapture
  BY <1>1, LossDiscard DEF DiscardCapture, LoopAt, diskVars
<1>2. CASE DeliverWindowClosed
  <2> USE DEF DeliverWindowClosed, Delivered, LoopAt, diskVars
  <2>1. CASE CaptureBegunBy(Head(results).at)
    BY <1>2, <2>1, LossDiscard DEF CaptureBegunBy
  <2>2. CASE ~CaptureBegunBy(Head(results).at)
    <3>1. session'.state = session.state /\ session'.current = session.current
      BY <1>2, <2>2, HereTyped, SessionKeeps DEF TypeOK
    <3> QED BY <1>2, <2>2, <3>1, LossTurnSame
  <2> QED BY <2>1, <2>2
<1> QED BY <1>1, <1>2

-----------------------------------------------------------------------------
(* The loop delivers a result, its text having been passed on. *)
LEMMA TailMoves ==
  ASSUME LossHere, results # <<>>, results' = Tail(results), file' = file,
         \A c : Safe(file, editor, c) \cup TextOf(Head(results), "commit", c)
                  \subseteq Safe(file, editor', c)
  PROVE  /\ Moves(1) /\ TextMoves
         /\ \A k \in DOMAIN results' : k + 1 \in DOMAIN results /\ results'[k] = results[k + 1]
         /\ \A k \in DOMAIN results : \/ results[k] = Head(results)
                                      \/ \E j \in DOMAIN results' : results'[j] = results[k]
<1>1. results \in Seq(Result)
  BY HereTyped
<1>2. MovesOn(file, editor, results, file, editor', Tail(results), 1)
  BY <1>1, MovesDelivered
<1>3. Len(results') >= Len(results) - 1
  BY <1>1
<1>4. Moves(1) /\ TextMoves
  BY <1>2, <1>3 DEF Moves, TextMoves
<1>5. \A k \in DOMAIN results' : k + 1 \in DOMAIN results /\ results'[k] = results[k + 1]
  BY <1>1, TailOf
<1>6. ASSUME NEW k \in DOMAIN results, k # 1
      PROVE  k - 1 \in DOMAIN results' /\ results'[k - 1] = results[k]
  BY <1>1, <1>6
<1>7. results[1] = Head(results)
  BY <1>1
<1> QED BY <1>4, <1>5, <1>6, <1>7

(* Nothing was reported before the first result. *)
LEMMA HeadTrue ==
  ASSUME LossHere, results # <<>>
  PROVE  /\ Head(results) \in Result
         /\ Head(results).kind = "commit" =>
              /\ Head(results).c <= made
              /\ Head(results).c \in Due => SafeTo(Head(results).c, Head(results).from)
         /\ Head(results).kind = "finished" =>
              /\ Head(results).c <= made /\ Head(results).c # mic
              /\ Head(results).c \in Due /\ Head(results).outcome = "ok"
                   => SafeTo(Head(results).c, captured[Head(results).c])
<1>1. /\ 1 \in DOMAIN results /\ results[1] = Head(results) /\ Head(results) \in Result
      /\ \A k \in DOMAIN results : ~(k < 1)
  BY HereTyped
<1>2. \A c : Said(file, editor, results, c, 1) = Safe(file, editor, c)
  BY <1>1 DEF Said, TextWithin
<1>3. ResultTrue(1)
  BY <1>1, HereTyped DEF ResultsTrue
<1>4. Head(results).kind = "commit" => Head(results).c <= made
  BY <1>1, HereTyped DEF OrderInv, InStream, Stream, AllFit, Fits, Text
<1>5. Head(results).kind = "finished" => Head(results).c <= made /\ Head(results).c # mic
  BY <1>1, HereTyped, EndsElsewhere, ResultRead DEF ClosesElsewhere, Closes
<1> QED BY <1>1, <1>2, <1>3, <1>4, <1>5 DEF ResultTrue, SaidTo, SafeTo

LEMMA LossCommitTaken ==
  ASSUME LossHere, TypeOK', pc \in {"results", "draining"},
         results # <<>>, results' = Tail(results), Head(results).kind = "commit",
         TakeCommit(Head(results)),
         UNCHANGED <<pc, engine, file, mic, captured, wav, list, life, work, made, lost, crashed>>
  PROVE  LossInv'
<1> DEFINE r == Head(results)
           x == AppendText(r.c, r.from, r.through)
<1>1. /\ r \in Result /\ r.c \in Captures /\ r.from \in Frames /\ r.through \in Frames
      /\ r.c <= made /\ (r.c \in Due => SafeTo(r.c, r.from))
  BY HeadTrue, ResultRead
<1>2. session'.state = session.state /\ session'.current = session.current
  BY <1>1, HereTyped, TakeCommitStep
<1>3. UnderWay' = UnderWay /\ Due' = Due /\ \A c : Forsaken(c)' = Forsaken(c)
  BY <1>2 DEF UnderWay, Due, Forsaken
<1>4. \A c : Safe(file, editor, c) \cup TextOf(r, "commit", c) \subseteq Safe(file, editor', c)
  <2>1. \A c : TextOf(r, "commit", c) = TextOf(x, "append", c)
    BY DEF TextOf, AppendText
  <2>2. \A c : Safe(file, editor, c) \cup TextOf(x, "append", c) = Safe(file, Append(editor, x), c)
    <3> HIDE DEF x
    <3> QED BY HereTyped, SafeSent
  <2>3. CASE Words(r.from, r.through) = {}
    BY <2>3 DEF TakeCommit, TextOf
  <2>4. CASE Words(r.from, r.through) # {}
    <3>1. editor' = Append(editor, x)
      BY <2>4 DEF TakeCommit
    <3> HIDE DEF x
    <3> QED BY <2>1, <2>2, <3>1
  <2> QED BY <2>3, <2>4
<1>5. /\ Moves(1) /\ TextMoves
      /\ \A k \in DOMAIN results' : k + 1 \in DOMAIN results /\ results'[k] = results[k + 1]
      /\ \A k \in DOMAIN results : results[k] = r \/ \E j \in DOMAIN results' : results'[j] = results[k]
  BY <1>4, TailMoves
<1>6. made \in Nat /\ \A c \in Due : c \in Captures /\ c <= made
  BY HereTyped, DueBegun
<1>7. Onto /\ CapturedStays /\ LifeStays
  BY <1>3, <1>6 DEF Onto, CapturedStays, LifeStays
<1>8. \A c \in Captures :
        /\ trans'[c].stage = trans[c].stage
        /\ c # r.c => trans'[c].through = trans[c].through
        /\ trans'[r.c].through \in {trans[r.c].through, r.through}
  BY <1>1, HereTyped DEF TakeCommit, TypeOK, Entry
<1>9. r.c \in Due => Words(0, r.through) \subseteq Safe(file, editor', r.c)
  BY <1>1, <1>4, WordsJoin DEF SafeTo, TextOf
<1>10. EntriesSafe'
  <2>1. \A c \in Captures : trans'[c].stage # "none" =>
          \/ trans[c].stage # "none" /\ trans'[c].through = trans[c].through
          \/ c <= made' /\ (c \in Due' => Words(0, trans'[c].through) \subseteq Safe(file', editor', c))
    BY <1>1, <1>3, <1>8, <1>9
  <2> QED BY <1>5, <1>7, <2>1, HereTyped, EntriesSafeOn
<1>11. CaptureInv'
  BY <1>2, <1>3, HereTyped DEF CaptureInv, WavsWhole, MicOpen, Lives
<1>12. \A c : ToEnd(c) => ToEnd(c)'
  <2>1. \A c : ~Closes(r, c)
    BY DEF Closes
  <2>2. \A k \in DOMAIN results : \/ \E j \in DOMAIN results' : results'[j] = results[k]
                                  \/ \A c : Closes(results[k], c) => ToEnd(c)'
    BY <1>5, <2>1
  <2> QED BY <2>2, ToEndOn
<1>13. \A c \in Due' : c <= made /\ WaitMove(c)
  BY <1>3, <1>6, <1>8, <1>12 DEF WaitMove
<1>14. LeftBehind'
  BY DEF LeftBehind
<1> QED BY <1>5, <1>7, <1>10, <1>11, <1>13, <1>14, LoopLoss

LEMMA LossFinishTaken ==
  ASSUME LossHere, TypeOK', pc \in {"results", "draining"},
         results # <<>>, results' = Tail(results), Head(results).kind = "finished",
         TakeFinished(Head(results).c, Head(results).outcome),
         editor' = Append(editor, Copy(Head(results).c)),
         \/ session' = session
         \/ pc = "results" /\ session' = Finish(session, Head(results).c),
         \A c \in Captures : list'[c] # Gone =>
           \/ list'[c] = list[c]
           \/ trans'[c].stage # "none" /\ list'[c] = trans'[c].through,
         UNCHANGED <<pc, engine, file, mic, captured, wav, life, work, made, crashed>>
  PROVE  LossInv'
<1>1. PICK c, o : c = Head(results).c /\ o = Head(results).outcome
  OBVIOUS
<1>2. /\ c \in Captures /\ o \in {"ok", "failed", "short"} /\ c <= made /\ c # mic
      /\ c \in Due /\ o = "ok" => SafeTo(c, captured[c])
  BY <1>1, HeadTrue, ResultRead
<1>3. TakeFinished(c, o) /\ editor' = Append(editor, Copy(c))
  BY <1>1
<1>4. session'.current = session.current
  BY HereTyped, SessionTurns DEF TypeOK
<1>5. session.state = "recording" <=> session'.state = "recording"
  <2>1. session.state = "recording" => session'.state = "recording"
    BY HereTyped DEF Finish, Applied, SessionState, TypeOK
  <2>2. session'.state = "recording" => session.state = "recording"
    BY HereTyped, SessionTurns DEF TypeOK
  <2> QED BY <2>1, <2>2
<1>6. UnderWay' = UnderWay /\ \A d : Forsaken(d)' = Forsaken(d)
  BY <1>4, <1>5 DEF UnderWay, Forsaken
<1>7. \A d : Safe(file, editor, d) \subseteq Safe(file, editor', d)
  <2>1. ASSUME NEW d PROVE Safe(file, editor, d) \subseteq Safe(file, Append(editor, Copy(c)), d)
    BY HereTyped, SafeSent
  <2> QED BY <1>3, <2>1
<1>8. /\ Moves(1) /\ TextMoves
      /\ \A k \in DOMAIN results' : k + 1 \in DOMAIN results /\ results'[k] = results[k + 1]
      /\ \A k \in DOMAIN results :
           results[k] = Head(results) \/ \E j \in DOMAIN results' : results'[j] = results[k]
  <2>1. \A d : Safe(file, editor, d) \cup TextOf(Head(results), "commit", d)
                 \subseteq Safe(file, editor', d)
    BY <1>7 DEF TextOf
  <2> QED BY <2>1, TailMoves
<1>9. trans \in [Captures -> Entry] /\ trans[c] \in Entry /\ lost \subseteq Captures
  BY <1>2, HereTyped DEF TypeOK
<1>10. /\ \A d \in Captures : d # c => trans'[d] = trans[d]
       /\ \/ /\ trans'[c] = trans[c] /\ trans[c].stage \notin {"sent", "finishing"}
             /\ o = "ok" \/ c \in lost'
          \/ trans'[c] = Unlisted /\ (o = "ok" \/ c \in lost')
          \/ /\ trans'[c].stage = "retry" /\ trans'[c].through = trans[c].through
             /\ trans[c].stage # "none"
       /\ lost \subseteq lost'
  <2>1. CASE trans[c].stage = "sent"
    <3>1. /\ trans' = [trans EXCEPT ![c] =
                         IF Settled(c, o) THEN [@ EXCEPT !.stage = "retry"] ELSE Unlisted]
          /\ lost' = IF o # "ok" /\ ~Settled(c, o) THEN lost \cup {c} ELSE lost
      BY <1>3, <2>1 DEF TakeFinished
    <3>2. CASE Settled(c, o)
      <4>1. trans' = [trans EXCEPT ![c] = [@ EXCEPT !.stage = "retry"]] /\ lost' = lost
        BY <3>1, <3>2
      <4>2. trans'[c] = [trans[c] EXCEPT !.stage = "retry"]
        BY <1>2, <1>9, <4>1
      <4> QED BY <1>9, <2>1, <4>1, <4>2 DEF Entry
    <3>3. CASE ~Settled(c, o)
      <4>1. /\ trans' = [trans EXCEPT ![c] = Unlisted]
            /\ lost' = IF o # "ok" THEN lost \cup {c} ELSE lost
        BY <3>1, <3>3
      <4> QED BY <1>2, <1>9, <4>1
    <3> QED BY <3>2, <3>3
  <2>2. CASE trans[c].stage = "finishing"
    <3>1. /\ trans' = [trans EXCEPT ![c] =
                         IF o = "ok" THEN Unlisted ELSE [@ EXCEPT !.stage = "retry"]]
          /\ lost' = lost
      BY <1>3, <2>2 DEF TakeFinished
    <3>2. CASE o = "ok"
      <4>1. trans' = [trans EXCEPT ![c] = Unlisted]
        BY <3>1, <3>2
      <4> QED BY <1>2, <1>9, <3>1, <3>2, <4>1
    <3>3. CASE o # "ok"
      <4>1. trans' = [trans EXCEPT ![c] = [@ EXCEPT !.stage = "retry"]]
        BY <3>1, <3>3
      <4>2. trans'[c] = [trans[c] EXCEPT !.stage = "retry"]
        BY <1>2, <1>9, <4>1
      <4> QED BY <1>9, <2>2, <3>1, <4>1, <4>2 DEF Entry
    <3> QED BY <3>2, <3>3
  <2>3. CASE trans[c].stage \notin {"sent", "finishing"}
    <3>1. trans' = trans /\ lost' = IF o = "ok" THEN lost ELSE lost \cup {c}
      BY <1>3, <2>3 DEF TakeFinished
    <3> QED BY <2>3, <3>1
  <2> QED BY <2>1, <2>2, <2>3
<1>11. /\ made \in Nat /\ Due' \subseteq Due
       /\ \A d \in Due' : d \in Due /\ d \in Captures /\ d <= made /\ d \notin lost'
  BY <1>10, HereTyped, DueBegun DEF Due
<1>12. Onto /\ CapturedStays /\ LifeStays
  BY <1>11 DEF Onto, CapturedStays, LifeStays
<1>13. EntriesSafe'
  <2>1. \A d \in Captures : trans'[d].stage # "none" =>
           trans[d].stage # "none" /\ trans'[d].through = trans[d].through
    BY <1>10 DEF Unlisted
  <2> QED BY <1>8, <1>12, <2>1, HereTyped, EntriesSafeOn
<1>14. CaptureInv'
  BY <1>4, <1>6, <1>11, HereTyped DEF CaptureInv, WavsWhole, MicOpen, Lives
<1>15. \A d : d # c /\ ToEnd(d) => ToEnd(d)'
  BY <1>1, <1>8 DEF ToEnd, Closes
<1>16. ASSUME NEW d \in Due', d # c PROVE d <= made /\ WaitMove(d)
  BY <1>6, <1>10, <1>11, <1>15, <1>16 DEF WaitMove
<1>17. ASSUME c \in Due' PROVE Accounted(c)'
  <2>1. CASE trans'[c].stage = "retry"
    BY <2>1 DEF Accounted
  <2>2. CASE /\ o = "ok" /\ c \in Due
             /\ \/ trans'[c] = Unlisted
                \/ trans'[c] = trans[c] /\ trans[c].stage \notin {"sent", "finishing"}
    <3>1. Words(0, captured[c]) \subseteq Safe(file, editor', c)
      BY <1>2, <1>7, <2>2 DEF SafeTo
    <3>2. Complete(c)'
      BY <1>2, <3>1 DEF Complete, SafeTo
    <3>3. trans'[c].stage \notin {"sent", "finishing"}
      BY <2>2 DEF Unlisted
    <3>4. trans'[c].stage = "capturing" => Forsaken(c)'
      BY <1>6, <2>2, HereTyped DEF AccountedFor, Accounted, Unlisted
    <3> QED BY <3>2, <3>3, <3>4 DEF Accounted
  <2> QED BY <1>10, <1>11, <1>17, <2>1, <2>2
<1>18. \A d \in Due' : (d <= made /\ WaitMove(d)) \/ Accounted(d)'
  BY <1>16, <1>17
<1>19. LeftBehind'
  BY DEF LeftBehind
<1> QED BY <1>8, <1>12, <1>13, <1>14, <1>18, <1>19, LoopLoss

(* What the loop delivers, as it runs and as it stops. *)
LEMMA ListedAnew ==
  ASSUME TypeOK, Persist(trans')
  PROVE  \A c \in Captures : list'[c] # Gone =>
           \/ list'[c] = list[c]
           \/ trans'[c].stage # "none" /\ list'[c] = trans'[c].through
BY DEF Persist, ListOf, ListedWhileRunning

LEMMA LossDeliver == LossHere /\ TypeOK' /\ Deliver => LossInv'
<1> SUFFICES ASSUME LossHere, TypeOK', Deliver PROVE LossInv' OBVIOUS
<1>1. CASE DeliverPreparing \/ DeliverReady \/ DeliverUnavailable \/ DeliverTick
  BY <1>1, LossTurns
<1>2. CASE DeliverWindowClosed
  BY <1>2, LossGivenUp
<1>3. CASE DeliverCommit
  BY <1>3, LossCommitTaken DEF DeliverCommit, Delivered, LoopAt, micVars, diskVars, modelVars
<1>4. CASE DeliverFinished
  <2> DEFINE c == Head(results).c
             outcome == Head(results).outcome
  <2>1. /\ pc = "results" /\ results # <<>> /\ results' = Tail(results)
        /\ Head(results).kind = "finished" /\ TakeFinished(c, outcome)
        /\ editor' = Append(editor, Copy(c)) /\ session' = Finish(session, c)
        /\ UNCHANGED <<pc, engine, file, mic, captured, wav, life, work, made, crashed>>
        /\ UNCHANGED list \/ Persist(trans')
    BY <1>4 DEF DeliverFinished, Delivered, LoopAt, micVars
  <2>2. \A d \in Captures : list'[d] # Gone =>
           \/ list'[d] = list[d]
           \/ trans'[d].stage # "none" /\ list'[d] = trans'[d].through
    BY <2>1, HereTyped, ListedAnew
  <2> QED BY <2>1, <2>2, LossFinishTaken
<1> QED BY <1>1, <1>2, <1>3, <1>4 DEF Deliver

LEMMA LossDrain == LossHere /\ TypeOK' /\ DrainResult => LossInv'
<1> SUFFICES ASSUME LossHere, TypeOK', DrainResult PROVE LossInv' OBVIOUS
<1> DEFINE r == Head(results)
<1>1. /\ pc = "draining" /\ results # <<>> /\ results' = Tail(results)
      /\ UNCHANGED <<pc, engine, file, mic, captured, wav, list, life, work, made, crashed>>
  BY DEF DrainResult, LoopAt, micVars
<1>2. CASE r.kind = "commit"
  BY <1>1, <1>2, LossCommitTaken DEF DrainResult
<1>3. CASE r.kind = "finished"
  BY <1>1, <1>3, LossFinishTaken DEF DrainResult
<1>4. CASE r.kind \notin {"commit", "finished"}
  BY <1>1, <1>4, LossTurnSame DEF DrainResult
<1> QED BY <1>2, <1>3, <1>4

-----------------------------------------------------------------------------
(* What the loop sends the inference thread, and a capture from its start to
   what is sent of it. *)
LEMMA LossSends ==
  ASSUME LossHere, TypeOK', UNCHANGED <<engine, results, file, editor>>,
         Onto, CapturedStays, LifeStays, pc \notin Leaving, pc' \notin Leaving,
         \/ work' = work
         \/ \E x : work' = Append(work, x) /\ FinishWhole(x)' /\ StartSafe(x)',
         \A c \in Captures : trans'[c].stage # "none" =>
           \/ trans[c].stage # "none" /\ trans'[c].through = trans[c].through
           \/ c <= made' /\ (c \in Due' => Words(0, trans'[c].through) \subseteq Safe(file', editor', c)),
         \A c \in Captures : list'[c] # Gone =>
           \/ list'[c] = list[c]
           \/ trans'[c].stage # "none" /\ list'[c] = trans'[c].through,
         CaptureInv',
         \A c \in Due' : (c <= made /\ WaitMove(c)) \/ Accounted(c)'
  PROVE  LossInv'
<1>1. Moves(0) /\ TextMoves
  BY MovesNot, HereTyped DEF Moves, TextMoves
<1>2. EntriesSafe'
  BY <1>1, HereTyped, EntriesSafeOn
<1>3. \A k \in DOMAIN work' :
        \/ \E j \in DOMAIN work : work'[k] = work[j]
        \/ FinishWhole(work[k])' /\ StartSafe(work[k])'
  <2>1. CASE work' = work
    BY <2>1
  <2>2. ASSUME NEW x, work' = Append(work, x), FinishWhole(x)', StartSafe(x)'
        PROVE  \A k \in DOMAIN work' :
                 \/ \E j \in DOMAIN work : work'[k] = work[j]
                 \/ FinishWhole(work[k])' /\ StartSafe(work[k])'
    <3>1. \A k \in DOMAIN work' : work'[k] = x \/ (k \in DOMAIN work /\ work'[k] = work[k])
      BY <2>2, HereTyped
    <3> QED BY <2>2, <3>1 DEF FinishWhole, StartSafe
  <2> QED BY <2>1, <2>2
<1>4. \A k \in DOMAIN results' : k + 0 \in DOMAIN results /\ results'[k] = results[k + 0]
  BY HereTyped
<1>5. LeftBehind'
  BY DEF LeftBehind, Leaving
<1> QED BY <1>1, <1>2, <1>3, <1>4, <1>5, LoopLoss

LEMMA EndsStay ==
  ASSUME LossHere, UNCHANGED <<engine, results>>,
         work' = work \/ \E x : work' = Append(work, x)
  PROVE  /\ \A c : ToEnd(c) => ToEnd(c)'
         /\ \A x, c : work' = Append(work, x) /\ Closes(x, c) => ToEnd(c)'
<1>1. work \in Seq(Job)
  BY HereTyped
<1>2. \A k \in DOMAIN work : k \in DOMAIN work' /\ work'[k] = work[k]
  BY <1>1
<1>3. ASSUME NEW x, NEW c, work' = Append(work, x), Closes(x, c) PROVE ToEnd(c)'
  <2>1. Len(work) + 1 \in DOMAIN work' /\ work'[Len(work) + 1] = x
    BY <1>1, <1>3
  <2> QED BY <1>3, <2>1 DEF ToEnd
<1> QED BY <1>2, <1>3, ToEndOn

LEMMA LossDispatch == LossHere /\ TypeOK' /\ DispatchRecording => LossInv'
<1> SUFFICES ASSUME LossHere, TypeOK', DispatchRecording PROVE LossInv' OBVIOUS
<1>1. PICK c \in Undispatched :
        /\ work' = Append(work, RecordingWork(c, trans[c].through))
        /\ trans' = [trans EXCEPT ![c].stage = "sent"]
  BY EarliestWaits DEF DispatchRecording
<1>2. PICK x : x = RecordingWork(c, trans[c].through)
  OBVIOUS
<1>3. /\ UNCHANGED <<pc, session, mic, captured, wav, life, made, lost, crashed, list>>
      /\ UNCHANGED <<engine, results, file, editor>> /\ pc = "dispatch"
  BY DEF DispatchRecording, LoopAt, micVars, diskVars
<1>4. /\ c \in Captures /\ trans[c].stage = "kept" /\ trans \in [Captures -> Entry]
      /\ work' = Append(work, x)
      /\ x.kind = "recording" /\ x.c = c /\ x.start = trans[c].through
  BY <1>1, <1>2, HereTyped DEF Undispatched, RecordingWork, TypeOK
<1>5. /\ \A d \in Captures : d # c => trans'[d] = trans[d]
      /\ trans'[c].stage = "sent" /\ trans'[c].through = trans[c].through
  BY <1>1, <1>4 DEF Entry
<1>6. CaptureInv' /\ Due' = Due /\ Onto /\ CapturedStays /\ LifeStays /\ \A d : Forsaken(d)' = Forsaken(d)
  BY <1>3, QuietCapture
<1>7. FinishWhole(x)' /\ StartSafe(x)'
  <2>1. c \in Due => Words(0, trans[c].through) \subseteq Safe(file, editor, c)
    BY <1>4, HereTyped DEF EntriesSafe, SafeTo
  <2> QED BY <1>3, <1>4, <1>6, <2>1 DEF FinishWhole, StartSafe, SafeTo
<1>8. \A d \in Captures : trans'[d].stage # "none" =>
        trans[d].stage # "none" /\ trans'[d].through = trans[d].through
  BY <1>4, <1>5
<1>9. (\A d : ToEnd(d) => ToEnd(d)') /\ ToEnd(c)'
  BY <1>3, <1>4, EndsStay DEF Closes
<1>10. ASSUME NEW d \in Due' PROVE (d <= made /\ WaitMove(d)) \/ Accounted(d)'
  <2>1. d \in Captures /\ d <= made
    BY <1>6, <1>10, HereTyped, DueBegun
  <2>2. CASE d = c
    BY <1>5, <1>9, <2>2 DEF Accounted
  <2>3. CASE d # c
    BY <1>3, <1>5, <1>6, <1>9, <2>1, <2>3 DEF WaitMove
  <2> QED BY <2>2, <2>3
<1>11. pc \notin Leaving /\ pc' \notin Leaving
  BY <1>3 DEF Leaving
<1> QED BY <1>3, <1>4, <1>6, <1>7, <1>8, <1>10, <1>11, LossSends

LEMMA LossTakeCapture == LossHere /\ TypeOK' /\ TakeCapture => LossInv'
<1> SUFFICES ASSUME LossHere, TypeOK', TakeCapture PROVE LossInv' OBVIOUS
<1>1. PICK c : c = session.current
  OBVIOUS
<1>2. /\ UNCHANGED <<captured, wav, life, made, crashed>>
      /\ UNCHANGED <<engine, results, file, editor>>
      /\ pc = "postroll" /\ pc' = "requests" /\ mic' = None
  BY DEF TakeCapture, LoopAt
<1>3. /\ c \in Captures /\ c # None /\ c <= made /\ session.state = "transcribing"
      /\ session \in SessionState /\ trans \in [Captures -> Entry]
      /\ captured \in [Captures -> Frames] /\ mic \in {c, None}
      /\ c \in Due => life[c] = "released"
  BY <1>1, <1>2, HereTyped DEF TypeOK, Attached, SessionState, Lives, MicOpen, None
<1>4. session'.state # "recording" /\ session'.current = c /\ ~UnderWay'
  <2>1. session' \in {session, Finish(session, c)}
    BY <1>1 DEF TakeCapture
  <2>2. session'.state # "recording" /\ session'.current = c
    BY <1>1, <1>3, <2>1, SessionTurns
  <2> QED BY <1>2, <2>2 DEF UnderWay
<1>5. /\ made \in Nat /\ lost \subseteq lost' /\ Due' \subseteq Due
      /\ \A d \in Due' : d \in Due /\ d \in Captures /\ d <= made /\ d # None
  <2>1. lost \subseteq lost'
    BY DEF TakeCapture
  <2> QED BY <1>2, <2>1, HereTyped, DueBegun DEF Due, None, Captures
<1>6. Onto /\ CapturedStays /\ LifeStays
  BY <1>2, <1>5 DEF Onto, CapturedStays, LifeStays
<1>7. CaptureInv'
  <2>1. WavsWhole'
    BY <1>2, <1>5, HereTyped DEF WavsWhole
  <2>2. MicOpen'
    BY <1>2 DEF MicOpen
  <2>3. Lives'
    BY <1>2, <1>3, <1>4, HereTyped DEF Lives
  <2> QED BY <2>1, <2>2, <2>3 DEF CaptureInv
<1>8. \A d : Forsaken(d) => d = c
  BY <1>1, <1>2 DEF Forsaken
<1>9. pc \notin Leaving /\ pc' \notin Leaving
  BY <1>2 DEF Leaving
<1>10. ASSUME NEW d \in Due', d # c, trans'[d] = trans[d], \A e : ToEnd(e) => ToEnd(e)'
       PROVE  d <= made /\ WaitMove(d)
  BY <1>2, <1>5, <1>8, <1>10 DEF WaitMove
<1>11. CASE live
  <2>1. PICK x : x = FinishWork(c, base, captured[c])
    OBVIOUS
  <2>2. /\ work' = Append(work, x) /\ list' = list /\ lost' = lost
        /\ trans' = [trans EXCEPT ![c].stage = IF @ = "none" THEN @ ELSE "finishing"]
    BY <1>1, <1>11, <2>1 DEF TakeCapture
  <2>3. /\ \A d \in Captures : d # c => trans'[d] = trans[d]
        /\ trans'[c].stage = IF trans[c].stage = "none" THEN "none" ELSE "finishing"
        /\ trans'[c].through = trans[c].through
    BY <1>3, <2>2 DEF Entry
  <2>4. x.kind = "finish" /\ x.c = c /\ x.end = captured[c]
    BY <2>1 DEF FinishWork
  <2>5. FinishWhole(x)' /\ StartSafe(x)'
    BY <1>2, <1>3, <1>5, <2>4 DEF FinishWhole, StartSafe
  <2>6. (\A d : ToEnd(d) => ToEnd(d)') /\ ToEnd(c)'
    BY <1>2, <2>2, <2>4, EndsStay DEF Closes
  <2>7. \A d \in Captures : trans'[d].stage # "none" =>
          trans[d].stage # "none" /\ trans'[d].through = trans[d].through
    BY <2>3
  <2>8. ASSUME c \in Due' PROVE Accounted(c)'
    <3>1. Accounted(c) /\ c \in Due
      BY <1>5, <2>8, HereTyped DEF AccountedFor
    <3>2. Complete(c) => Complete(c)'
      <4>1. Moves(0) /\ TextMoves
        BY <1>2, MovesNot, HereTyped DEF Moves, TextMoves
      <4> QED BY <1>2, <1>3, <1>6, <4>1, HereTyped, CompleteOn
    <3> QED BY <1>2, <2>3, <2>6, <3>1, <3>2 DEF Accounted
  <2>9. \A d \in Due' : (d <= made /\ WaitMove(d)) \/ Accounted(d)'
    BY <1>5, <1>10, <2>3, <2>6, <2>8
  <2> QED BY <1>2, <1>6, <1>7, <1>9, <2>2, <2>5, <2>7, <2>9, LossSends
<1>12. CASE ~live
  <2>1. /\ work' = work /\ Persist(trans')
        /\ \/ trans[c].stage = "none" /\ lost' = lost \cup {c} /\ trans' = trans
           \/ trans[c].stage # "none" /\ trans' = [trans EXCEPT ![c].stage = "kept"]
    BY <1>1, <1>12 DEF TakeCapture
  <2>2. /\ \A d \in Captures : d # c => trans'[d] = trans[d]
        /\ trans'[c].through = trans[c].through
        /\ trans[c].stage # "none" => trans'[c].stage = "kept"
        /\ trans[c].stage = "none" => trans'[c].stage = "none" /\ c \notin Due'
    BY <1>3, <2>1 DEF Entry, Due
  <2>3. \A d \in Captures : trans'[d].stage # "none" =>
          trans[d].stage # "none" /\ trans'[d].through = trans[d].through
    BY <2>2
  <2>4. \A d : ToEnd(d) => ToEnd(d)'
    BY <1>2, <2>1, EndsStay
  <2>5. c \in Due' => Accounted(c)'
    BY <2>2 DEF Accounted
  <2>6. \A d \in Due' : (d <= made /\ WaitMove(d)) \/ Accounted(d)'
    BY <1>5, <1>10, <2>2, <2>4, <2>5
  <2>7. \A d \in Captures : list'[d] # Gone =>
          \/ list'[d] = list[d]
          \/ trans'[d].stage # "none" /\ list'[d] = trans'[d].through
    BY <2>1, HereTyped, ListedAnew
  <2> QED BY <1>2, <1>6, <1>7, <1>9, <2>1, <2>3, <2>6, <2>7, LossSends
<1> QED BY <1>11, <1>12

LEMMA LossStart == LossHere /\ TypeOK' /\ StartCapture => LossInv'
<1> SUFFICES ASSUME LossHere, TypeOK', StartCapture PROVE LossInv' OBVIOUS
<1>1. PICK c : c = made + 1
  OBVIOUS
<1>2. /\ made \in Nat /\ c \in Nat /\ made < c /\ c \in Captures /\ made' = c /\ c # None
      /\ UNCHANGED <<engine, results, file, editor, list, crashed>>
      /\ pc = "requests" /\ pc' = pc /\ session.state # "recording"
      /\ work' = work \/ work' = Append(work, LoadWork)
  BY <1>1, HereTyped, PipelineAssumption DEF StartCapture, LoopAt, Captures, None
<1>3. /\ mic = None /\ wav[c] = Gone /\ trans[c].stage = "none" /\ life[c] # "cancelled"
      /\ list \in [Captures -> Frames \cup {Gone}] /\ trans \in [Captures -> Entry]
      /\ wav \in [Captures -> Frames \cup {Gone}] /\ captured \in [Captures -> Frames]
      /\ life \in [Captures -> {"live", "released", "cancelled"}] /\ session \in SessionState
  <2>1. ~UnderWay
    BY <1>2 DEF UnderWay
  <2>2. trans[c].stage = "none" /\ life[c] # "cancelled"
    BY <1>2, HereTyped DEF EntriesSafe, Lives
  <2>3. wav[c] = Gone
    BY <1>2 DEF LossHere, OrderInv, TypeInv, Recorded
  <2> QED BY <2>1, <2>2, <2>3, HereTyped DEF MicOpen, TypeOK
<1>4. \/ /\ session' = Discarded(Started(session, c))
         /\ life' = [life EXCEPT ![c] = "cancelled"] /\ lost' = lost \cup {c}
         /\ UNCHANGED <<trans, mic, captured, wav>>
      \/ /\ session' = Started(session, c) /\ mic' = c
         /\ captured' = [captured EXCEPT ![c] = Preroll]
         /\ life' = life /\ lost' = lost
         /\ \/ /\ wav' = [wav EXCEPT ![c] = Preroll]
               /\ trans' = [trans EXCEPT ![c] = [Unlisted EXCEPT !.stage = "capturing"]]
            \/ UNCHANGED <<wav, trans>>
  BY <1>1 DEF StartCapture
<1>5. /\ session'.current = c
      /\ session'.state = "recording" \/ (c \in lost' /\ session'.state = "idle" /\ mic' = None)
      /\ mic' # None => session'.state = "recording" /\ mic' = c
      /\ c \notin lost' => session'.state = "recording" /\ life' = life
  <2>1. Started(session, c) \in SessionState
    BY <1>2, <1>3, SessionSteps
  <2>2. /\ Started(session, c).state = "recording" /\ Started(session, c).current = c
        /\ Discarded(Started(session, c)).state = "idle"
        /\ Discarded(Started(session, c)).current = Started(session, c).current
    BY <1>3, <2>1, SessionTurns
  <2> QED BY <1>3, <1>4, <2>2
<1>6. /\ \A d \in Captures : d # c => /\ trans'[d] = trans[d] /\ captured'[d] = captured[d]
                                      /\ wav'[d] = wav[d] /\ life'[d] = life[d]
      /\ trans'[c].stage \in {"none", "capturing"} /\ trans'[c].through \in {0, trans[c].through}
      /\ trans'[c].stage = "capturing" => trans'[c].through = 0
      /\ trans'[c].stage = "none" => wav'[c] = Gone
      /\ wav'[c] \in {Gone, captured'[c]} /\ lost \subseteq lost'
  BY <1>2, <1>3, <1>4 DEF Unlisted
<1>7. /\ \A d \in Due' : d \in Captures /\ d \notin lost' /\ d # None /\ (d = c \/ (d <= made /\ d # c /\ d \in Due))
      /\ \A d \in Captures : d <= made => d # c
  BY <1>1, <1>2, <1>6, PipelineAssumption DEF Due, Captures, None
<1>8. Onto /\ CapturedStays /\ LifeStays
  <2>1. Onto
    BY <1>1, <1>2, <1>7 DEF Onto
  <2>2. CapturedStays
    BY <1>6, <1>7 DEF CapturedStays
  <2>3. LifeStays
    BY <1>6, <1>7 DEF LifeStays
  <2> QED BY <2>1, <2>2, <2>3
<1>9. CaptureInv'
  <2>1. WavsWhole'
    BY <1>6, <1>7, HereTyped DEF WavsWhole
  <2>2. MicOpen'
    BY <1>5 DEF MicOpen, UnderWay
  <2>3. ASSUME NEW d \in Captures, life'[d] = "cancelled" PROVE d <= made'
    <3>1. made \in Nat /\ c <= made'
      BY <1>2, HereTyped DEF Captures
    <3>2. CASE c = d
      BY <3>1, <3>2
    <3>3. CASE c # d
      <4>1. d <= made
        BY <1>6, <2>3, <3>3, HereTyped DEF Lives
      <4> QED BY <1>2, <3>1, <4>1 DEF Captures
    <3> QED BY <3>2, <3>3
  <2>4. Lives'
    BY <1>2, <1>3, <1>5, <1>7, <2>3 DEF Lives
  <2> QED BY <2>1, <2>2, <2>4 DEF CaptureInv
<1>10. FinishWhole(LoadWork)' /\ StartSafe(LoadWork)'
  BY DEF FinishWhole, StartSafe, LoadWork, NoJob
<1>11. \A d \in Captures : trans'[d].stage # "none" =>
         \/ trans[d].stage # "none" /\ trans'[d].through = trans[d].through
         \/ d <= made' /\ (d \in Due' => Words(0, trans'[d].through) \subseteq Safe(file', editor', d))
  <2>1. Words(0, 0) = {}
    <3>1. \A i \in Speech : i \in Int
      BY PipelineAssumption
    <3> QED BY <3>1 DEF Words
  <2> QED BY <1>2, <1>6, <2>1
<1>12. \A d : ToEnd(d) => ToEnd(d)'
  BY <1>2, EndsStay
<1>13. ASSUME NEW d \in Due' PROVE (d <= made /\ WaitMove(d)) \/ Accounted(d)'
  <2>1. CASE d = c
    <3>1. session'.state = "recording" /\ Forsaken(c)'
      BY <1>5, <1>7, <1>13, <2>1 DEF Forsaken, UnderWay
    <3> QED BY <1>6, <2>1, <3>1 DEF Accounted
  <2>2. CASE d # c
    <3>1. d <= made /\ d \in Captures /\ ~Forsaken(d)
      BY <1>2, <1>7, <1>13, <2>2 DEF Forsaken, UnderWay
    <3>2. d # mic'
      BY <1>5, <1>7, <1>13, <2>2
    <3> QED BY <1>2, <1>6, <1>12, <2>2, <3>1, <3>2 DEF WaitMove
  <2> QED BY <2>1, <2>2
<1>14. pc \notin Leaving /\ pc' \notin Leaving
  BY <1>2 DEF Leaving
<1>15. work' = work \/ \E x : work' = Append(work, x) /\ FinishWhole(x)' /\ StartSafe(x)'
  BY <1>2, <1>10
<1> QED BY <1>2, <1>8, <1>9, <1>11, <1>13, <1>14, <1>15, LossSends

-----------------------------------------------------------------------------
(* What a process leaves behind, and what the next one makes of it. *)
LEMMA LossListed == LossHere /\ TypeOK' /\ ListWhatIsLeft => LossInv'
<1> SUFFICES ASSUME LossHere, TypeOK', ListWhatIsLeft PROVE LossInv' OBVIOUS
<1>1. /\ UNCHANGED <<engine, file, results, work, trans, captured, wav, mic, life, session, made,
                     crashed>>
      /\ pc = "draining" /\ pc' = "closing" /\ editor' = Append(editor, EditorQuit)
      /\ lost \subseteq lost'
  BY DEF ListWhatIsLeft, LoopAt, micVars
<1>2. /\ \A c \in Captures : list'[c] # Gone =>
             \/ list'[c] = list[c]
             \/ trans'[c].stage # "none" /\ list'[c] = trans'[c].through
      /\ \A c \in Captures : list'[c] = Gone => trans[c].stage = "none" \/ c \in lost'
  <2>1. trans \in [Captures -> Entry] /\ Gone \notin Frames
    BY HereTyped DEF TypeOK, Gone, Frames
  <2>2. CASE list' = ListOf(trans, {c \in Captures : Owed(trans[c])})
    BY <1>1, <2>1, <2>2 DEF ListOf, Owed, Entry
  <2>3. CASE list' = list /\ lost' = lost \cup {c \in Captures : Owed(trans[c])}
    BY <2>3 DEF Owed
  <2> QED BY <2>2, <2>3 DEF ListWhatIsLeft
<1>3. /\ made \in Nat /\ Due' \subseteq Due
      /\ \A c \in Due' : c \in Due /\ c \in Captures /\ c <= made /\ c \notin lost'
  BY <1>1, HereTyped, DueBegun DEF Due
<1>4. Onto /\ CapturedStays /\ LifeStays
  BY <1>1, <1>3 DEF Onto, CapturedStays, LifeStays
<1>5. Moves(0) /\ TextMoves
  <2>1. MovesOn(file, editor, results, file, editor', results, 0)
    BY <1>1, HereTyped, MovesSent
  <2>2. Len(results') >= Len(results) - 0
    BY <1>1, HereTyped
  <2> QED BY <1>1, <2>1, <2>2 DEF Moves, TextMoves
<1>6. EntriesSafe'
  <2>1. \A c \in Captures : trans'[c].stage # "none" =>
           trans[c].stage # "none" /\ trans'[c].through = trans[c].through
    BY <1>1
  <2> QED BY <1>4, <1>5, <2>1, HereTyped, EntriesSafeOn
<1>7. CaptureInv'
  <2>1. WavsWhole'
    BY <1>1, <1>3, HereTyped DEF WavsWhole
  <2>2. pc \in Leaving /\ pc' \in Leaving /\ pc # "postroll" /\ pc' # "postroll"
    BY <1>1 DEF Leaving
  <2>3. UnderWay' = UnderWay
    BY <1>1, <2>2 DEF UnderWay
  <2> QED BY <1>1, <2>1, <2>2, <2>3, HereTyped DEF CaptureInv, MicOpen, Lives
<1>8. \A c \in Due' : c <= made /\ WaitMove(c)
  <2>1. \A c : ToEnd(c)' = ToEnd(c) /\ Forsaken(c)'
    BY <1>1 DEF ToEnd, Forsaken
  <2> QED BY <1>1, <1>3, <2>1 DEF WaitMove
<1>9. LeftBehind'
  <2> SUFFICES ASSUME NEW c \in Due', list'[c] = Gone PROVE Complete(c)' \/ wav'[c] = Gone
    BY <1>1 DEF LeftBehind
  <2>1. trans[c].stage = "none" /\ c \in Due /\ c \in Captures /\ c <= made
    BY <1>2, <1>3
  <2>2. Complete(c) \/ wav[c] = Gone
    BY <1>1, <2>1, HereTyped DEF AccountedFor, Accounted
  <2>3. Complete(c) => Complete(c)'
    BY <1>1, <1>4, <1>5, <2>1, HereTyped, CompleteOn
  <2> QED BY <1>1, <2>2, <2>3
<1>10. /\ \A k \in DOMAIN results' : k + 0 \in DOMAIN results /\ results'[k] = results[k + 0]
       /\ \A k \in DOMAIN work' : \E j \in DOMAIN work : work'[k] = work[j]
  BY <1>1, HereTyped
<1> QED BY <1>1, <1>2, <1>4, <1>5, <1>6, <1>7, <1>8, <1>9, <1>10, LoopLoss

LEMMA LossEnds ==
  ASSUME LossHere, TypeOK', ProcessEnds, UNCHANGED <<captured, list, file, made>>,
         Due' \subseteq Due,
         \A c \in Due' : /\ wav'[c] = captured[c]
                         /\ Safe(file, editor, c) \subseteq Safe(file, <<>>, c)
                         /\ list[c] = Gone => Complete(c)
  PROVE  LossInv'
<1>1. /\ pc' = "down" /\ session' = NewSession /\ mic' = None
      /\ trans' = [c \in Captures |-> Unlisted] /\ life' = [c \in Captures |-> "live"]
      /\ engine' = [Loading EXCEPT !.phase = "exited"]
      /\ work' = <<>> /\ results' = <<>> /\ editor' = <<>>
  BY DEF ProcessEnds
<1>2. /\ made \in Nat /\ \A c \in Due' : c \in Due /\ c \in Captures /\ c # None
  BY HereTyped, DueBegun DEF None, Captures
<1>3. /\ engine'.id = None /\ engine'.phase = "exited" /\ engine'.job = NoJob
      /\ session'.current = None /\ session'.state = "idle" /\ None <= made
  BY <1>1, <1>2 DEF Loading, NewSession, None
<1>4. \A c \in Captures : trans'[c].stage = "none" /\ life'[c] = "live"
  BY <1>1 DEF Unlisted
<1>5. EntriesSafe'
  BY <1>4 DEF EntriesSafe
<1>6. \A c \in Due' : \A n : SafeTo(c, n) => SafeTo(c, n)'
  BY <1>1 DEF SafeTo
<1>7. ListSafe'
  <2> SUFFICES ASSUME NEW c \in Captures, list[c] # Gone
               PROVE  c <= made /\ (c \in Due' => Words(0, list[c]) \subseteq Safe(file', editor', c))
    BY DEF ListSafe, SafeTo
  <2> QED BY <1>1, <1>2, HereTyped DEF ListSafe, SafeTo
<1>8. ProgressSafe' /\ JobTrue'
  BY <1>2, <1>3 DEF ProgressSafe, JobTrue, FinishWhole, NoJob
<1>9. ResultsTrue' /\ WorkTrue'
  BY <1>1 DEF ResultsTrue, WorkTrue
<1>10. CaptureInv'
  <2>1. ~UnderWay'
    BY <1>1, <1>3 DEF UnderWay
  <2> QED BY <1>1, <1>3, <1>4, <2>1 DEF CaptureInv, WavsWhole, MicOpen, Lives
<1>11. AccountedFor'
  BY <1>1, <1>2, <1>4 DEF AccountedFor, Accounted
<1>12. LeftBehind'
  <2> SUFFICES ASSUME NEW c \in Due' PROVE wav'[c] = captured'[c] /\ (list'[c] = Gone => Complete(c)')
    BY <1>1 DEF LeftBehind
  <2>1. Complete(c) => Complete(c)'
    BY <1>1, <1>2 DEF Complete, SafeTo
  <2> QED BY <2>1
<1> QED BY <1>5, <1>7, <1>8, <1>9, <1>10, <1>11, <1>12 DEF LossInv, TextInv

LEMMA LossExit == LossHere /\ TypeOK' /\ Exit => LossInv'
<1> SUFFICES ASSUME LossHere, TypeOK', Exit PROVE LossInv' OBVIOUS
<1>1. /\ ProcessEnds /\ UNCHANGED <<captured, list, file, made>> /\ wav' = wav /\ crashed' = crashed
      /\ pc = "closing"
      /\ lost' = lost \cup {c \in Captures : Unwritten(c) \/ OnlyInMemory(c)}
  BY DEF Exit, LoopAt
<1>2. Due' \subseteq Due
  BY <1>1 DEF Due
<1>3. ASSUME NEW c \in Due'
      PROVE  /\ wav'[c] = captured[c]
             /\ Safe(file, editor, c) \subseteq Safe(file, <<>>, c)
             /\ list[c] = Gone => Complete(c)
  <2>1. c \in Due /\ c \in Captures /\ c <= made
    BY <1>2, <1>3, HereTyped, DueBegun
  <2>2. ~Unwritten(c) /\ wav[c] # Gone
    BY <1>1, <1>3, <2>1 DEF Due, OnlyInMemory
  <2>3. TextWithin(editor, "append", c, Len(editor) + 1) = {}
    BY <2>2 DEF TextWithin, TextOf, Unwritten
  <2> QED BY <1>1, <2>1, <2>2, <2>3, HereTyped DEF WavsWhole, LeftBehind, Safe
<1> QED BY <1>1, <1>2, <1>3, LossEnds

LEMMA LossCrash == LossHere /\ TypeOK' /\ Crash => LossInv'
<1> SUFFICES ASSUME LossHere, TypeOK', Crash PROVE LossInv' OBVIOUS
<1>1. /\ ProcessEnds /\ UNCHANGED <<captured, list, file, made>>
      /\ lost' = lost \cup {c \in 1..made : list[c] = Gone}
      /\ crashed' = crashed \cup {c \in 1..made : list[c] # Gone}
  BY DEF Crash
<1>2. Due' = {}
  BY <1>1 DEF Due
<1> QED BY <1>1, <1>2, LossEnds

LEMMA LossBoot == LossHere /\ TypeOK' /\ Boot => LossInv'
<1> SUFFICES ASSUME LossHere, TypeOK', Boot PROVE LossInv' OBVIOUS
<1>1. /\ UNCHANGED <<session, mic, captured, wav, list, file, life, work, results, editor, made,
                     lost, crashed>>
      /\ pc = "down" /\ pc' = "requests" /\ engine' = Loading
      /\ work = <<>> /\ results = <<>> /\ editor = <<>> /\ session.state = "idle"
  BY FromHere DEF Boot, LossHere, Emptied, Attached, micVars
<1>2. /\ Due' = Due /\ made \in Nat
      /\ \A c \in Due : c \in Captures /\ c # None
  BY <1>1, HereTyped, DueBegun DEF Due, None, Captures
<1>3. ~UnderWay /\ ~UnderWay'
  BY <1>1 DEF UnderWay
<1>4. \A c \in Captures :
        IF list[c] # Gone /\ wav[c] # Gone
          THEN trans'[c].stage = "kept" /\ trans'[c].through = list[c]
          ELSE trans'[c].stage = "none"
  BY DEF Boot, Unlisted
<1>5. EntriesSafe'
  BY <1>1, <1>2, <1>4, HereTyped DEF EntriesSafe, ListSafe, SafeTo
<1>6. ListSafe'
  BY <1>1, <1>2, HereTyped DEF ListSafe, SafeTo
<1>7. ProgressSafe' /\ JobTrue' /\ ResultsTrue' /\ WorkTrue'
  BY <1>1, <1>2 DEF ProgressSafe, JobTrue, FinishWhole, NoJob, Loading, ResultsTrue, WorkTrue, None
<1>8. CaptureInv'
  BY <1>1, <1>2, <1>3, HereTyped DEF CaptureInv, WavsWhole, MicOpen, Lives
<1>9. AccountedFor'
  <2> SUFFICES ASSUME NEW c \in Due PROVE Accounted(c)'
    BY <1>2 DEF AccountedFor
  <2>1. wav[c] = captured[c] /\ (list[c] = Gone => Complete(c)) /\ c \in Captures
    BY <1>1, <1>2, HereTyped DEF LeftBehind
  <2>2. wav[c] # Gone
    BY <2>1, HereTyped DEF TypeOK, Frames, Gone
  <2>3. Complete(c) => Complete(c)'
    BY <1>1 DEF Complete, SafeTo
  <2> QED BY <1>4, <2>1, <2>2, <2>3 DEF Accounted
<1>10. LeftBehind'
  BY <1>1 DEF LeftBehind
<1> QED BY <1>5, <1>6, <1>7, <1>8, <1>9, <1>10 DEF LossInv, TextInv

LEMMA LossStutters == LossHere /\ UNCHANGED vars => LossInv'
<1> SUFFICES ASSUME LossHere, UNCHANGED vars PROVE LossInv' OBVIOUS
<1>1. /\ UNCHANGED <<pc, session, trans, mic, captured, wav, list, file, life, engine, work>>
      /\ UNCHANGED <<results, editor, made, lost, crashed>>
  BY DEF vars, loopVars, micVars, diskVars, modelVars
<1>2. /\ Due' = Due /\ UnderWay' = UnderWay
      /\ \A c : /\ Forsaken(c)' = Forsaken(c) /\ ToEnd(c)' = ToEnd(c)
                /\ Complete(c)' = Complete(c) /\ Accounted(c)' = Accounted(c)
  BY <1>1 DEF Due, UnderWay, Forsaken, ToEnd, Complete, SafeTo, Accounted
<1>3. /\ EntriesSafe' = EntriesSafe /\ ListSafe' = ListSafe /\ ProgressSafe' = ProgressSafe
      /\ WorkTrue' = WorkTrue /\ JobTrue' = JobTrue /\ ResultsTrue' = ResultsTrue
  BY <1>1, <1>2 DEF EntriesSafe, ListSafe, ProgressSafe, WorkTrue, JobTrue, FinishWhole,
     StartSafe, ResultsTrue, ResultTrue, SaidTo, SafeTo, ReportedTo
<1>4. /\ CaptureInv' = CaptureInv /\ AccountedFor' = AccountedFor /\ LeftBehind' = LeftBehind
  BY <1>1, <1>2 DEF CaptureInv, WavsWhole, MicOpen, Lives, AccountedFor, LeftBehind
<1> QED BY <1>3, <1>4 DEF LossHere, LossInv, TextInv

LEMMA InitLoss == Init => LossInv
<1> SUFFICES ASSUME Init PROVE LossInv OBVIOUS
<1> USE DEF Init
<1>1. Due = {} /\ ~UnderWay
  BY DEF Due, UnderWay, NewSession
<1>2. EntriesSafe /\ ListSafe
  BY DEF EntriesSafe, ListSafe, Unlisted
<1>3. ProgressSafe /\ JobTrue /\ ResultsTrue /\ WorkTrue
  BY <1>1 DEF ProgressSafe, JobTrue, FinishWhole, NoJob, Loading, ResultsTrue, WorkTrue, None
<1>4. CaptureInv
  BY <1>1 DEF CaptureInv, WavsWhole, MicOpen, Lives, NewSession, None
<1>5. AccountedFor /\ LeftBehind
  BY <1>1 DEF AccountedFor, LeftBehind
<1> QED BY <1>2, <1>3, <1>4, <1>5 DEF LossInv, TextInv

LossAll == ReadyInv /\ OrderInv /\ LossInv

LEMMA StepLoss == LossAll /\ [Next]_vars => LossAll'
<1> SUFFICES ASSUME LossAll, [Next]_vars PROVE LossAll' OBVIOUS
<1>1. ReadyInv' /\ OrderInv'
  BY StepReady, StepOrder DEF LossAll
<1>2. LossHere /\ TypeOK'
  BY <1>1 DEF LossAll, LossHere, ReadyInv, Orders, NothingToDrop, OrderInv, TypeInv
<1>3. LossInv'
  BY <1>2, LossStutters, LossRecorder, LossStart, LossEndCapture, LossGivenUp, LossTurns,
     LossTakeCapture, LossDeliver, LossDispatch, LossShutDown, LossDrain, LossListed, LossExit,
     LossEngine, LossEditor, LossCrash, LossBoot
     DEF Next, User, Pass, Shutdown
<1> QED BY <1>1, <1>3 DEF LossAll

-----------------------------------------------------------------------------
(* With nothing on the way to it, what is safe is in the file. *)
LEMMA OnlyWritten ==
  ASSUME editor = <<>>, NEW c, NEW i, i \in Safe(file, editor, c)
  PROVE  Written(c, i)
BY DEF Safe, TextIn, TextWithin, Written

(* Whatever was captured, and neither thrown away nor told to the user, is in
   the dictation file once the daemon rests or has stopped, or is left in a
   WAV that has it, from which a next start reads (shell/daemon/mod.rs,
   deliver, shutdown and list_what_is_left; transcriptions.rs; engine.rs). *)
THEOREM NothingLost == Spec => []NothingIsLost
<1>1. LossAll => NothingIsLost
  <2> SUFFICES ASSUME LossAll, AtRest \/ pc = "down", NEW c \in Due,
                      NEW i \in Words(0, captured[c])
               PROVE  \/ Written(c, i)
                      \/ list[c] # Gone /\ list[c] < i /\ i <= wav[c]
                      \/ trans[c].stage = "retry" /\ trans[c].through < i /\ i <= wav[c]
                      \/ trans[c].stage = "retry" /\ wav[c] = Gone
    BY DEF NothingIsLost, Due
  <2>1. LossHere
    BY DEF LossAll, LossHere, ReadyInv, Orders, NothingToDrop
  <2>2. /\ editor = <<>> /\ c \in Captures /\ c <= made /\ i \in Speech /\ i \in Int
        /\ 0 < i /\ i <= captured[c] /\ captured[c] \in Int
        /\ list[c] \in Int /\ trans[c].through \in Int /\ trans[c].stage \in Stages
    <3>1. editor = <<>>
      BY FromHere DEF LossAll, Emptied, AtRest
    <3>2. c \in Captures /\ c <= made
      BY <2>1, HereTyped, DueBegun
    <3> QED BY <2>1, <3>1, <3>2, HereTyped, PipelineAssumption
            DEF Words, TypeOK, Entry, Frames, Gone
  <2>3. \A n \in Int : i <= n => i \in Words(0, n)
    BY <2>2 DEF Words
  <2>4. CASE pc = "down"
    <3>1. wav[c] = captured[c] /\ (list[c] = Gone => Complete(c))
      BY <2>1, <2>4, HereTyped DEF LeftBehind
    <3>2. CASE list[c] = Gone
      BY <2>2, <3>1, <3>2, OnlyWritten DEF Complete, SafeTo
    <3>3. CASE list[c] # Gone /\ i <= list[c]
      <4>1. i \in Safe(file, editor, c)
        BY <2>1, <2>2, <2>3, <3>3, HereTyped DEF ListSafe, SafeTo
      <4> QED BY <2>2, <4>1, OnlyWritten
    <3>4. CASE list[c] # Gone /\ list[c] < i
      BY <2>2, <3>1, <3>4
    <3> QED BY <2>2, <3>2, <3>3, <3>4
  <2>5. CASE AtRest
    <3>1. /\ pc = "requests" /\ ~Forsaken(c) /\ engine.job = NoJob
          /\ work = <<>> /\ results = <<>>
      BY <2>1, <2>5, HereTyped DEF AtRest, Forsaken, UnderWay, Numbered
    <3>2. ~ToEnd(c)
      BY <3>1 DEF ToEnd, Closes, NoJob
    <3>3. Accounted(c)
      BY <2>1, HereTyped DEF AccountedFor
    <3>4. trans[c].stage \notin {"capturing", "finishing", "sent"}
      BY <3>1, <3>2, <3>3 DEF Accounted
    <3>5. trans[c].stage # "kept"
      BY <2>2, <2>5 DEF AtRest, Undispatched
    <3>6. CASE trans[c].stage = "none"
      <4>1. Complete(c)
        BY <3>1, <3>2, <3>3, <3>6 DEF Accounted
      <4> QED BY <2>2, <4>1, OnlyWritten DEF Complete, SafeTo
    <3>7. CASE trans[c].stage = "retry" /\ i <= trans[c].through
      <4>1. i \in Safe(file, editor, c)
        BY <2>1, <2>2, <2>3, <3>7, HereTyped DEF EntriesSafe, SafeTo
      <4> QED BY <2>2, <4>1, OnlyWritten
    <3>8. CASE trans[c].stage = "retry" /\ trans[c].through < i
      <4>1. wav[c] \in {Gone, captured[c]}
        BY <2>1, HereTyped DEF WavsWhole
      <4> QED BY <2>2, <3>8, <4>1
    <3> QED BY <2>2, <3>4, <3>5, <3>6, <3>7, <3>8 DEF Stages
  <2> QED BY <2>4, <2>5
<1>2. Init => LossAll
  BY InitReady, InitOrder, InitLoss DEF LossAll
<1> QED BY <1>1, <1>2, StepLoss, PTL DEF Spec

(* What the list has the next start skip is in the file (shell/recorder.rs,
   save_unfinished and read_waiting_list; engine.rs, decode_recording), but
   for what was going on at a crash and what the user was told about. *)
THEOREM ListedIsWritten == Spec => []ListedTextIsWritten
<1>1. LossAll => ListedTextIsWritten
  <2> SUFFICES ASSUME LossAll, pc = "down", NEW c \in Captures, c \notin lost, c \notin crashed,
                      list[c] # Gone, NEW i \in Words(0, list[c])
               PROVE  Written(c, i)
    BY DEF ListedTextIsWritten
  <2>1. editor = <<>>
    BY FromHere DEF LossAll, Emptied
  <2>2. c <= made /\ (c \in Due => SafeTo(c, list[c]))
    BY DEF LossAll, LossInv, TextInv, ListSafe
  <2>3. c \in Due
    <3>1. made \in Nat
      BY FromHere DEF LossAll
    <3> QED BY <2>2, <3>1, PipelineAssumption DEF Due, Captures
  <2> QED BY <2>1, <2>2, <2>3, OnlyWritten DEF SafeTo
<1>2. Init => LossAll
  BY InitReady, InitOrder, InitLoss DEF LossAll
<1> QED BY <1>1, <1>2, StepLoss, PTL DEF Spec

(* Nothing spoken is lost, neither from the file nor on its way to the words:
   what the loop sends the worker of a capture never begins past where the
   worker is in it (shell/daemon/mod.rs, tick, and the hint that audio is
   discarded before; core/decode.rs, Worker::begin and what Worker::tick
   ensures).  Like the order of the words, it is so as long as no pass of the
   loop outlasts preview.interval. *)
THEOREM WordsNotLost ==
  ASSUME Faults["stall"] = 0
  PROVE  Spec => []NoWordIsLost
<1>1. Init => OnceInv /\ GapInv
  BY InitOnce, InitGap
<1>2. OnceInv /\ GapInv /\ [Next]_vars => (OnceInv /\ GapInv)'
  BY StepOnce, StepGap
<1>3. Spec => []WorkerHasNoGap
  BY <1>1, <1>2, NoGap, PTL DEF Spec
<1>4. Spec => []NothingIsLost
  BY NothingLost
<1>5. NothingIsLost /\ WorkerHasNoGap => NoWordIsLost
  BY DEF NoWordIsLost
<1> QED BY <1>3, <1>4, <1>5, PTL
=============================================================================
