----------------------------- MODULE OnceProofs ------------------------------
(***************************************************************************)
(* Proofs that the words of a capture are written once (Dictation), for    *)
(* every number of captures, frames, starts and faults, as long as no pass *)
(* of the loop stalls: where decoding begins, and what text there is by    *)
(* then; and that the worker is sent a capture without a gap.              *)
(***************************************************************************)
EXTENDS LoopProofs

-----------------------------------------------------------------------------
(* How far text reaches, and of which capture; what a queue holds of it. *)

Reach(x) == <<x.c, x.through>>
Reaches(q, kind) == {Reach(q[k]) : k \in {i \in DOMAIN q : q[i].kind = kind}}
InFile(f) == {Reach(f[k]) : k \in DOMAIN f}

UpTo(S, c, n) == \A p \in S : p[1] = c => p[2] <= n
Without(S, c) == \A p \in S : p[1] # c

(* Text is apart from text ahead of it, but of the captures excused, in X: what
   the file f holds, what the editor is sent e, results r. *)
Apart(x, y, X) == x.c = y.c => x.c \in X \/ x.through <= y.from
ApartFrom(q, x, kind, X) == \A i \in DOMAIN q : q[i].kind = kind => Apart(q[i], x, X)
FileApartFrom(f, x, X) == \A i \in DOMAIN f : Apart(f[i], x, X)
ApartWithin(q, kind, X) ==
  \A i, k \in DOMAIN q :
    i < k /\ q[i].kind = kind /\ q[k].kind = kind => Apart(q[i], q[k], X)
TextApart(f, e, r, X) ==
  /\ \A i, k \in DOMAIN f : i < k => Apart(f[i], f[k], X)
  /\ \A k \in DOMAIN e : e[k].kind = "append" => FileApartFrom(f, e[k], X)
  /\ \A k \in DOMAIN r : r[k].kind = "commit" =>
       FileApartFrom(f, r[k], X) /\ ApartFrom(e, r[k], "append", X)
  /\ ApartWithin(e, "append", X) /\ ApartWithin(r, "commit", X)

-----------------------------------------------------------------------------
(* What becomes of the text where the queues move. *)

LEMMA ReachAdded ==
  ASSUME NEW S, NEW q \in Seq(S), NEW x, NEW kind
  PROVE  /\ x.kind = kind => Reaches(Append(q, x), kind) = Reaches(q, kind) \cup {Reach(x)}
         /\ x.kind # kind => Reaches(Append(q, x), kind) = Reaches(q, kind)
         /\ InFile(Append(q, x)) = InFile(q) \cup {Reach(x)}
<1> DEFINE longer == Append(q, x)
<1>1. /\ \A k \in DOMAIN longer : \/ k = Len(q) + 1 /\ longer[k] = x
                                  \/ k \in DOMAIN q /\ longer[k] = q[k]
      /\ \A k \in DOMAIN q : k \in DOMAIN longer /\ longer[k] = q[k]
      /\ Len(q) + 1 \in DOMAIN longer /\ longer[Len(q) + 1] = x
  OBVIOUS
<1> HIDE DEF longer
<1> QED BY <1>1 DEF Reaches, InFile, longer

LEMMA ReachLeft ==
  ASSUME NEW S, NEW q \in Seq(S), q # <<>>, NEW kind
  PROVE  /\ Reaches(Tail(q), kind) \subseteq Reaches(q, kind)
         /\ Head(q).kind = kind => Reach(Head(q)) \in Reaches(q, kind)
<1> DEFINE rest == Tail(q)
           head == Head(q)
<1>1. /\ 1 \in DOMAIN q /\ head = q[1]
      /\ \A k \in DOMAIN rest : k + 1 \in DOMAIN q /\ rest[k] = q[k + 1]
  OBVIOUS
<1> HIDE DEF rest, head
<1> QED BY <1>1 DEF Reaches, rest, head

(* More captures excused. *)
LEMMA ApartExcused ==
  ASSUME NEW f, NEW e, NEW r, NEW X, NEW Y, X \subseteq Y, TextApart(f, e, r, X)
  PROVE  TextApart(f, e, r, Y)
<1>1. \A x, y : Apart(x, y, X) => Apart(x, y, Y)
  BY DEF Apart
<1> QED BY <1>1 DEF TextApart, FileApartFrom, ApartFrom, ApartWithin

(* A queue longer by one, and one shorter. *)
LEMMA ApartLonger ==
  ASSUME NEW S, NEW q \in Seq(S), NEW x, NEW kind, NEW X
  PROVE  /\ ApartWithin(q, kind, X) /\ (x.kind = kind => ApartFrom(q, x, kind, X))
              => ApartWithin(Append(q, x), kind, X)
         /\ \A y : ApartFrom(q, y, kind, X) /\ (x.kind = kind => Apart(x, y, X))
              => ApartFrom(Append(q, x), y, kind, X)
<1> DEFINE longer == Append(q, x)
<1>1. /\ \A k \in DOMAIN longer : \/ k = Len(q) + 1 /\ longer[k] = x
                                  \/ k \in DOMAIN q /\ longer[k] = q[k]
      /\ \A k \in DOMAIN q : k \in Nat /\ k < Len(q) + 1
  OBVIOUS
<1> HIDE DEF longer
<1>2. ASSUME ApartWithin(q, kind, X), x.kind = kind => ApartFrom(q, x, kind, X),
             NEW i \in DOMAIN longer, NEW k \in DOMAIN longer, i < k,
             longer[i].kind = kind, longer[k].kind = kind
      PROVE  Apart(longer[i], longer[k], X)
  <2>1. i \in DOMAIN q /\ longer[i] = q[i]
    BY <1>1, <1>2
  <2> QED BY <1>1, <1>2, <2>1 DEF ApartWithin, ApartFrom
<1>3. \A y : ApartFrom(q, y, kind, X) /\ (x.kind = kind => Apart(x, y, X))
        => ApartFrom(longer, y, kind, X)
  BY <1>1 DEF ApartFrom
<1> QED BY <1>2, <1>3 DEF ApartWithin, longer

LEMMA ApartShorter ==
  ASSUME NEW S, NEW q \in Seq(S), q # <<>>, NEW kind, NEW X
  PROVE  /\ ApartWithin(q, kind, X) => ApartWithin(Tail(q), kind, X)
         /\ ApartWithin(q, kind, X) /\ Head(q).kind = kind =>
              \A k \in DOMAIN Tail(q) : Tail(q)[k].kind = kind => Apart(Head(q), Tail(q)[k], X)
         /\ \A y : ApartFrom(q, y, kind, X) =>
              /\ ApartFrom(Tail(q), y, kind, X)
              /\ Head(q).kind = kind => Apart(Head(q), y, X)
         /\ \A k \in DOMAIN Tail(q) : \E i \in DOMAIN q : Tail(q)[k] = q[i]
         /\ \E i \in DOMAIN q : Head(q) = q[i]
<1> DEFINE rest == Tail(q)
           head == Head(q)
<1>1. /\ 1 \in DOMAIN q /\ head = q[1]
      /\ \A k \in DOMAIN rest : k \in Nat /\ 1 < k + 1 /\ k + 1 \in DOMAIN q /\ rest[k] = q[k + 1]
  OBVIOUS
<1>2. \A i, k \in DOMAIN rest : i < k => i + 1 < k + 1
  BY <1>1
<1> HIDE DEF rest, head
<1>3. ApartWithin(q, kind, X) => ApartWithin(rest, kind, X)
  BY <1>1, <1>2 DEF ApartWithin
<1>4. ApartWithin(q, kind, X) /\ head.kind = kind =>
        \A k \in DOMAIN rest : rest[k].kind = kind => Apart(head, rest[k], X)
  BY <1>1 DEF ApartWithin
<1>5. \A y : ApartFrom(q, y, kind, X) =>
        ApartFrom(rest, y, kind, X) /\ (head.kind = kind => Apart(head, y, X))
  BY <1>1 DEF ApartFrom
<1>6. (\A k \in DOMAIN rest : \E i \in DOMAIN q : rest[k] = q[i]) /\ \E i \in DOMAIN q : head = q[i]
  BY <1>1
<1> QED BY <1>3, <1>4, <1>5, <1>6 DEF rest, head
-----------------------------------------------------------------------------
(* What more text is to come.  P is how far text reaches that the file has or
   the editor is sent, C how far results do, j the job, id, th and at the
   worker's capture, offset and place, w the work queued; of the captures in T
   more work may be sent, those in W wait as recordings, of those in H nothing
   was sent yet; those in X are excused. *)

Decodes(x) == x.kind \in {"tick", "finish", "recording"}
OfSpeech(x) == x.kind \in {"tick", "finish"}
OfCapture(x, c) == Decodes(x) /\ x.c = c
NoneBefore(w, c, k) == \A i \in DOMAIN w : i < k => ~OfCapture(w[i], c)
Unspoken(S, j, w, c, k) == Without(S, c) /\ ~OfCapture(j, c) /\ NoneBefore(w, c, k)
Offset(id, th, c) == IF id = c THEN th ELSE 0
Source(w, T, c) == c \in T \/ \E k \in DOMAIN w : OfSpeech(w[k]) /\ w[k].c = c

(* The job goes on where the text of its capture ends. *)
JobFlows(S, j, id, th, at, X) ==
  Decodes(j) =>
    /\ id = j.c /\ (j.kind # "finish" => at = th)
    /\ j.c \notin X => UpTo(S, j.c, at)

(* A recording is read from where its text ends, and nothing before it is of
   its capture. *)
RecordingsFlow(P, C, j, w, X) ==
  \A k \in DOMAIN w : w[k].kind = "recording" =>
    /\ Unspoken(C, j, w, w[k].c, k)
    /\ w[k].c \notin X => UpTo(P, w[k].c, w[k].start)

(* The worker's offset is where text ends of what is decoded as it is spoken,
   as nothing comes between two parts of it. *)
SourcesFlow(S, j, id, th, w, T, X) ==
  \A c : Source(w, T, c) /\ c \notin X => UpTo(S, c, Offset(id, th, c)) \/ OfCapture(j, c)
TurnsFlow(S, j, w) ==
  \A i, k \in DOMAIN w :
    i < k /\ OfSpeech(w[k]) /\ Decodes(w[i]) /\ w[i].c # w[k].c
    => Unspoken(S, j, w, w[k].c, i)
ComingFlow(S, j, w, T) ==
  \A c \in T : \A i \in DOMAIN w :
    Decodes(w[i]) /\ w[i].c # c => Unspoken(S, j, w, c, i)

WaitingFlow(C, j, w, W) == \A c \in W : Unspoken(C, j, w, c, Len(w) + 1)
HushedFlow(S, j, w, H) == \A c \in H : Unspoken(S, j, w, c, Len(w) + 1)

Flow(P, C, j, id, th, at, w, T, W, H, X) ==
  /\ JobFlows(P \cup C, j, id, th, at, X)
  /\ RecordingsFlow(P, C, j, w, X)
  /\ SourcesFlow(P \cup C, j, id, th, w, T, X)
  /\ TurnsFlow(P \cup C, j, w)
  /\ ComingFlow(P \cup C, j, w, T)
  /\ WaitingFlow(C, j, w, W)
  /\ HushedFlow(P \cup C, j, w, H)

LEMMA UnspokenOf ==
  ASSUME NEW S, NEW j, NEW Q, NEW w \in Seq(Q), NEW c, NEW k, Unspoken(S, j, w, c, k)
  PROVE  /\ \A n : UpTo(S, c, n)
         /\ \A S2 : S2 \subseteq S => Unspoken(S2, j, w, c, k)
         /\ k = Len(w) + 1 => \A i \in DOMAIN w : Unspoken(S, j, w, c, i)
<1>1. k = Len(w) + 1 => \A i \in DOMAIN w : i < k
  OBVIOUS
<1> QED BY <1>1 DEF Unspoken, UpTo, Without, NoneBefore

(* Nothing is ahead of what joins T, or W, or H. *)
Joins(T, T2, S, j, w) == \A c \in T2 \ T : Unspoken(S, j, w, c, Len(w) + 1)

(* Text is passed on, or is gone; captures are excused. *)
LEMMA FlowOn ==
  ASSUME NEW P, NEW C, NEW j, NEW id, NEW th, NEW at, NEW Q, NEW w \in Seq(Q),
         NEW T, NEW W, NEW H, NEW X, Flow(P, C, j, id, th, at, w, T, W, H, X),
         NEW P2, P2 \subseteq P \cup C, NEW C2, C2 \subseteq C,
         NEW X2, X \subseteq X2, NEW T2, NEW W2, NEW H2,
         Joins(T, T2, P2 \cup C2, j, w), Joins(W, W2, C2, j, w), Joins(H, H2, P2 \cup C2, j, w)
  PROVE  Flow(P2, C2, j, id, th, at, w, T2, W2, H2, X2)
<1> DEFINE S == P \cup C
           S2 == P2 \cup C2
<1>0. S2 \subseteq S
  OBVIOUS
<1>1. /\ \A c, n : UpTo(S, c, n) => UpTo(S2, c, n)
      /\ \A c, n : UpTo(P, c, n) /\ Without(C, c) => UpTo(P2, c, n)
      /\ \A c, k : Unspoken(S, j, w, c, k) => Unspoken(S2, j, w, c, k)
      /\ \A c, k : Unspoken(C, j, w, c, k) => Unspoken(C2, j, w, c, k)
  BY DEF UpTo, Without, Unspoken
<1>2. JobFlows(S2, j, id, th, at, X2)
  BY <1>1 DEF Flow, JobFlows
<1>3. RecordingsFlow(P2, C2, j, w, X2)
  BY <1>1 DEF Flow, RecordingsFlow, Unspoken
<1>4. \A c \in T2 \ T : (\A n : UpTo(S2, c, n)) /\ \A i \in DOMAIN w : Unspoken(S2, j, w, c, i)
  BY UnspokenOf DEF Joins
<1> HIDE DEF S2
<1>5. SourcesFlow(S2, j, id, th, w, T2, X2)
  BY <1>1, <1>4 DEF Flow, SourcesFlow, Source
<1>6. TurnsFlow(S2, j, w) /\ ComingFlow(S2, j, w, T2)
  BY <1>1, <1>4 DEF Flow, TurnsFlow, ComingFlow
<1>7. WaitingFlow(C2, j, w, W2) /\ HushedFlow(S2, j, w, H2)
  BY <1>1 DEF Flow, WaitingFlow, HushedFlow, Joins, S2
<1> QED BY <1>2, <1>3, <1>5, <1>6, <1>7 DEF Flow, S2

(* More work is sent: of what more was to come, or of a recording that
   waited. *)
LEMMA FlowSent ==
  ASSUME NEW P, NEW C, NEW j, NEW id, NEW th, NEW at, NEW Q, NEW w \in Seq(Q),
         NEW T, NEW W, NEW H, NEW X, Flow(P, C, j, id, th, at, w, T, W, H, X), NEW x,
         OfSpeech(x) => x.c \in T,
         x.kind = "recording" =>
           Unspoken(C, j, w, x.c, Len(w) + 1) /\ (x.c \notin X => UpTo(P, x.c, x.start)),
         NEW T2 \in SUBSET T, NEW W2 \in SUBSET W, NEW H2 \in SUBSET H,
         \A c \in T2 : Decodes(x) /\ x.c # c => Unspoken(P \cup C, j, w, c, Len(w) + 1),
         \A c \in W2 \cup H2 : ~OfCapture(x, c)
  PROVE  Flow(P, C, j, id, th, at, Append(w, x), T2, W2, H2, X)
<1> DEFINE S == P \cup C
           longer == Append(w, x)
           n == Len(w) + 1
<1>1. /\ \A k \in DOMAIN longer : \/ k = n /\ longer[k] = x
                                  \/ k \in DOMAIN w /\ longer[k] = w[k]
      /\ \A k \in DOMAIN w : k \in Nat /\ k < n
      /\ n \in Nat /\ Len(longer) = n
  OBVIOUS
<1> HIDE DEF longer, n
<1>2. \A R, c, k : k \in DOMAIN w \/ k = n => (Unspoken(R, j, w, c, k) => Unspoken(R, j, longer, c, k))
  BY <1>1 DEF Unspoken, NoneBefore
<1>8. \A R, c : Unspoken(R, j, w, c, n) /\ ~OfCapture(x, c) => Unspoken(R, j, longer, c, n + 1)
  BY <1>1 DEF Unspoken, NoneBefore
<1>3. RecordingsFlow(P, C, j, longer, X)
  <2> SUFFICES ASSUME NEW k \in DOMAIN longer, longer[k].kind = "recording"
               PROVE  /\ Unspoken(C, j, longer, longer[k].c, k)
                      /\ longer[k].c \notin X => UpTo(P, longer[k].c, longer[k].start)
    BY DEF RecordingsFlow
  <2>1. CASE k = n /\ longer[k] = x
    BY <1>1, <1>2, <2>1 DEF n
  <2>2. CASE k \in DOMAIN w /\ longer[k] = w[k]
    BY <1>1, <1>2, <2>2 DEF Flow, RecordingsFlow
  <2> QED BY <1>1, <2>1, <2>2
<1>4. SourcesFlow(S, j, id, th, longer, T2, X)
  BY <1>1 DEF Flow, SourcesFlow, Source
<1>5. TurnsFlow(S, j, longer)
  <2> SUFFICES ASSUME NEW i \in DOMAIN longer, NEW k \in DOMAIN longer, i < k,
                      OfSpeech(longer[k]), Decodes(longer[i]), longer[i].c # longer[k].c
               PROVE  Unspoken(S, j, longer, longer[k].c, i)
    BY DEF TurnsFlow
  <2>1. i \in DOMAIN w /\ longer[i] = w[i]
    BY <1>1
  <2>2. Unspoken(S, j, w, longer[k].c, i)
    BY <1>1, <2>1 DEF Flow, TurnsFlow, ComingFlow
  <2> QED BY <1>2, <2>1, <2>2
<1>6. ComingFlow(S, j, longer, T2)
  <2> SUFFICES ASSUME NEW c \in T2, NEW i \in DOMAIN longer, Decodes(longer[i]), longer[i].c # c
               PROVE  Unspoken(S, j, longer, c, i)
    BY DEF ComingFlow
  <2>1. CASE i = n /\ longer[i] = x
    <3>1. Unspoken(S, j, w, c, n)
      BY <2>1 DEF n
    <3> QED BY <1>2, <2>1, <3>1
  <2>2. CASE i \in DOMAIN w /\ longer[i] = w[i]
    BY <1>1, <1>2, <2>2 DEF Flow, ComingFlow
  <2> QED BY <1>1, <2>1, <2>2
<1>7. WaitingFlow(C, j, longer, W2) /\ HushedFlow(S, j, longer, H2)
  BY <1>1, <1>8 DEF Flow, WaitingFlow, HushedFlow, n
<1> QED BY <1>3, <1>4, <1>5, <1>6, <1>7 DEF Flow, longer

(* What is ahead of work, as the thread takes the first of it. *)
LEMMA UnspokenBehind ==
  ASSUME NEW Q, NEW w \in Seq(Q), w # <<>>, NEW j,
         NEW j2, j2 = j \/ (j2.kind = Head(w).kind /\ j2.c = Head(w).c)
  PROVE  /\ \A k \in DOMAIN Tail(w) : k \in Nat /\ k + 1 \in DOMAIN w /\ Tail(w)[k] = w[k + 1]
         /\ Len(Tail(w)) + 1 = Len(w) /\ Len(w) \in Nat
         /\ \A S, c : \A k \in Nat : k >= 1 /\ Unspoken(S, j, w, c, k + 1)
                                     => Unspoken(S, j2, Tail(w), c, k)
<1> DEFINE rest == Tail(w)
           h == Head(w)
<1>1. /\ \A k \in DOMAIN rest : k \in Nat /\ k >= 1 /\ k + 1 \in DOMAIN w /\ rest[k] = w[k + 1]
      /\ 1 \in DOMAIN w /\ w[1] = h
      /\ Len(rest) + 1 = Len(w) /\ Len(w) \in Nat
  OBVIOUS
<1> HIDE DEF rest, h
<1>2. ASSUME NEW S, NEW c, NEW k \in Nat, k >= 1, Unspoken(S, j, w, c, k + 1)
      PROVE  Unspoken(S, j2, rest, c, k)
  <2>1. NoneBefore(rest, c, k)
    <3> SUFFICES ASSUME NEW i \in DOMAIN rest, i < k PROVE ~OfCapture(rest[i], c)
      BY DEF NoneBefore
    <3>1. i + 1 \in DOMAIN w /\ i + 1 < k + 1 /\ rest[i] = w[i + 1]
      BY <1>1
    <3> QED BY <1>2, <3>1 DEF Unspoken, NoneBefore
  <2>2. ~OfCapture(h, c)
    BY <1>1, <1>2 DEF Unspoken, NoneBefore
  <2>3. ~OfCapture(j2, c)
    BY <1>2, <2>2 DEF Unspoken, OfCapture, Decodes, h
  <2> QED BY <1>2, <2>1, <2>3 DEF Unspoken
<1> QED BY <1>1, <1>2 DEF rest, h

(* Work is gone from the queue, to be decoded or not. *)
LEMMA FlowShorter ==
  ASSUME NEW P, NEW C, NEW j, NEW id, NEW th, NEW at, NEW Q, NEW w \in Seq(Q),
         NEW T, NEW W, NEW H, NEW X, Flow(P, C, j, id, th, at, w, T, W, H, X),
         w # <<>>, NEW j2, j2 = j \/ (j2.kind = Head(w).kind /\ j2.c = Head(w).c)
  PROVE  /\ RecordingsFlow(P, C, j2, Tail(w), X)
         /\ TurnsFlow(P \cup C, j2, Tail(w)) /\ ComingFlow(P \cup C, j2, Tail(w), T)
         /\ WaitingFlow(C, j2, Tail(w), W) /\ HushedFlow(P \cup C, j2, Tail(w), H)
<1> DEFINE rest == Tail(w)
           S == P \cup C
<1>1. /\ \A k \in DOMAIN rest : k \in Nat /\ k >= 1 /\ k + 1 \in DOMAIN w /\ rest[k] = w[k + 1]
      /\ Len(rest) + 1 = Len(w) /\ Len(w) \in Nat /\ Len(w) >= 1
  BY UnspokenBehind
<1>2. \A R, c : \A k \in Nat : k >= 1 /\ Unspoken(R, j, w, c, k + 1) => Unspoken(R, j2, rest, c, k)
  BY UnspokenBehind
<1>3. \A i, k \in DOMAIN rest : i < k => i + 1 < k + 1
  BY <1>1
<1> HIDE DEF rest, S
<1>4. RecordingsFlow(P, C, j2, rest, X)
  BY <1>1, <1>2 DEF Flow, RecordingsFlow
<1>5. TurnsFlow(S, j2, rest)
  BY <1>1, <1>2, <1>3 DEF Flow, TurnsFlow, S
<1>6. ComingFlow(S, j2, rest, T)
  BY <1>1, <1>2 DEF Flow, ComingFlow, S
<1>7. WaitingFlow(C, j2, rest, W) /\ HushedFlow(S, j2, rest, H)
  BY <1>1, <1>2 DEF Flow, WaitingFlow, HushedFlow, S
<1> QED BY <1>4, <1>5, <1>6, <1>7 DEF rest, S

(* What is left to come had its turn, or nothing was said of it. *)
LEMMA SourcesLeft ==
  ASSUME NEW P, NEW C, NEW j, NEW id, NEW th, NEW at, NEW Q, NEW w \in Seq(Q),
         NEW T, NEW W, NEW H, NEW X, Flow(P, C, j, id, th, at, w, T, W, H, X), w # <<>>
  PROVE  \A c : Source(Tail(w), T, c) =>
           /\ Source(w, T, c)
           /\ Decodes(Head(w)) /\ Head(w).c # c => Without(P \cup C, c)
<1> DEFINE rest == Tail(w)
<1>1. /\ \A k \in DOMAIN rest : k + 1 \in DOMAIN w /\ 1 < k + 1 /\ rest[k] = w[k + 1]
      /\ 1 \in DOMAIN w /\ Head(w) = w[1]
  OBVIOUS
<1> HIDE DEF rest
<1> SUFFICES ASSUME NEW c, Source(rest, T, c)
             PROVE  /\ Source(w, T, c)
                    /\ Decodes(Head(w)) /\ Head(w).c # c => Without(P \cup C, c)
  BY DEF rest
<1>2. CASE c \in T
  BY <1>1, <1>2 DEF Flow, ComingFlow, Source, Unspoken
<1>3. CASE \E k \in DOMAIN rest : OfSpeech(rest[k]) /\ rest[k].c = c
  <2>1. PICK k \in DOMAIN w : 1 < k /\ OfSpeech(w[k]) /\ w[k].c = c
    BY <1>1, <1>3
  <2>2. Decodes(w[1]) /\ w[1].c # c => Unspoken(P \cup C, j, w, c, 1)
    BY <1>1, <2>1 DEF Flow, TurnsFlow
  <2> QED BY <1>1, <2>1, <2>2 DEF Source, Unspoken
<1> QED BY <1>2, <1>3 DEF Source

LEMMA FlowAnswered ==
  ASSUME NEW P, NEW C, NEW j, NEW id, NEW th, NEW at, NEW Q, NEW w \in Seq(Q),
         NEW T, NEW W, NEW H, NEW X, Flow(P, C, j, id, th, at, w, T, W, H, X),
         w # <<>>, ~Decodes(j), NEW id2, NEW th2, NEW at2,
         \/ id2 = id /\ th2 = th
         \/ Decodes(Head(w)) /\ id2 = Head(w).c /\ th2 = Offset(id, th, Head(w).c)
  PROVE  Flow(P, C, j, id2, th2, at2, Tail(w), T, W, H, X)
<1>1. ASSUME NEW c, Source(Tail(w), T, c), c \notin X
      PROVE  UpTo(P \cup C, c, Offset(id2, th2, c))
  <2>1. UpTo(P \cup C, c, Offset(id, th, c)) /\ (Decodes(Head(w)) /\ Head(w).c # c => Without(P \cup C, c))
    BY <1>1, SourcesLeft DEF Flow, SourcesFlow, OfCapture
  <2> QED BY <2>1 DEF Offset, UpTo, Without
<1>2. SourcesFlow(P \cup C, j, id2, th2, Tail(w), T, X)
  BY <1>1 DEF SourcesFlow
<1>3. JobFlows(P \cup C, j, id2, th2, at2, X)
  BY DEF JobFlows
<1> QED BY <1>2, <1>3, FlowShorter DEF Flow

LEMMA FlowTaken ==
  ASSUME NEW P, NEW C, NEW j, NEW id, NEW th, NEW at, NEW Q, NEW w \in Seq(Q),
         NEW T, NEW W, NEW H, NEW X, Flow(P, C, j, id, th, at, w, T, W, H, X),
         w # <<>>, ~Decodes(j), Decodes(Head(w)),
         NEW j2, j2.kind = Head(w).kind, j2.c = Head(w).c, NEW th2,
         \/ OfSpeech(Head(w)) /\ th2 = Offset(id, th, Head(w).c)
         \/ Head(w).kind = "recording" /\ th2 = Head(w).start
  PROVE  Flow(P, C, j2, Head(w).c, th2, th2, Tail(w), T, W, H, X)
<1> DEFINE h == Head(w)
<1>0. 1 \in DOMAIN w /\ h = w[1]
  OBVIOUS
<1>1. SourcesFlow(P \cup C, j2, h.c, th2, Tail(w), T, X)
  <2> SUFFICES ASSUME NEW c, Source(Tail(w), T, c), c # h.c
               PROVE  UpTo(P \cup C, c, Offset(h.c, th2, c))
    BY DEF SourcesFlow, OfCapture, Decodes
  <2>1. Without(P \cup C, c)
    BY SourcesLeft
  <2> QED BY <2>1 DEF UpTo, Without
<1>2. h.c \notin X => UpTo(P \cup C, h.c, th2)
  <2>1. CASE OfSpeech(h) /\ th2 = Offset(id, th, h.c)
    BY <1>0, <2>1 DEF Flow, SourcesFlow, Source, OfCapture
  <2>2. CASE h.kind = "recording" /\ th2 = h.start
    BY <1>0, <2>2 DEF Flow, RecordingsFlow, Unspoken, UpTo, Without
  <2> QED BY <2>1, <2>2
<1>3. JobFlows(P \cup C, j2, h.c, th2, th2, X)
  BY <1>2 DEF JobFlows
<1> QED BY <1>1, <1>3, FlowShorter DEF Flow

(* The job reports text of its capture, and its end. *)
LEMMA FlowReported ==
  ASSUME NEW P, NEW C, NEW j, NEW id, NEW th, NEW at \in Nat, NEW Q, NEW w \in Seq(Q),
         NEW T, NEW W, NEW H, NEW X, Flow(P, C, j, id, th, at, w, T, W, H, X),
         \A p \in P \cup C : p[2] \in Nat, Decodes(j), NEW n \in Nat, at < n,
         NEW th2, th2 = IF j.kind = "finish" THEN th ELSE n
  PROVE  Flow(P, C \cup {<<j.c, n>>}, j, id, th2, n, w, T, W, H, X)
<1> DEFINE D == C \cup {<<j.c, n>>}
           S == P \cup C
           R == P \cup D
<1>1. R = S \cup {<<j.c, n>>}
  OBVIOUS
<1>2. /\ \A c : c # j.c => /\ Without(S, c) => Without(R, c)
                           /\ Without(C, c) => Without(D, c)
                           /\ \A m : UpTo(S, c, m) => UpTo(R, c, m)
      /\ UpTo(S, j.c, at) => UpTo(R, j.c, n)
  BY <1>1 DEF Without, UpTo
<1> HIDE DEF D, S, R
<1>3. /\ \A c, k : Unspoken(S, j, w, c, k) => Unspoken(R, j, w, c, k)
      /\ \A c, k : Unspoken(C, j, w, c, k) => Unspoken(D, j, w, c, k)
  BY <1>2 DEF Unspoken, OfCapture
<1>4. JobFlows(R, j, id, th2, n, X)
  BY <1>2 DEF Flow, JobFlows, S
<1>5. RecordingsFlow(P, D, j, w, X)
  BY <1>3 DEF Flow, RecordingsFlow
<1>6. SourcesFlow(R, j, id, th2, w, T, X)
  <2> SUFFICES ASSUME NEW c, Source(w, T, c), c \notin X, ~OfCapture(j, c)
               PROVE  UpTo(R, c, Offset(id, th2, c))
    BY DEF SourcesFlow
  <2>1. c # j.c /\ id = j.c
    BY DEF OfCapture, Flow, JobFlows
  <2>2. UpTo(S, c, Offset(id, th, c))
    BY DEF Flow, SourcesFlow, S
  <2> QED BY <1>2, <2>1, <2>2 DEF Offset
<1>7. TurnsFlow(R, j, w) /\ ComingFlow(R, j, w, T)
  BY <1>3 DEF Flow, TurnsFlow, ComingFlow, S
<1>8. WaitingFlow(D, j, w, W) /\ HushedFlow(R, j, w, H)
  BY <1>3 DEF Flow, WaitingFlow, HushedFlow, S
<1> QED BY <1>4, <1>5, <1>6, <1>7, <1>8 DEF Flow, R, D

LEMMA FlowEnded ==
  ASSUME NEW P, NEW C, NEW j, NEW id, NEW th, NEW at, NEW Q, NEW w \in Seq(Q),
         NEW T, NEW W, NEW H, NEW X, Flow(P, C, j, id, th, at, w, T, W, H, X),
         Decodes(j), j.kind # "tick" => ~Source(w, T, j.c),
         NEW id2, NEW th2, NEW at2,
         \/ id2 = id /\ th2 = th
         \/ th2 = 0 /\ j.kind # "tick"
  PROVE  Flow(P, C, NoJob, id2, th2, at2, w, T, W, H, X)
<1>1. \A S, c, k : Unspoken(S, j, w, c, k) => Unspoken(S, NoJob, w, c, k)
  BY DEF Unspoken, OfCapture, Decodes, NoJob
<1>2. SourcesFlow(P \cup C, NoJob, id2, th2, w, T, X)
  <2> SUFFICES ASSUME NEW c, Source(w, T, c), c \notin X
               PROVE  UpTo(P \cup C, c, Offset(id2, th2, c))
    BY DEF SourcesFlow
  <2>1. id = j.c
    BY DEF Flow, JobFlows
  <2>2. CASE c = j.c
    BY <2>1, <2>2 DEF Flow, JobFlows, Offset
  <2>3. CASE c # j.c
    <3>1. UpTo(P \cup C, c, Offset(id, th, c))
      BY <2>3 DEF Flow, SourcesFlow, OfCapture
    <3> QED BY <2>1, <2>3, <3>1 DEF Offset
  <2> QED BY <2>2, <2>3
<1>3. JobFlows(P \cup C, NoJob, id2, th2, at2, X)
  BY DEF JobFlows, Decodes, NoJob
<1>4. RecordingsFlow(P, C, NoJob, w, X)
  BY <1>1 DEF Flow, RecordingsFlow
<1>5. TurnsFlow(P \cup C, NoJob, w) /\ ComingFlow(P \cup C, NoJob, w, T)
  BY <1>1 DEF Flow, TurnsFlow, ComingFlow
<1>6. WaitingFlow(C, NoJob, w, W) /\ HushedFlow(P \cup C, NoJob, w, H)
  BY <1>1 DEF Flow, WaitingFlow, HushedFlow
<1> QED BY <1>2, <1>3, <1>4, <1>5, <1>6 DEF Flow

(* Of a process that is gone only what is written is left. *)
LEMMA FlowGone ==
  ASSUME NEW P, NEW X, NEW id, NEW th, NEW at, NEW W
  PROVE  Flow(P, {}, NoJob, id, th, at, <<>>, {}, W, {}, X)
BY DEF Flow, JobFlows, RecordingsFlow, SourcesFlow, Source, TurnsFlow, ComingFlow, WaitingFlow,
       HushedFlow, Unspoken, Without, NoneBefore, OfCapture, Decodes, NoJob

-----------------------------------------------------------------------------
(* The moves of text, from the thread's results to the file. *)

LEMMA TextReported ==
  ASSUME NEW f, NEW e, NEW r \in Seq(Result), NEW X, TextApart(f, e, r, X), NEW x,
         x.kind = "commit" /\ x.c \notin X =>
           UpTo(InFile(f) \cup Reaches(e, "append") \cup Reaches(r, "commit"), x.c, x.from)
  PROVE  TextApart(f, e, Append(r, x), X)
<1> DEFINE longer == Append(r, x)
<1>1. \A k \in DOMAIN longer : \/ longer[k] = x
                               \/ k \in DOMAIN r /\ longer[k] = r[k]
  OBVIOUS
<1>2. x.kind = "commit" =>
        FileApartFrom(f, x, X) /\ ApartFrom(e, x, "append", X) /\ ApartFrom(r, x, "commit", X)
  <2> SUFFICES ASSUME x.kind = "commit"
               PROVE  /\ FileApartFrom(f, x, X) /\ ApartFrom(e, x, "append", X)
                      /\ ApartFrom(r, x, "commit", X)
    OBVIOUS
  <2>1. \A y : Reach(y) \in InFile(f) \cup Reaches(e, "append") \cup Reaches(r, "commit")
                => Apart(y, x, X)
    <3> DEFINE S == InFile(f) \cup Reaches(e, "append") \cup Reaches(r, "commit")
    <3> HIDE DEF S
    <3>1. x.c \notin X => UpTo(S, x.c, x.from)
      BY DEF S
    <3>2. \A y : Reach(y)[1] = y.c /\ Reach(y)[2] = y.through
      BY DEF Reach
    <3>3. \A y : Reach(y) \in S => Apart(y, x, X)
      BY <3>1, <3>2 DEF UpTo, Apart
    <3> QED BY <3>3 DEF S
  <2>2. FileApartFrom(f, x, X)
    BY <2>1 DEF FileApartFrom, InFile
  <2>3. ApartFrom(e, x, "append", X) /\ ApartFrom(r, x, "commit", X)
    BY <2>1 DEF ApartFrom, Reaches
  <2> QED BY <2>2, <2>3
<1>3. ApartWithin(longer, "commit", X)
  BY <1>2, ApartLonger DEF TextApart
<1> HIDE DEF longer
<1> QED BY <1>1, <1>2, <1>3 DEF TextApart, longer

LEMMA TextPassedOn ==
  ASSUME NEW f, NEW e \in Seq(EditorWork), NEW r \in Seq(Result), NEW X,
         TextApart(f, e, r, X), r # <<>>, NEW x,
         x.kind = "append" =>
           /\ Head(r).kind = "commit"
           /\ x.c = Head(r).c /\ x.from = Head(r).from /\ x.through = Head(r).through
  PROVE  TextApart(f, Append(e, x), Tail(r), X) /\ TextApart(f, e, Tail(r), X)
<1> DEFINE longer == Append(e, x)
           rest == Tail(r)
           h == Head(r)
<1>1. \A k \in DOMAIN longer : \/ longer[k] = x
                               \/ k \in DOMAIN e /\ longer[k] = e[k]
  OBVIOUS
<1>2. /\ ApartWithin(rest, "commit", X)
      /\ h.kind = "commit" =>
           \A k \in DOMAIN rest : rest[k].kind = "commit" => Apart(h, rest[k], X)
      /\ \A k \in DOMAIN rest : \E i \in DOMAIN r : rest[k] = r[i]
      /\ \E i \in DOMAIN r : h = r[i]
  BY ApartShorter DEF TextApart
<1> HIDE DEF h, rest
<1>3. /\ \A k \in DOMAIN rest : rest[k].kind = "commit" =>
            FileApartFrom(f, rest[k], X) /\ ApartFrom(e, rest[k], "append", X)
      /\ h.kind = "commit" => FileApartFrom(f, h, X) /\ ApartFrom(e, h, "append", X)
  BY <1>2 DEF TextApart
<1>4. x.kind = "append" =>
        /\ h.kind = "commit" /\ FileApartFrom(f, x, X) /\ ApartFrom(e, x, "append", X)
        /\ \A y : Apart(h, y, X) => Apart(x, y, X)
  BY <1>3 DEF FileApartFrom, ApartFrom, Apart, h
<1>5. ApartWithin(longer, "append", X)
  BY <1>4, ApartLonger DEF TextApart
<1>6. \A k \in DOMAIN rest : rest[k].kind = "commit" => ApartFrom(longer, rest[k], "append", X)
  BY <1>2, <1>3, <1>4, ApartLonger
<1> HIDE DEF longer
<1>7. \A k \in DOMAIN longer : longer[k].kind = "append" => FileApartFrom(f, longer[k], X)
  BY <1>1, <1>4 DEF TextApart
<1>8. TextApart(f, longer, rest, X)
  BY <1>2, <1>3, <1>5, <1>6, <1>7 DEF TextApart
<1>9. TextApart(f, e, rest, X)
  BY <1>2, <1>3 DEF TextApart
<1> QED BY <1>8, <1>9 DEF longer, rest

LEMMA TextSent ==
  ASSUME NEW f, NEW e \in Seq(EditorWork), NEW r, NEW X, TextApart(f, e, r, X),
         NEW x, x.kind # "append"
  PROVE  TextApart(f, Append(e, x), r, X)
<1> DEFINE longer == Append(e, x)
<1>1. \A k \in DOMAIN longer : \/ longer[k] = x
                               \/ k \in DOMAIN e /\ longer[k] = e[k]
  OBVIOUS
<1>2. /\ ApartWithin(longer, "append", X)
      /\ \A y : ApartFrom(e, y, "append", X) => ApartFrom(longer, y, "append", X)
  BY ApartLonger DEF TextApart
<1> HIDE DEF longer
<1> QED BY <1>1, <1>2 DEF TextApart, longer

LEMMA TextWritten ==
  ASSUME NEW S, NEW f \in Seq(S), NEW e \in Seq(EditorWork), NEW r, NEW X,
         TextApart(f, e, r, X), e # <<>>, NEW x,
         Head(e).kind = "append",
         x.c = Head(e).c, x.from = Head(e).from, x.through = Head(e).through
  PROVE  TextApart(Append(f, x), Tail(e), r, X)
<1> DEFINE longer == Append(f, x)
           rest == Tail(e)
           h == Head(e)
<1>1. /\ \A k \in DOMAIN longer : \/ k = Len(f) + 1 /\ longer[k] = x
                                  \/ k \in DOMAIN f /\ longer[k] = f[k]
      /\ \A k \in DOMAIN f : k \in Nat /\ k < Len(f) + 1
  OBVIOUS
<1>2. /\ ApartWithin(rest, "append", X)
      /\ \A k \in DOMAIN rest : rest[k].kind = "append" => Apart(h, rest[k], X)
      /\ \A y : ApartFrom(e, y, "append", X) => ApartFrom(rest, y, "append", X) /\ Apart(h, y, X)
      /\ \A k \in DOMAIN rest : \E i \in DOMAIN e : rest[k] = e[i]
      /\ \E i \in DOMAIN e : h = e[i]
  BY ApartShorter DEF TextApart
<1> HIDE DEF h, rest, longer
<1>3. /\ \A y : Apart(h, y, X) => Apart(x, y, X)
      /\ \A y : Apart(y, h, X) => Apart(y, x, X)
  BY DEF Apart, h
<1>4. \A y : FileApartFrom(f, y, X) /\ Apart(h, y, X) => FileApartFrom(longer, y, X)
  BY <1>1, <1>3 DEF FileApartFrom
<1>5. \A k \in DOMAIN rest : rest[k].kind = "append" => FileApartFrom(longer, rest[k], X)
  BY <1>2, <1>4 DEF TextApart
<1>6. \A k \in DOMAIN r : r[k].kind = "commit" =>
        FileApartFrom(longer, r[k], X) /\ ApartFrom(rest, r[k], "append", X)
  BY <1>2, <1>4 DEF TextApart
<1>7. FileApartFrom(f, h, X)
  BY <1>2 DEF TextApart, h
<1>8. ASSUME NEW i \in DOMAIN longer, NEW k \in DOMAIN longer, i < k
      PROVE  Apart(longer[i], longer[k], X)
  <2>1. i \in DOMAIN f /\ longer[i] = f[i]
    BY <1>1, <1>8
  <2> QED BY <1>1, <1>3, <1>7, <1>8, <2>1 DEF TextApart, FileApartFrom
<1> QED BY <1>2, <1>5, <1>6, <1>8 DEF TextApart, longer, rest

LEMMA TextDropped ==
  ASSUME NEW f, NEW e \in Seq(EditorWork), NEW r, NEW X, TextApart(f, e, r, X), e # <<>>
  PROVE  TextApart(f, Tail(e), r, X)
<1> DEFINE rest == Tail(e)
<1>1. /\ ApartWithin(rest, "append", X)
      /\ \A y : ApartFrom(e, y, "append", X) => ApartFrom(rest, y, "append", X)
      /\ \A k \in DOMAIN rest : \E i \in DOMAIN e : rest[k] = e[i]
  BY ApartShorter DEF TextApart
<1> HIDE DEF rest
<1> QED BY <1>1 DEF TextApart, rest

LEMMA TextGone ==
  ASSUME NEW f, NEW e, NEW r, NEW X, TextApart(f, e, r, X)
  PROVE  TextApart(f, <<>>, <<>>, X)
BY DEF TextApart, ApartWithin

-----------------------------------------------------------------------------
(* The pipeline. *)

(* Nothing is said of the captures the list named at a crash, and of none once
   the list could not be written. *)
Excused == IF ListIsCurrent THEN crashed ELSE Captures

Placed == InFile(file) \cup Reaches(editor, "append")
Committed == Reaches(results, "commit")

(* The capture whose ticks and final decode are to come; the recordings that
   wait; the capture under way that comes after them, or is one of them. *)
Ticking == UnderWay /\ live
Tickers == IF Ticking THEN {session.current} ELSE {}
Waiters == {c \in Captures : trans[c].stage = "kept"}
Hushed == IF UnderWay /\ (~live \/ Waiters # {}) THEN {session.current} ELSE {}

WrittenApart == TextApart(file, editor, results, Excused)
FlowsOn == Flow(Placed, Committed, engine.job, engine.id, engine.through, engine.at, work,
                Tickers, Waiters, Hushed, Excused)

(* What the daemon remembers, and a list it left, is no earlier than the
   text. *)
Entered ==
  \A c \in Captures : trans[c].stage # "none" =>
    c <= made /\ (c \notin Excused => UpTo(Placed, c, trans[c].through))
Listed ==
  \A c \in Captures : list[c] # Gone =>
    /\ c <= made
    /\ pc \in {"closing", "down"} /\ c \notin Excused => UpTo(Placed, c, list[c])

(* No tick goes before a recording that waits: it is not due in the pass its
   capture began in, and that one sends them. *)
NotDue == Ticking /\ Waiters # {} => session.tick # "due"
NoStall == faults["stall"] = 0

(* A segment ends behind what was decoded before it. *)
Forward == engine.segment # 0 => engine.at < engine.segment

OnceInv == /\ OrderInv /\ ReadyInv /\ OwedInv
           /\ WrittenApart /\ FlowsOn /\ Entered /\ Listed /\ NotDue /\ NoStall /\ Forward

LEMMA OnceFromHere ==
  OnceInv =>
    /\ TypeOK /\ TypeInv /\ Numbered /\ Attached /\ Emptied
    /\ editor \in Seq(EditorWork) /\ results \in Seq(Result) /\ work \in Seq(Job)
    /\ file \in Seq([c : Captures, from : Frames, through : Frames])
    /\ session \in SessionState /\ engine \in EngineState /\ trans \in [Captures -> Entry]
    /\ made \in Nat /\ WrittenApart /\ FlowsOn /\ Entered /\ Listed /\ NotDue /\ NoStall /\ Forward
BY FromHere DEF OnceInv, OrderInv, TypeInv

(* What a step never takes back. *)
LEMMA FaultsOnly ==
  TypeOK /\ [Next]_vars =>
    /\ faults' = faults \/ \E kind \in FaultKinds \ {"any"} : FaultHappens(kind)
    /\ crashed \subseteq crashed'
<1> SUFFICES ASSUME TypeOK, [Next]_vars
             PROVE  /\ faults' = faults \/ \E kind \in FaultKinds \ {"any"} : FaultHappens(kind)
                    /\ crashed \subseteq crashed'
  OBVIOUS
<1>1. \A kind \in {"load", "decode", "nomic", "notrecorded", "discard", "close", "prune",
                   "crash", "stop", "timeout", "persist", "cut", "stall"} :
        kind \in FaultKinds \ {"any"}
  BY DEF FaultKinds
<1>2. CASE Recorder \/ User \/ UNCHANGED vars
  BY <1>1, <1>2 DEF Recorder, AudioArrives, Prune, CutShort, User, StartCapture, EndCapture,
     DiscardCapture, AskToStop, CloseWindow, modelVars, vars
<1>3. CASE Pass
  BY <1>1, <1>3 DEF Pass, Deliver, TakeCapture, Persist, EndRequests, DeliverPreparing,
     DeliverReady, DeliverUnavailable, DeliverWindowClosed, DeliverCommit, DeliverTick,
     DeliverFinished, EndResults, SendTick, NoTick, DispatchRecording, EndPass, Stall, modelVars
<1>4. CASE Shutdown \/ Crash \/ Boot
  BY <1>1, <1>4 DEF Shutdown, ShutDown, JoinEngine, Joined, DrainResult, ListWhatIsLeft, Exit,
     Crash, Boot, modelVars
<1>5. CASE Engine \/ Editor
  BY <1>1, <1>5 DEF Engine, Load, TakeWork, Decode, LoadSucceeds, LoadFails, TakeWhileFailed,
     TakeTick, TakeFinish, TakeRecording, TakeQuit, DecodeSegment, CommitSegment,
     CommitSilence, JobDone, JobFails, engineOnly, Editor, WriteText, CopyText, EditorQuits,
     modelVars
<1> QED BY <1>2, <1>3, <1>4, <1>5 DEF Next

(* What becomes of the worker's progress. *)
LEMMA ProgressLeft ==
  ASSUME NEW e \in EngineState
  PROVE  /\ \A phase : LET n == [e EXCEPT !.phase = phase]
                      IN  /\ n.id = e.id /\ n.through = e.through
                          /\ n.at = e.at /\ n.segment = e.segment
         /\ \A c : LET n == Begun(e, c)
                  IN  /\ n.id = c /\ n.through = Offset(e.id, e.through, c)
                      /\ n.at = e.at /\ n.segment = e.segment
         /\ \A c, job, at : LET n == Busy(Begun(e, c), job, at)
                           IN  /\ n.id = c /\ n.through = Offset(e.id, e.through, c)
                               /\ n.at = at /\ n.segment = 0
         /\ \A c, from, job, at : LET n == Busy(Resumed(e, c, from), job, at)
                                 IN  /\ n.id = c /\ n.through = from
                                     /\ n.at = at /\ n.segment = 0
         /\ Rest(e).id = e.id /\ Rest(e).through = e.through /\ Rest(e).segment = 0
         /\ Rest(ResetProgress(e)).through = 0 /\ Rest(ResetProgress(e)).segment = 0
         /\ \A i : LET n == CommitThrough(e, i)
                  IN  /\ n.id = e.id /\ n.at = i /\ n.segment = 0
                      /\ n.through = IF e.job.kind = "finish" THEN e.through ELSE i
<1> USE DEF EngineState
<1>1. \A c : /\ Begun(e, c).id = c /\ Begun(e, c).through = Offset(e.id, e.through, c)
             /\ Begun(e, c).at = e.at /\ Begun(e, c).segment = e.segment
  BY DEF Begun, Offset
<1>2. \A c, job, at : LET n == Busy(Begun(e, c), job, at)
                     IN  /\ n.id = c /\ n.through = Offset(e.id, e.through, c)
                         /\ n.at = at /\ n.segment = 0
  BY DEF Begun, Busy, Offset
<1>3. \A c, from, job, at : LET n == Busy(Resumed(e, c, from), job, at)
                           IN  n.id = c /\ n.through = from /\ n.at = at /\ n.segment = 0
  BY DEF Resumed, Busy
<1>4. /\ Rest(e).id = e.id /\ Rest(e).through = e.through /\ Rest(e).segment = 0
      /\ Rest(ResetProgress(e)).through = 0 /\ Rest(ResetProgress(e)).segment = 0
  BY DEF Rest, ResetProgress
<1>5. \A i : LET n == CommitThrough(e, i)
            IN  /\ n.id = e.id /\ n.at = i /\ n.segment = 0
                /\ n.through = IF e.job.kind = "finish" THEN e.through ELSE i
  BY DEF CommitThrough
<1> QED BY <1>1, <1>2, <1>3, <1>4, <1>5

LEMMA StepForward == TypeOK /\ Forward /\ [Next]_vars => Forward'
<1> SUFFICES ASSUME TypeOK, Forward, [Next]_vars PROVE Forward' OBVIOUS
<1>1. engine \in EngineState
  BY DEF TypeOK
<1>2. CASE \/ Recorder \/ User \/ Pass \/ Shutdown \/ Editor \/ Crash \/ Boot
           \/ UNCHANGED vars
  <2>1. engine' \in {engine, [Loading EXCEPT !.phase = "exited"], Loading}
    BY <1>2 DEF Recorder, AudioArrives, Prune, CutShort, User, StartCapture, EndCapture,
       DiscardCapture, AskToStop, CloseWindow, Pass, Deliver, TakeCapture, EndRequests,
       DeliverPreparing, DeliverReady, DeliverUnavailable, DeliverWindowClosed, DeliverCommit,
       DeliverTick, DeliverFinished, EndResults, SendTick, NoTick, DispatchRecording, EndPass,
       Stall, Shutdown, ShutDown, JoinEngine, DrainResult, ListWhatIsLeft, Exit, ProcessEnds,
       Editor, WriteText, CopyText, EditorQuits, Crash, Boot, vars
  <2> QED BY <2>1 DEF Forward, Loading
<1>3. CASE Engine
  <2>1. CASE Load \/ TakeWork
    <3>1. \/ engine' = engine
          \/ \E phase : engine' = [engine EXCEPT !.phase = phase]
          \/ \E c : engine' = Begun(engine, c)
          \/ \E c, job, at : engine' = Busy(Begun(engine, c), job, at)
          \/ \E c, from, job, at : engine' = Busy(Resumed(engine, c, from), job, at)
      BY <2>1 DEF Load, LoadSucceeds, LoadFails, TakeWork, TakeWhileFailed, TakeTick,
         TakeFinish, TakeRecording, TakeQuit
    <3>2. \/ engine'.segment = engine.segment /\ engine'.at = engine.at
          \/ engine'.segment = 0
      <4>1. CASE engine' = engine
        BY <4>1
      <4>2. ASSUME NEW phase, engine' = [engine EXCEPT !.phase = phase]
            PROVE  engine'.segment = engine.segment /\ engine'.at = engine.at
        BY <1>1, <4>2, ProgressLeft
      <4>3. ASSUME NEW c, engine' = Begun(engine, c)
            PROVE  engine'.segment = engine.segment /\ engine'.at = engine.at
        BY <1>1, <4>3, ProgressLeft
      <4>4. ASSUME NEW c, NEW job, NEW at, engine' = Busy(Begun(engine, c), job, at)
            PROVE  engine'.segment = 0
        BY <1>1, <4>4, ProgressLeft
      <4>5. ASSUME NEW c, NEW from, NEW job, NEW at,
                   engine' = Busy(Resumed(engine, c, from), job, at)
            PROVE  engine'.segment = 0
        BY <1>1, <4>5, ProgressLeft
      <4> QED BY <3>1, <4>1, <4>2, <4>3, <4>4, <4>5
    <3> QED BY <3>2 DEF Forward
  <2>2. CASE \E e \in 1..MaxFrames : DecodeSegment(e)
    <3>1. PICK e \in 1..MaxFrames : /\ e \in Words(engine.at, engine.job.end)
                                    /\ engine' = [engine EXCEPT !.segment = e]
      BY <2>2 DEF DecodeSegment
    <3>2. engine'.at = engine.at /\ engine'.segment = e
      BY <1>1, <3>1 DEF EngineState
    <3> QED BY <3>1, <3>2 DEF Forward, Words
  <2>3. CASE Decode /\ ~\E e \in 1..MaxFrames : DecodeSegment(e)
    <3>1. \/ \E i : engine' = CommitThrough(engine, i)
          \/ engine' \in {Rest(engine), Rest(ResetProgress(engine))}
      BY <2>3 DEF Decode, CommitSegment, CommitSilence, JobDone, JobFails, JobEnded
    <3> QED BY <1>1, <3>1, ProgressLeft DEF Forward
  <2> QED BY <1>3, <2>1, <2>2, <2>3 DEF Engine
<1> QED BY <1>2, <1>3 DEF Next

Onward == Excused \subseteq Excused' /\ NoStall' /\ Forward'

LEMMA StepOnward == OnceInv /\ OwedInv' /\ [Next]_vars => Onward
<1> SUFFICES ASSUME OnceInv, OwedInv', [Next]_vars PROVE Onward OBVIOUS
<1>1. /\ TypeOK /\ faults \in [FaultKinds -> Nat] /\ {"any", "stall", "persist"} \subseteq FaultKinds
      /\ faults["stall"] = 0 /\ faults["persist"] \in Nat /\ Faults["persist"] \in Nat
      /\ faults["persist"] <= Faults["persist"]
  BY PipelineAssumption DEF OnceInv, OwedInv, TypeInv, TypeOK, FaultKinds, NoStall, WritesLeft
<1>2. /\ faults' = faults \/ \E kind \in FaultKinds \ {"any"} : FaultHappens(kind)
      /\ crashed \subseteq crashed'
  BY <1>1, FaultsOnly
<1>3. faults'["stall"] = 0 /\ FewerFaults
  <2>1. CASE faults' = faults
    BY <1>1, <2>1 DEF FewerFaults
  <2>2. ASSUME NEW kind \in FaultKinds \ {"any"}, FaultHappens(kind)
        PROVE  faults'["stall"] = 0 /\ FewerFaults
    <3>1. kind # "stall"
      BY <1>1, <2>2 DEF FaultHappens
    <3>2. faults'["stall"] = faults["stall"]
      BY <1>1, <2>2, <3>1 DEF FaultHappens
    <3> QED BY <1>1, <2>2, <3>2, FaultsFall
  <2> QED BY <1>2, <2>1, <2>2
<1>4. ListIsCurrent' => ListIsCurrent
  <2>1. faults'["persist"] \in Nat
    BY DEF OwedInv, TypeInv, TypeOK, FaultKinds
  <2> QED BY <1>1, <1>3, <2>1 DEF FewerFaults, ListIsCurrent
<1>5. crashed \subseteq Captures
  BY <1>1 DEF TypeOK
<1>6. Forward'
  BY <1>1, StepForward, OnceFromHere
<1> QED BY <1>2, <1>3, <1>4, <1>5, <1>6 DEF Onward, Excused, NoStall

(* A queue that something not of a kind joins, or that is read from. *)
QueueMove(q, q2, kind) ==
  \/ q2 = q
  \/ q # <<>> /\ q2 = Tail(q)
  \/ \E x : x.kind # kind /\ q2 = Append(q, x)

LEMMA QueueMoves ==
  ASSUME NEW S, NEW q \in Seq(S), NEW q2, NEW kind, QueueMove(q, q2, kind)
  PROVE  Reaches(q2, kind) \subseteq Reaches(q, kind)
<1>1. CASE q2 = q
  BY <1>1
<1>2. CASE q # <<>> /\ q2 = Tail(q)
  BY <1>2, ReachLeft
<1>3. ASSUME NEW x, x.kind # kind, q2 = Append(q, x)
      PROVE  Reaches(q2, kind) \subseteq Reaches(q, kind)
  BY <1>3, ReachAdded
<1> QED BY <1>1, <1>2, <1>3 DEF QueueMove

LEMMA TextQueued ==
  ASSUME NEW f, NEW e \in Seq(EditorWork), NEW r \in Seq(Result), NEW X, TextApart(f, e, r, X)
  PROVE  /\ \A e2 : QueueMove(e, e2, "append") => TextApart(f, e2, r, X)
         /\ \A r2 : QueueMove(r, r2, "commit") => TextApart(f, e, r2, X)
<1>1. ASSUME NEW e2, QueueMove(e, e2, "append") PROVE TextApart(f, e2, r, X)
  BY <1>1, TextSent, TextDropped DEF QueueMove
<1>2. ASSUME NEW r2, QueueMove(r, r2, "commit") PROVE TextApart(f, e, r2, X)
  <2>1. CASE r # <<>> /\ r2 = Tail(r)
    <3>1. EditorQuit.kind # "append"
      BY DEF EditorQuit
    <3> QED BY <2>1, <3>1, TextPassedOn
  <2>2. ASSUME NEW x, x.kind # "commit", r2 = Append(r, x) PROVE TextApart(f, e, r2, X)
    BY <2>2, TextReported
  <2> QED BY <1>2, <2>1, <2>2 DEF QueueMove
<1> QED BY <1>1, <1>2

(* A step that begins no capture and sends no work. *)
LEMMA OnceOn ==
  ASSUME OnceInv, OrderInv', ReadyInv', OwedInv', Onward, work' = work,
         engine'.job = engine.job, engine'.id = engine.id,
         engine'.through = engine.through, engine'.at = engine.at,
         UnderWay' => UnderWay /\ session'.current = session.current /\ live' = live,
         Waiters' \subseteq Waiters,
         Placed' \subseteq Placed \cup Committed, Committed' \subseteq Committed,
         TextApart(file', editor', results', Excused), Entered', Listed', NotDue'
  PROVE  OnceInv'
<1>1. Tickers' \ Tickers = {} /\ Waiters' \ Waiters = {} /\ Hushed' \ Hushed = {}
  <2>1. Waiters' # {} => Waiters # {}
    OBVIOUS
  <2>2. Tickers' \subseteq Tickers
    BY DEF Tickers, Ticking
  <2>3. Hushed' \subseteq Hushed
    BY <2>1 DEF Hushed
  <2> QED BY <2>2, <2>3
<1>2. WrittenApart'
  BY ApartExcused DEF WrittenApart, Onward
<1>3. FlowsOn'
  <2>1. Flow(Placed, Committed, engine.job, engine.id, engine.through, engine.at, work,
             Tickers, Waiters, Hushed, Excused) /\ work \in Seq(Job) /\ Excused \subseteq Excused'
    BY OnceFromHere DEF FlowsOn, Onward
  <2>2. /\ Joins(Tickers, Tickers', Placed' \cup Committed', engine.job, work)
        /\ Joins(Waiters, Waiters', Committed', engine.job, work)
        /\ Joins(Hushed, Hushed', Placed' \cup Committed', engine.job, work)
    BY <1>1 DEF Joins
  <2>3. Flow(Placed', Committed', engine.job, engine.id, engine.through, engine.at, work,
             Tickers', Waiters', Hushed', Excused')
    BY <2>1, <2>2, FlowOn
  <2> QED BY <2>3 DEF FlowsOn
<1> QED BY <1>2, <1>3 DEF OnceInv, Onward

(* One that adds no text, either. *)
EntriesStay ==
  \A c \in Captures : trans'[c].stage # "none" =>
    trans[c].stage # "none" /\ trans'[c].through = trans[c].through
ListStays ==
  \A c \in Captures : list'[c] # Gone =>
    \/ list'[c] = list[c] /\ (pc' \in {"closing", "down"} => pc \in {"closing", "down"})
    \/ list'[c] = list[c] /\ Excused' = Captures
    \/ trans'[c].stage # "none"
         /\ (pc' \in {"closing", "down"} => list'[c] = trans'[c].through)

LEMMA OnceLists ==
  ASSUME OnceInv, Onward, made' = made, Placed' \subseteq Placed, EntriesStay, ListStays
  PROVE  Entered' /\ Listed'
<1>1. \A c, n : UpTo(Placed, c, n) => UpTo(Placed', c, n)
  BY DEF UpTo
<1>2. Entered'
  BY <1>1, OnceFromHere DEF Entered, EntriesStay, Onward
<1>3. Listed'
  <2> SUFFICES ASSUME NEW c \in Captures, list'[c] # Gone
               PROVE  /\ c <= made'
                      /\ pc' \in {"closing", "down"} /\ c \notin Excused' => UpTo(Placed', c, list'[c])
    BY DEF Listed
  <2>1. CASE list'[c] = list[c]
    BY <1>1, <1>2, <2>1, OnceFromHere DEF Listed, ListStays, Onward, Entered
  <2>2. CASE /\ trans'[c].stage # "none"
             /\ pc' \in {"closing", "down"} => list'[c] = trans'[c].through
    BY <1>2, <2>2 DEF Entered
  <2> QED BY <2>1, <2>2 DEF ListStays
<1> QED BY <1>2, <1>3

LEMMA OnceCalm ==
  ASSUME OnceInv, OrderInv', ReadyInv', OwedInv', Onward, UNCHANGED <<file, made, work>>,
         engine'.job = engine.job, engine'.id = engine.id,
         engine'.through = engine.through, engine'.at = engine.at,
         QueueMove(editor, editor', "append"), QueueMove(results, results', "commit"),
         UnderWay' => UnderWay /\ session'.current = session.current /\ live' = live,
         \A c \in Captures : trans'[c].stage = "kept" => trans[c].stage = "kept",
         Ticking' /\ Waiters' # {} /\ session'.tick = "due" => session.tick = "due",
         EntriesStay, ListStays
  PROVE  OnceInv'
<1>1. Placed' \subseteq Placed /\ Committed' \subseteq Committed
  BY QueueMoves, OnceFromHere DEF Placed, Committed
<1>2. TextApart(file', editor', results', Excused)
  <2>1. TextApart(file, editor', results, Excused) /\ editor' \in Seq(EditorWork)
    BY TextQueued, OnceFromHere DEF WrittenApart, OrderInv, TypeInv, TypeOK
  <2> QED BY <2>1, TextQueued, OnceFromHere
<1>3. Entered' /\ Listed'
  BY <1>1, OnceLists
<1>4. Waiters' \subseteq Waiters
  BY DEF Waiters
<1>5. NotDue'
  BY <1>4, OnceFromHere DEF NotDue, Ticking
<1>6. Placed' \subseteq Placed \cup Committed
  BY <1>1
<1> QED BY <1>1, <1>2, <1>3, <1>4, <1>5, <1>6, OnceOn

-----------------------------------------------------------------------------
(* The steps that send no work and pass on no text. *)

LEMMA SessionTicks ==
  ASSUME NEW s \in SessionState
  PROVE  /\ Applied(s).tick = s.tick /\ Configure(s).tick = s.tick
         /\ Ended(s).tick = "idle" /\ Discarded(s).tick = "idle"
         /\ \A c : Started(s, c).tick \in {"armed", "idle"}
         /\ \A c, i, w : NoteCommit(s, c, i, w).tick = s.tick
         /\ \A c : Finish(s, c).tick = s.tick
         /\ \A c : TickFinished(s, c).tick \in {"armed", s.tick}
<1> USE DEF SessionState
<1>1. Applied(s).tick = s.tick /\ Configure(s).tick = s.tick
  BY DEF Applied, Configure
<1>2. Applied(s) \in SessionState
  BY SessionSteps
<1>3. Ended(s).tick = "idle" /\ Discarded(s).tick = "idle"
  BY <1>2 DEF Ended, Discarded
<1>4. \A c : Started(s, c).tick \in {"armed", "idle"}
  BY <1>2 DEF Started
<1>5. \A c, i, w : NoteCommit(s, c, i, w).tick = s.tick
  BY <1>1, <1>2 DEF NoteCommit
<1>6. \A c : Finish(s, c).tick = s.tick
  BY <1>1, <1>2 DEF Finish
<1>7. \A c : TickFinished(s, c).tick \in {"armed", s.tick}
  BY DEF TickFinished
<1> QED BY <1>1, <1>3, <1>4, <1>5, <1>6, <1>7

(* All that a step of the invariant has to be from. *)
OnceStep == OnceInv /\ OrderInv' /\ ReadyInv' /\ OwedInv' /\ Onward

LEMMA OnceIdle ==
  ASSUME OnceStep,
         UNCHANGED <<pc, session, live, trans, list, file, made, work, editor, results>>,
         engine'.job = engine.job, engine'.id = engine.id,
         engine'.through = engine.through, engine'.at = engine.at
  PROVE  OnceInv'
<1>1. QueueMove(editor, editor', "append") /\ QueueMove(results, results', "commit")
  BY DEF QueueMove
<1>2. UnderWay' = UnderWay /\ EntriesStay /\ ListStays
  BY DEF UnderWay, EntriesStay, ListStays
<1> QED BY <1>1, <1>2, OnceCalm DEF OnceStep

LEMMA OnceRecorder == OnceStep /\ Recorder => OnceInv'
BY OnceIdle DEF Recorder, AudioArrives, Prune, CutShort, loopVars, modelVars

(* A discard forgets the capture under way. *)
LEMMA OnceForgotten ==
  ASSUME OnceStep, session.state = "recording", NEW deserved, DiscardCurrent(deserved),
         pc # "postroll", UNCHANGED <<pc, list, file, made, work, engine, editor>>,
         QueueMove(results, results', "commit")
  PROVE  OnceInv'
<1>1. ~UnderWay' /\ \A c \in Captures : trans'[c].stage = "kept" => trans[c].stage = "kept"
  BY Forgotten DEF OnceStep, OnceInv
<1>2. \A c \in Captures : trans'[c] = trans[c] \/ trans'[c].stage = "none"
  BY OnceFromHere DEF DiscardCurrent, OnceStep, Unlisted
<1>3. QueueMove(editor, editor', "append") /\ EntriesStay /\ ListStays
  BY <1>2 DEF QueueMove, EntriesStay, ListStays
<1> QED BY <1>1, <1>3, OnceCalm DEF OnceStep, Ticking

LEMMA OnceUser ==
  OnceStep /\ (EndCapture \/ DiscardCapture \/ AskToStop \/ CloseWindow) => OnceInv'
<1> SUFFICES ASSUME OnceStep, EndCapture \/ DiscardCapture \/ AskToStop \/ CloseWindow
             PROVE  OnceInv'
  OBVIOUS
<1>1. CASE EndCapture
  <2>1. /\ session'.current = session.current /\ session'.tick = "idle" /\ UnderWay
        /\ UNCHANGED <<live, trans, list, file, made, work, editor, results, engine>>
        /\ pc' = "postroll"
    BY <1>1, OnceFromHere, SessionTurns, SessionTicks
       DEF OnceStep, EndCapture, UnderWay, modelVars, diskVars
  <2>2. QueueMove(editor, editor', "append") /\ QueueMove(results, results', "commit")
    BY <2>1 DEF QueueMove
  <2>3. EntriesStay /\ ListStays
    BY <2>1 DEF EntriesStay, ListStays
  <2> QED BY <2>1, <2>2, <2>3, OnceCalm DEF OnceStep
<1>2. CASE DiscardCapture
  <2>1. QueueMove(results, results', "commit")
    BY <1>2 DEF DiscardCapture, QueueMove
  <2> QED BY <1>2, <2>1, OnceForgotten DEF DiscardCapture, LoopAt, diskVars
<1>3. CASE AskToStop
  BY <1>3, OnceIdle DEF AskToStop, loopVars, diskVars
<1>4. CASE CloseWindow
  <2>1. /\ UNCHANGED <<pc, session, live, trans, list, file, made, work, editor, engine>>
        /\ results' = Append(results, WindowClosed(made)) /\ WindowClosed(made).kind # "commit"
    BY <1>4 DEF CloseWindow, loopVars, diskVars, modelVars, WindowClosed
  <2>2. QueueMove(editor, editor', "append") /\ QueueMove(results, results', "commit")
    BY <2>1 DEF QueueMove
  <2>3. EntriesStay /\ ListStays /\ UnderWay' = UnderWay
    BY <2>1 DEF EntriesStay, ListStays, UnderWay
  <2> QED BY <2>1, <2>2, <2>3, OnceCalm DEF OnceStep
<1> QED BY <1>1, <1>2, <1>3, <1>4

-----------------------------------------------------------------------------
(* The loop takes results. *)

(* A list that was written names what has an entry. *)
LEMMA ListWritten ==
  ASSUME OnceStep, Persist(trans'), pc' \notin {"closing", "down"}
  PROVE  ListStays
<1>1. \A c \in Captures : list'[c] = list[c] \/ list'[c] = Gone \/ trans'[c].stage # "none"
  BY DEF Persist, ListOf, ListedWhileRunning
<1> QED BY <1>1 DEF ListStays

LEMMA ReachTyped ==
  OnceInv => /\ \A p \in Placed : p[1] \in Captures /\ p[2] \in Nat
             /\ \A p \in Committed : p[1] \in Captures /\ p[2] \in Nat
<1> SUFFICES ASSUME OnceInv
             PROVE  /\ \A p \in Placed : p[1] \in Captures /\ p[2] \in Nat
                    /\ \A p \in Committed : p[1] \in Captures /\ p[2] \in Nat
  OBVIOUS
<1>1. /\ \A k \in DOMAIN file : file[k].c \in Captures /\ file[k].through \in Nat
      /\ \A k \in DOMAIN editor : editor[k].kind = "append" =>
           editor[k].c \in Captures /\ editor[k].through \in Nat
      /\ \A k \in DOMAIN results : results[k].kind = "commit" =>
           results[k].c \in Captures /\ results[k].through \in Nat
  <2>1. Frames \subseteq Nat
    BY PipelineAssumption DEF Frames
  <2>2. /\ \A k \in DOMAIN file : file[k] \in [c : Captures, from : Frames, through : Frames]
        /\ \A k \in DOMAIN editor : editor[k] \in EditorWork
        /\ \A k \in DOMAIN results : results[k] \in Result
    <3>1. /\ editor \in Seq(EditorWork) /\ results \in Seq(Result)
          /\ file \in Seq([c : Captures, from : Frames, through : Frames])
      BY OnceFromHere
    <3>2. \A S : \A q \in Seq(S) : \A k \in DOMAIN q : q[k] \in S
      OBVIOUS
    <3> QED BY <3>1, <3>2
  <2> QED BY <2>1, <2>2, EditorRead, ResultRead
<1>2. \A x : x.c \in Captures /\ x.through \in Nat => Reach(x)[1] \in Captures /\ Reach(x)[2] \in Nat
  BY DEF Reach
<1>3. \A p \in InFile(file) : p[1] \in Captures /\ p[2] \in Nat
  BY <1>1, <1>2 DEF InFile
<1>4. /\ \A p \in Reaches(editor, "append") : p[1] \in Captures /\ p[2] \in Nat
      /\ \A p \in Reaches(results, "commit") : p[1] \in Captures /\ p[2] \in Nat
  BY <1>1, <1>2 DEF Reaches
<1> QED BY <1>3, <1>4 DEF Placed, Committed

LEMMA OnceCommit ==
  ASSUME OnceStep, results # <<>>, Head(results).kind = "commit", TakeCommit(Head(results)),
         results' = Tail(results), UNCHANGED <<pc, live, list, file, made, work, engine>>,
         pc \notin {"closing", "down"}
  PROVE  OnceInv'
<1> DEFINE r == Head(results)
           x == AppendText(r.c, r.from, r.through)
<1>1. r \in Result /\ r.kind = "commit" /\ r.c \in Captures /\ r.through \in Nat /\ Reach(r) \in Committed
  <2>1. r \in Result /\ Reach(r) \in Reaches(results, "commit")
    BY OnceFromHere, ReachLeft DEF OnceStep
  <2> QED BY <2>1, ResultRead, PipelineAssumption DEF Committed, Frames
<1>2. /\ session'.state = session.state /\ session'.current = session.current
      /\ session'.tick = session.tick
  <2>1. session \in SessionState /\ TypeOK
    BY OnceFromHere DEF OnceStep
  <2>2. session'.state = session.state /\ session'.current = session.current
    BY <1>1, <2>1, TakeCommitStep
  <2>3. session' = NoteCommit(session, r.c, r.through, Words(r.from, r.through))
    BY DEF TakeCommit
  <2> QED BY <2>1, <2>2, <2>3, SessionTicks
<1>3. /\ x.kind = "append" /\ x.c = r.c /\ x.from = r.from /\ x.through = r.through
      /\ Reach(x) = Reach(r)
      /\ editor' \in {editor, Append(editor, x)}
  BY DEF AppendText, Reach, TakeCommit
<1> HIDE DEF x
<1>4. Placed' \subseteq Placed \cup {Reach(r)} /\ Committed' \subseteq Committed
  <2>1. Reaches(Append(editor, x), "append") = Reaches(editor, "append") \cup {Reach(x)}
    BY <1>3, OnceFromHere, ReachAdded, ZenonT(40) DEF OnceStep
  <2>2. Reaches(Tail(results), "commit") \subseteq Reaches(results, "commit")
    BY OnceFromHere, ReachLeft DEF OnceStep
  <2> QED BY <1>3, <2>1, <2>2 DEF Placed, Committed
<1>5. TextApart(file', editor', results', Excused)
  <2>1. TextApart(file, editor, results, Excused) /\ editor \in Seq(EditorWork) /\ results \in Seq(Result)
    BY OnceFromHere DEF OnceStep, WrittenApart
  <2>2. TextApart(file, Append(editor, x), Tail(results), Excused)
        /\ TextApart(file, editor, Tail(results), Excused)
    BY <1>1, <1>3, <2>1, TextPassedOn
  <2> QED BY <1>3, <2>2
<1>6. \A c \in Captures :
        /\ trans'[c].stage = trans[c].stage /\ trans[c].through \in Nat
        /\ trans'[c].through = IF c = r.c /\ trans[c].stage # "none" /\ r.through > trans[c].through
                                 THEN r.through ELSE trans[c].through
  BY <1>1, OnceFromHere, PipelineAssumption, SMTT(30) DEF OnceStep, TakeCommit, Entry, Frames
<1>7. Entered'
  <2> SUFFICES ASSUME NEW c \in Captures, trans'[c].stage # "none"
               PROVE  c <= made' /\ (c \notin Excused' => UpTo(Placed', c, trans'[c].through))
    BY DEF Entered
  <2>1. c <= made /\ (c \notin Excused' => UpTo(Placed, c, trans[c].through))
    BY <1>6, OnceFromHere DEF Entered, OnceStep, Onward
  <2>2. ASSUME c \notin Excused', NEW p \in Placed', p[1] = c
        PROVE  p[2] <= trans'[c].through
    <3>1. CASE p \in Placed
      <4>1. p[2] <= trans[c].through /\ p[2] \in Nat
        BY <2>1, <2>2, <3>1, ReachTyped DEF UpTo, OnceStep
      <4> QED BY <1>1, <1>6, <4>1
    <3>2. CASE p = Reach(r)
      <4>1. c = r.c /\ p[2] = r.through
        BY <2>2, <3>2 DEF Reach
      <4> QED BY <1>1, <1>6, <4>1
    <3> QED BY <1>4, <2>2, <3>1, <3>2
  <2> QED BY <2>1, <2>2 DEF UpTo
<1>8. Listed'
  BY OnceFromHere DEF Listed, OnceStep
<1>9. NotDue' /\ Waiters' \subseteq Waiters /\ UnderWay' = UnderWay
  BY <1>2, <1>6, OnceFromHere DEF NotDue, Waiters, UnderWay, Ticking, OnceStep
<1> QED BY <1>1, <1>2, <1>4, <1>5, <1>7, <1>8, <1>9, OnceOn DEF OnceStep

(* What becomes of the entries as a decode ends. *)
LEMMA FinishedLeaves ==
  ASSUME OnceInv, results # <<>>, Head(results).kind = "finished",
         TakeFinished(Head(results).c, Head(results).outcome)
  PROVE  \A c \in Captures : \/ trans'[c] = trans[c]
                              \/ trans'[c].stage = "none"
                              \/ /\ trans[c].stage # "none"
                                 /\ trans'[c].stage = "retry"
                                 /\ trans'[c].through = trans[c].through
<1> DEFINE c == Head(results).c
           o == Head(results).outcome
<1>1. c \in Captures /\ trans \in [Captures -> Entry] /\ TakeFinished(c, o)
  BY OnceFromHere, ResultRead
<1> HIDE DEF c, o
<1>2. CASE trans[c].stage = "sent"
  BY <1>1, <1>2 DEF TakeFinished, Unlisted, Entry
<1>3. CASE trans[c].stage = "finishing"
  BY <1>1, <1>3 DEF TakeFinished, Unlisted, Entry
<1>4. CASE trans[c].stage \notin {"sent", "finishing"}
  BY <1>1, <1>4 DEF TakeFinished
<1> QED BY <1>2, <1>3, <1>4

LEMMA OnceFinished ==
  ASSUME OnceStep, results # <<>>, Head(results).kind = "finished",
         TakeFinished(Head(results).c, Head(results).outcome),
         editor' = Append(editor, Copy(Head(results).c)), results' = Tail(results),
         UNCHANGED <<pc, live, file, made, work, engine>>,
         list' = list \/ (Persist(trans') /\ pc \notin {"closing", "down"}),
         UnderWay' => UnderWay /\ session'.current = session.current,
         session'.tick = session.tick
  PROVE  OnceInv'
<1>1. \A c \in Captures : \/ trans'[c] = trans[c]
                           \/ trans'[c].stage = "none"
                           \/ /\ trans[c].stage # "none"
                              /\ trans'[c].stage = "retry" /\ trans'[c].through = trans[c].through
  BY FinishedLeaves DEF OnceStep
<1>2. EntriesStay /\ \A c \in Captures : trans'[c].stage = "kept" => trans[c].stage = "kept"
  BY <1>1 DEF EntriesStay
<1>3. ListStays
  BY ListWritten DEF ListStays
<1>4. QueueMove(editor, editor', "append") /\ QueueMove(results, results', "commit")
  BY DEF QueueMove, Copy
<1> QED BY <1>2, <1>3, <1>4, OnceCalm DEF OnceStep

LEMMA OnceDeliver == OnceStep /\ Deliver => OnceInv'
<1> SUFFICES ASSUME OnceStep, Deliver PROVE OnceInv' OBVIOUS
<1>1. /\ results # <<>> /\ results' = Tail(results) /\ pc = "results" /\ pc' = pc
      /\ UNCHANGED <<live, file, made, work, engine>> /\ session \in SessionState
      /\ QueueMove(results, results', "commit")
  BY OnceFromHere
     DEF OnceStep, Deliver, DeliverPreparing, DeliverReady, DeliverUnavailable,
         DeliverWindowClosed, DeliverCommit, DeliverTick, DeliverFinished, Delivered, LoopAt,
         QueueMove, modelVars
<1>2. CASE DeliverPreparing \/ DeliverReady \/ DeliverUnavailable \/ DeliverTick
  <2>1. /\ UNCHANGED <<trans, list, editor>>
        /\ \/ session' \in {session, Configure(session)}
           \/ \E c : session' = TickFinished(session, c)
    BY <1>2 DEF DeliverPreparing, DeliverReady, DeliverUnavailable, DeliverTick, diskVars
  <2>2. /\ session'.current = session.current /\ session'.state = session.state
        /\ session'.tick \in {"armed", session.tick}
    <3>1. CASE session' = session
      BY <3>1
    <3>3. CASE session' = Configure(session)
      <4>1. /\ Configure(session) \in SessionState
            /\ Configure(session).tick = session.tick
        BY <1>1, SessionSteps, SessionTicks
      <4>2. /\ Configure(session).current = session.current
            /\ Configure(session).state = session.state
        BY <1>1, <4>1, SessionKeeps
      <4> QED BY <3>3, <4>1, <4>2
    <3>2. ASSUME NEW c, session' = TickFinished(session, c)
          PROVE  /\ session'.current = session.current /\ session'.state = session.state
                 /\ session'.tick \in {"armed", session.tick}
      BY <1>1, <3>2, SessionSteps, SessionKeeps, SessionTicks
    <3> QED BY <2>1, <3>1, <3>2, <3>3
  <2>3. /\ UnderWay' = UnderWay /\ EntriesStay /\ ListStays
        /\ QueueMove(editor, editor', "append")
    BY <1>1, <2>1, <2>2 DEF UnderWay, EntriesStay, ListStays, QueueMove
  <2> QED BY <1>1, <2>1, <2>2, <2>3, OnceCalm DEF OnceStep
<1>3. CASE DeliverWindowClosed
  <2>1. UNCHANGED <<list, editor>>
    BY <1>3 DEF DeliverWindowClosed, diskVars
  <2>2. CASE CaptureBegunBy(Head(results).at)
    BY <1>1, <1>3, <2>1, <2>2, OnceForgotten DEF DeliverWindowClosed, CaptureBegunBy
  <2>3. CASE ~CaptureBegunBy(Head(results).at)
    <3>1. session' = Applied(session) /\ trans' = trans
      BY <1>3, <2>3 DEF DeliverWindowClosed
    <3>2. /\ session'.current = session.current /\ session'.state = session.state
          /\ session'.tick = session.tick
      BY <1>1, <3>1, SessionSteps, SessionKeeps, SessionTicks
    <3>3. /\ UnderWay' = UnderWay /\ EntriesStay /\ ListStays
          /\ QueueMove(editor, editor', "append")
      BY <1>1, <2>1, <3>1, <3>2 DEF UnderWay, EntriesStay, ListStays, QueueMove
    <3> QED BY <1>1, <3>1, <3>2, <3>3, OnceCalm DEF OnceStep
  <2> QED BY <2>2, <2>3
<1>4. CASE DeliverCommit
  BY <1>1, <1>4, OnceCommit DEF DeliverCommit, Delivered, diskVars
<1>5. CASE DeliverFinished
  <2>1. /\ Head(results).kind = "finished"
        /\ TakeFinished(Head(results).c, Head(results).outcome)
        /\ editor' = Append(editor, Copy(Head(results).c))
        /\ session' = Finish(session, Head(results).c)
        /\ list' = list \/ Persist(trans')
    BY <1>5 DEF DeliverFinished, Delivered
  <2>2. /\ session'.current = session.current /\ session'.tick = session.tick
        /\ session'.state = "recording" => session.state = "recording"
    BY <1>1, <2>1, SessionTurns, SessionTicks
  <2>3. UnderWay' => UnderWay
    BY <1>1, <2>2 DEF UnderWay
  <2> QED BY <1>1, <2>1, <2>2, <2>3, OnceFinished
<1> QED BY <1>2, <1>3, <1>4, <1>5 DEF Deliver

-----------------------------------------------------------------------------
(* The loop sends work. *)

LEMMA OnceSends ==
  ASSUME OnceStep, UNCHANGED <<file, editor, results, engine>>,
         Flow(Placed, Committed, engine.job, engine.id, engine.through, engine.at, work',
              Tickers', Waiters', Hushed', Excused),
         work' \in Seq(Job), Entered', Listed', NotDue'
  PROVE  OnceInv'
<1>1. Placed' = Placed /\ Committed' = Committed
  BY DEF Placed, Committed
<1>2. WrittenApart'
  BY ApartExcused, OnceFromHere DEF WrittenApart, OnceStep, Onward
<1>3. FlowsOn'
  <2>1. /\ Joins(Tickers', Tickers', Placed \cup Committed, engine.job, work')
        /\ Joins(Waiters', Waiters', Committed, engine.job, work')
        /\ Joins(Hushed', Hushed', Placed \cup Committed, engine.job, work')
        /\ Excused \subseteq Excused' /\ Placed \subseteq Placed \cup Committed
    BY DEF Joins, OnceStep, Onward
  <2>2. Flow(Placed, Committed, engine.job, engine.id, engine.through, engine.at, work',
             Tickers', Waiters', Hushed', Excused')
    BY <2>1, FlowOn
  <2> QED BY <1>1, <2>2 DEF FlowsOn
<1> QED BY <1>2, <1>3 DEF OnceStep, OnceInv, Onward

(* The last of a capture's work, or its recording begins to wait. *)
LEMMA OnceTake == OnceStep /\ TakeCapture => OnceInv'
<1> SUFFICES ASSUME OnceStep, TakeCapture PROVE OnceInv' OBVIOUS
<1> DEFINE c == session.current
<1>1. /\ pc = "postroll" /\ pc' = "requests" /\ UnderWay /\ c \in Captures
      /\ session.state = "transcribing" /\ session \in SessionState
      /\ trans \in [Captures -> Entry] /\ FlowsOn /\ work \in Seq(Job)
      /\ UNCHANGED <<file, editor, results, engine, made>> /\ work' \in Seq(Job)
  BY OnceFromHere
     DEF OnceStep, TakeCapture, LoopAt, UnderWay, Attached, SessionState, OrderInv, TypeInv, TypeOK
<1>2. ~UnderWay' /\ Tickers' = {} /\ Hushed' = {} /\ NotDue'
  <2>1. session'.state # "recording"
    BY <1>1, SessionTurns DEF TakeCapture
  <2> QED BY <1>1, <2>1 DEF UnderWay, Tickers, Ticking, Hushed, NotDue
<1>3. EntriesStay /\ ListStays
  <2>1. CASE live
    BY <1>1, <2>1 DEF TakeCapture, EntriesStay, ListStays, Entry
  <2>2. CASE ~live
    <3>1. EntriesStay
      BY <1>1, <2>2 DEF TakeCapture, EntriesStay, Entry
    <3> QED BY <1>1, <2>2, <3>1, ListWritten DEF TakeCapture
  <2> QED BY <2>1, <2>2
<1>4. Entered' /\ Listed'
  <2>1. Placed' \subseteq Placed
    BY <1>1 DEF Placed
  <2> QED BY <1>1, <1>3, <2>1, OnceLists DEF OnceStep
<1>5. CASE live
  <2> DEFINE x == FinishWork(c, base, captured[c])
  <2>3. /\ work' = Append(work, x) /\ x.kind = "finish" /\ x.c = c /\ Tickers = {c}
        /\ trans' = [trans EXCEPT ![c].stage = IF @ = "none" THEN @ ELSE "finishing"]
    BY <1>1, <1>5 DEF TakeCapture, FinishWork, Tickers, Ticking
  <2> HIDE DEF x
  <2>4. /\ \A d \in Captures \ {c} : trans'[d] = trans[d]
        /\ trans'[c].stage \in {"none", "finishing"}
    BY <1>1, <2>3 DEF Entry
  <2>1. /\ work' = Append(work, x) /\ x.kind = "finish" /\ x.c = c /\ Tickers = {c}
        /\ Waiters' \in SUBSET Waiters /\ c \notin Waiters'
    BY <2>3, <2>4 DEF Waiters
  <2>2. /\ OfSpeech(x) => x.c \in Tickers
        /\ x.kind # "recording"
        /\ \A d \in Waiters' \cup {} : ~OfCapture(x, d)
    BY <2>1 DEF OfSpeech, OfCapture
  <2>5. Flow(Placed, Committed, engine.job, engine.id, engine.through, engine.at, Append(work, x),
             {}, Waiters', {}, Excused)
    BY <1>1, <2>1, <2>2, FlowSent DEF FlowsOn
  <2> QED BY <1>1, <1>2, <1>4, <2>1, <2>5, OnceSends
<1>6. CASE ~live
  <2>1. work' = work /\ Waiters' \subseteq Waiters \cup {c} /\ Hushed = {c}
    BY <1>1, <1>6 DEF TakeCapture, Waiters, Hushed
  <2>2. Joins(Waiters, Waiters', Committed, engine.job, work)
    BY <1>1, <2>1, UnspokenOf DEF FlowsOn, Flow, HushedFlow, Joins
  <2>3. /\ Joins(Tickers, {}, Placed \cup Committed, engine.job, work)
        /\ Joins(Hushed, {}, Placed \cup Committed, engine.job, work)
    BY DEF Joins
  <2>4. Flow(Placed, Committed, engine.job, engine.id, engine.through, engine.at, work,
             {}, Waiters', {}, Excused)
    BY <1>1, <2>2, <2>3, FlowOn DEF FlowsOn
  <2> QED BY <1>1, <1>2, <1>4, <2>1, <2>4, OnceSends
<1> QED BY <1>5, <1>6

(* A tick: no recording waits. *)
LEMMA OnceTick == OnceStep /\ SendTick => OnceInv'
<1> SUFFICES ASSUME OnceStep, SendTick PROVE OnceInv' OBVIOUS
<1> DEFINE start == IF session.hint > base THEN session.hint ELSE base
           x == TickWork(session.current, start, captured[mic])
<1>1. /\ session.state = "recording" /\ session.enabled /\ session.tick = "due"
      /\ session' = [session EXCEPT !.tick = "pending"] /\ work' = Append(work, x)
      /\ pc = "tick" /\ pc' = "dispatch"
      /\ UNCHANGED <<trans, file, editor, results, engine, made, list, live>>
  BY DEF SendTick, TickDue, LoopAt, modelVars, diskVars
<1>2. session \in SessionState /\ FlowsOn /\ work \in Seq(Job) /\ work' \in Seq(Job) /\ NotDue
  BY OnceFromHere DEF OnceStep, OrderInv, TypeInv, TypeOK
<1>3. live
  BY <1>1 DEF OnceStep, OnceInv, ReadyInv, Ticks
<1>4. /\ session'.state = session.state /\ session'.current = session.current
      /\ session'.tick = "pending"
  BY <1>1, <1>2 DEF SessionState
<1>5. Waiters = {} /\ Tickers = {session.current} /\ Hushed = {}
  BY <1>1, <1>2, <1>3 DEF NotDue, Ticking, UnderWay, Tickers, Hushed
<1>6. Waiters' = {} /\ Tickers' = Tickers /\ Hushed' = {} /\ NotDue'
  BY <1>1, <1>3, <1>4, <1>5 DEF Waiters, NotDue, Ticking, UnderWay, Tickers, Hushed
<1>7. Entered' /\ Listed'
  <2>1. EntriesStay /\ ListStays /\ Placed' \subseteq Placed
    BY <1>1 DEF EntriesStay, ListStays, Placed
  <2> QED BY <1>1, <2>1, OnceLists DEF OnceStep
<1>8. x.kind = "tick" /\ x.c = session.current
  BY DEF TickWork
<1> HIDE DEF x
<1>9. Flow(Placed, Committed, engine.job, engine.id, engine.through, engine.at, Append(work, x),
           Tickers, {}, {}, Excused)
  <2>1. /\ OfSpeech(x) => x.c \in Tickers
        /\ x.kind # "recording"
        /\ \A c \in Tickers : Decodes(x) /\ x.c # c =>
             Unspoken(Placed \cup Committed, engine.job, work, c, Len(work) + 1)
        /\ \A c \in {} \cup {} : ~OfCapture(x, c)
        /\ Tickers \in SUBSET Tickers
    BY <1>5, <1>8
  <2> QED BY <1>2, <2>1, FlowSent DEF FlowsOn
<1> QED BY <1>1, <1>2, <1>6, <1>7, <1>9, OnceSends

(* A recording that waited, whatever is under way meanwhile. *)
LEMMA OnceDispatch == OnceStep /\ DispatchRecording => OnceInv'
<1> SUFFICES ASSUME OnceStep, DispatchRecording PROVE OnceInv' OBVIOUS
<1> DEFINE c == CHOOSE c \in Undispatched : \A d \in Undispatched : c <= d
           x == RecordingWork(c, trans[c].through)
<1>1. /\ pc = "dispatch" /\ pc' = pc /\ work' = Append(work, x) /\ Undispatched # {}
      /\ trans' = [trans EXCEPT ![c].stage = "sent"]
      /\ UNCHANGED <<session, live, file, editor, results, engine, made, list>>
  BY DEF DispatchRecording, LoopAt, diskVars
<1>2. c \in Undispatched
  BY <1>1, EarliestWaits
<1>3. x.kind = "recording" /\ x.c = c /\ x.start = trans[c].through
  BY DEF RecordingWork
<1> HIDE DEF c, x
<1>4. /\ c \in Captures /\ trans[c].stage = "kept" /\ c \in Waiters
      /\ trans \in [Captures -> Entry] /\ FlowsOn /\ work \in Seq(Job) /\ work' \in Seq(Job)
  BY <1>2, OnceFromHere DEF Undispatched, Waiters, OnceStep, OrderInv, TypeInv, TypeOK
<1>5. /\ EntriesStay /\ ListStays /\ Waiters' \subseteq Waiters \ {c}
      /\ Placed' \subseteq Placed
  BY <1>1, <1>4 DEF EntriesStay, ListStays, Waiters, Entry, Placed
<1>6. Entered' /\ Listed'
  BY <1>1, <1>5, OnceLists DEF OnceStep
<1>7. UnderWay => session.current # c
  BY <1>1, <1>4, OnceFromHere DEF UnderWay, Numbered, OnceStep
<1>8. /\ UnderWay' = UnderWay /\ Tickers' = Tickers /\ Hushed' \subseteq Hushed
      /\ Tickers \subseteq Hushed /\ c \notin Hushed /\ NotDue'
  BY <1>1, <1>4, <1>5, <1>7, OnceFromHere DEF UnderWay, Tickers, Ticking, Hushed, NotDue, OnceStep
<1>9. Flow(Placed, Committed, engine.job, engine.id, engine.through, engine.at, Append(work, x),
           Tickers, Waiters', Hushed', Excused)
  <2>1. Unspoken(Committed, engine.job, work, c, Len(work) + 1)
    BY <1>4 DEF FlowsOn, Flow, WaitingFlow
  <2>2. c \notin Excused => UpTo(Placed, c, trans[c].through)
    BY <1>4, OnceFromHere DEF Entered, OnceStep
  <2>3. \A d \in Tickers : Unspoken(Placed \cup Committed, engine.job, work, d, Len(work) + 1)
    BY <1>4, <1>8 DEF FlowsOn, Flow, HushedFlow
  <2>4. \A d \in Waiters' \cup Hushed' : ~OfCapture(x, d)
    BY <1>3, <1>5, <1>8 DEF OfCapture
  <2>5. ~OfSpeech(x)
    BY <1>3 DEF OfSpeech
  <2>6. Tickers \in SUBSET Tickers /\ Waiters' \in SUBSET Waiters /\ Hushed' \in SUBSET Hushed
    BY <1>5, <1>8
  <2> QED BY <1>3, <1>4, <2>1, <2>2, <2>3, <2>4, <2>5, <2>6, FlowSent DEF FlowsOn
<1> QED BY <1>1, <1>4, <1>6, <1>8, <1>9, OnceSends

LEMMA OncePass == OnceStep /\ Pass => OnceInv'
<1> SUFFICES ASSUME OnceStep, Pass PROVE OnceInv' OBVIOUS
<1>1. ~Stall
  BY DEF OnceStep, OnceInv, NoStall, Stall, FaultHappens
<1>2. CASE EndRequests \/ EndResults \/ NoTick
  <2>1. /\ UNCHANGED <<session, live, trans, list, file, made, work, editor, results, engine>>
        /\ pc \notin {"postroll", "closing", "down"} /\ pc' \notin {"postroll", "closing", "down"}
    BY <1>2 DEF EndRequests, EndResults, NoTick, LoopAt, modelVars, diskVars
  <2>2. /\ UnderWay' = UnderWay /\ EntriesStay /\ ListStays
        /\ QueueMove(editor, editor', "append") /\ QueueMove(results, results', "commit")
    BY <2>1 DEF UnderWay, EntriesStay, ListStays, QueueMove
  <2> QED BY <2>1, <2>2, OnceCalm DEF OnceStep
<1>3. CASE EndPass
  <2>1. /\ UNCHANGED <<live, trans, list, file, made, work, editor, results, engine, recognition>>
        /\ session' = IntervalPassed(session) /\ session \in SessionState
        /\ pc = "dispatch" /\ pc' \in {"leaving", "requests"} /\ Undispatched = {}
    BY <1>3, OnceFromHere DEF EndPass, LoopAt, modelVars, diskVars, OnceStep
  <2>2. session'.state = session.state /\ session'.current = session.current
    BY <2>1, SessionSteps, SessionKeeps
  <2>3. Ticking' => Waiters' = {}
    <3>1. live => recognition = "ready"
      BY DEF OnceStep, OnceInv, ReadyInv, Ticks
    <3> QED BY <2>1, <3>1 DEF Ticking, Waiters, Undispatched
  <2>4. /\ UnderWay' = UnderWay /\ EntriesStay /\ ListStays
        /\ QueueMove(editor, editor', "append") /\ QueueMove(results, results', "commit")
    BY <2>1, <2>2 DEF UnderWay, EntriesStay, ListStays, QueueMove
  <2> QED BY <2>1, <2>2, <2>3, <2>4, OnceCalm DEF OnceStep
<1> QED BY <1>1, <1>2, <1>3, OnceDeliver, OnceTake, OnceTick, OnceDispatch DEF Pass

(* Of a capture not begun there is nothing anywhere. *)
LEMMA Unbegun ==
  ASSUME OnceInv, NEW c \in Nat, c > made, NEW k
  PROVE  Unspoken(Placed \cup Committed, engine.job, work, c, k)
<1>1. Stream(file, editor, results, engine.job, work, replayed, made, Open) /\ made \in Nat
  BY OnceFromHere DEF OnceInv, OrderInv, InStream
<1>2. \A x : Fits(x, made, Open) /\ (Text(x) \/ Ends(x)) => x.c # c
  BY <1>1 DEF Fits
<1>3. /\ \A i \in DOMAIN work : ~OfCapture(work[i], c)
      /\ ~OfCapture(engine.job, c)
  BY <1>1, <1>2 DEF Stream, AllFit, OfCapture, Decodes, Text
<1>4. Without(Placed \cup Committed, c)
  <2>1. \A i \in DOMAIN file : file[i].c # c
    BY <1>1 DEF Stream, WrittenFits
  <2>2. \A i \in DOMAIN editor : editor[i].kind = "append" => editor[i].c # c
    BY <1>1, <1>2 DEF Stream, AllFit, Text
  <2>3. \A i \in DOMAIN results : results[i].kind = "commit" => results[i].c # c
    BY <1>1, <1>2 DEF Stream, AllFit, Text
  <2> QED BY <2>1, <2>2, <2>3 DEF Without, Placed, Committed, InFile, Reaches, Reach
<1> QED BY <1>3, <1>4 DEF Unspoken, NoneBefore

(* A capture begins. *)
LEMMA OnceStart == OnceStep /\ StartCapture => OnceInv'
<1> SUFFICES ASSUME OnceStep, StartCapture PROVE OnceInv' OBVIOUS
<1> DEFINE c == made + 1
           S == Placed \cup Committed
<1>1. /\ made \in Nat /\ c \in Nat /\ made < c /\ c \in Captures /\ made' = c
      /\ pc = "requests" /\ pc' = pc /\ session \in SessionState /\ trans \in [Captures -> Entry]
      /\ UNCHANGED <<file, editor, results, engine, list>> /\ work \in Seq(Job)
      /\ FlowsOn /\ Entered /\ Listed /\ work' \in Seq(Job)
  BY OnceFromHere, PipelineAssumption, SMTT(30)
     DEF OnceStep, StartCapture, LoopAt, Captures, OrderInv, TypeInv, TypeOK
<1>2. \A k : Unspoken(S, engine.job, work, c, k)
  BY <1>1, Unbegun DEF OnceStep
<1> HIDE DEF c, S
<1>3. session'.current = c /\ session'.tick \in {"armed", "idle"}
  <2>1. session' \in {Started(session, c), Discarded(Started(session, c))}
    BY DEF StartCapture, c
  <2>2. Started(session, c) \in SessionState
    BY <1>1, SessionSteps
  <2>3. Started(session, c).current = c /\ Started(session, c).tick \in {"armed", "idle"}
    BY <1>1, SessionTurns, SessionTicks
  <2>4. /\ Discarded(Started(session, c)).current = Started(session, c).current
        /\ Discarded(Started(session, c)).tick = "idle"
    BY <2>2, SessionTurns, SessionTicks
  <2> QED BY <2>1, <2>3, <2>4
<1>4. /\ Tickers' \subseteq {c} /\ Hushed' \subseteq {c} /\ NotDue'
  BY <1>3 DEF Tickers, Hushed, NotDue
<1>5. \A d \in Captures : \/ trans'[d] = trans[d]
                          \/ d = c /\ trans'[d].stage = "capturing" /\ trans'[d].through = 0
  BY <1>1 DEF StartCapture, Unlisted, c
<1>6. Waiters' \subseteq Waiters
  BY <1>5 DEF Waiters
<1>7. Flow(Placed, Committed, engine.job, engine.id, engine.through, engine.at, work,
           Tickers', Waiters', Hushed', Excused)
  <2>1. /\ Joins(Tickers, Tickers', S, engine.job, work)
        /\ Joins(Waiters, Waiters', Committed, engine.job, work)
        /\ Joins(Hushed, Hushed', S, engine.job, work)
    BY <1>2, <1>4, <1>6 DEF Joins
  <2>2. Placed \subseteq Placed \cup Committed /\ Excused \subseteq Excused
    OBVIOUS
  <2> QED BY <1>1, <2>1, <2>2, FlowOn DEF FlowsOn, S
<1>8. Flow(Placed, Committed, engine.job, engine.id, engine.through, engine.at, work',
           Tickers', Waiters', Hushed', Excused)
  <2>1. CASE work' = work
    BY <1>7, <2>1
  <2>2. CASE work' = Append(work, LoadWork)
    <3> DEFINE x == LoadWork
    <3>1. ~Decodes(x) /\ ~OfSpeech(x) /\ x.kind # "recording"
      BY DEF LoadWork, NoJob, Decodes, OfSpeech
    <3> HIDE DEF x
    <3>2. /\ \A d \in Waiters' \cup Hushed' : ~OfCapture(x, d)
          /\ Tickers' \in SUBSET Tickers' /\ Waiters' \in SUBSET Waiters'
          /\ Hushed' \in SUBSET Hushed'
      BY <3>1 DEF OfCapture
    <3>3. Flow(Placed, Committed, engine.job, engine.id, engine.through, engine.at,
               Append(work, x), Tickers', Waiters', Hushed', Excused)
      BY <1>1, <1>7, <3>1, <3>2, FlowSent
    <3> QED BY <2>2, <3>3 DEF x
  <2> QED BY <2>1, <2>2 DEF StartCapture
<1>9. Entered'
  <2> SUFFICES ASSUME NEW d \in Captures, trans'[d].stage # "none"
               PROVE  d <= made' /\ (d \notin Excused' => UpTo(Placed', d, trans'[d].through))
    BY DEF Entered
  <2>1. CASE trans'[d] = trans[d]
    <3>1. d <= made /\ d \in Nat /\ (d \notin Excused' => UpTo(Placed, d, trans[d].through))
      BY <1>1, <2>1, PipelineAssumption DEF Entered, OnceStep, Onward, Captures
    <3>2. Placed' = Placed /\ d <= made'
      BY <1>1, <3>1 DEF Placed
    <3> QED BY <2>1, <3>1, <3>2
  <2>2. CASE d = c
    <3>1. d <= made' /\ Placed' = Placed /\ Without(Placed, d)
      BY <1>1, <1>2, <2>2 DEF Unspoken, Without, S, Placed
    <3> QED BY <3>1 DEF UpTo, Without
  <2> QED BY <1>5, <2>1, <2>2
<1>10. Listed'
  <2>1. \A d \in Captures : list[d] # Gone => d <= made'
    BY <1>1, PipelineAssumption DEF Listed, Captures
  <2> QED BY <1>1, <2>1 DEF Listed
<1> QED BY <1>1, <1>4, <1>8, <1>9, <1>10, OnceSends

-----------------------------------------------------------------------------
(* The inference thread. *)

LEMMA OnceThread ==
  ASSUME OnceStep, UNCHANGED engineOnly, work' \in Seq(Job),
         Flow(Placed, Committed', engine'.job, engine'.id, engine'.through, engine'.at, work',
              Tickers, Waiters, Hushed, Excused),
         TextApart(file, editor, results', Excused)
  PROVE  OnceInv'
<1>1. /\ UNCHANGED <<pc, session, live, trans, list, file, editor, made>>
      /\ Excused \subseteq Excused' /\ Entered /\ Listed /\ NotDue
  BY OnceFromHere DEF OnceStep, Onward, engineOnly, loopVars, diskVars, modelVars
<1>2. /\ Placed' = Placed /\ Tickers' = Tickers /\ Waiters' = Waiters /\ Hushed' = Hushed
  BY <1>1 DEF Placed, Tickers, Ticking, Waiters, Hushed, UnderWay
<1>3. WrittenApart'
  BY <1>1, ApartExcused DEF WrittenApart
<1>4. FlowsOn'
  <2>1. /\ Joins(Tickers, Tickers, Placed \cup Committed', engine'.job, work')
        /\ Joins(Waiters, Waiters, Committed', engine'.job, work')
        /\ Joins(Hushed, Hushed, Placed \cup Committed', engine'.job, work')
        /\ Placed \subseteq Placed \cup Committed'
    BY DEF Joins
  <2>2. Flow(Placed, Committed', engine'.job, engine'.id, engine'.through, engine'.at, work',
             Tickers, Waiters, Hushed, Excused')
    BY <1>1, <2>1, FlowOn
  <2> QED BY <1>2, <2>2 DEF FlowsOn
<1>5. Entered' /\ Listed' /\ NotDue'
  BY <1>1, <1>2 DEF Entered, Listed, NotDue, Ticking, UnderWay
<1> QED BY <1>3, <1>4, <1>5 DEF OnceStep, OnceInv, Onward

(* News for the loop that is not text. *)
LEMMA ToldNoText ==
  ASSUME OnceStep, results' = results \/ \E x : x.kind # "commit" /\ results' = Append(results, x)
  PROVE  Committed' = Committed /\ TextApart(file, editor, results', Excused)
<1>1. /\ results \in Seq(Result) /\ editor \in Seq(EditorWork)
      /\ TextApart(file, editor, results, Excused)
  BY OnceFromHere DEF OnceStep, WrittenApart
<1>2. QueueMove(results, results', "commit")
  BY DEF QueueMove
<1>3. Reaches(results', "commit") = Reaches(results, "commit")
  <2>1. ASSUME NEW x, x.kind # "commit", results' = Append(results, x)
        PROVE  Reaches(results', "commit") = Reaches(results, "commit")
    BY <1>1, <2>1, ReachAdded
  <2> QED BY <2>1
<1> QED BY <1>1, <1>2, <1>3, TextQueued DEF Committed

LEMMA OnceLoad == OnceStep /\ Load => OnceInv'
<1> SUFFICES ASSUME OnceStep, Load PROVE OnceInv' OBVIOUS
<1>1. PICK x \in {Event("ready"), Event("unavailable")} :
        results' = results \o <<Event("preparing"), x>>
  BY DEF Load, LoadSucceeds, LoadFails
<1> DEFINE y == Event("preparing")
           longer == Append(results, y)
<1>2. /\ x.kind # "commit" /\ y.kind # "commit" /\ y \in Result /\ x \in Result
  BY <1>1, ResultMade DEF Event
<1>3. /\ results \in Seq(Result) /\ editor \in Seq(EditorWork) /\ work \in Seq(Job)
      /\ TextApart(file, editor, results, Excused) /\ FlowsOn /\ engine \in EngineState
  BY OnceFromHere DEF OnceStep, WrittenApart
<1>4. longer \in Seq(Result) /\ results' = Append(longer, x)
  BY <1>1, <1>2, <1>3
<1>5. /\ Reaches(longer, "commit") = Reaches(results, "commit")
      /\ TextApart(file, editor, longer, Excused)
  <2> HIDE DEF y
  <2>1. QueueMove(results, longer, "commit")
    BY <1>2 DEF QueueMove
  <2> HIDE DEF longer
  <2> QED BY <1>2, <1>3, <2>1, ReachAdded, TextQueued DEF longer
<1> HIDE DEF longer
<1>6. Committed' = Committed /\ TextApart(file, editor, results', Excused)
  <2>1. QueueMove(longer, results', "commit")
    BY <1>2, <1>4 DEF QueueMove
  <2> QED BY <1>2, <1>3, <1>4, <1>5, <2>1, ReachAdded, TextQueued DEF Committed
<1>7. /\ UNCHANGED engineOnly /\ work' = work
      /\ \E phase : engine' = [engine EXCEPT !.phase = phase]
  BY DEF Load, LoadSucceeds, LoadFails
<1>8. /\ engine'.job = engine.job /\ engine'.id = engine.id
      /\ engine'.through = engine.through /\ engine'.at = engine.at
  BY <1>3, <1>7, JobLeft, ProgressLeft
<1> QED BY <1>3, <1>6, <1>7, <1>8, OnceThread DEF FlowsOn

(* Work is answered at once, or becomes the job. *)
Answered ==
  /\ results' = results \/ \E x : x.kind # "commit" /\ results' = Append(results, x)
  /\ engine'.job = engine.job
  /\ \/ engine'.id = engine.id /\ engine'.through = engine.through
     \/ /\ Decodes(Head(work)) /\ engine'.id = Head(work).c
        /\ engine'.through = Offset(engine.id, engine.through, Head(work).c)
Taken ==
  /\ results' = results /\ Decodes(Head(work))
  /\ engine'.job.kind = Head(work).kind /\ engine'.job.c = Head(work).c
  /\ engine'.id = Head(work).c /\ engine'.at = engine'.through
  /\ \/ /\ OfSpeech(Head(work))
        /\ engine'.through = Offset(engine.id, engine.through, Head(work).c)
     \/ Head(work).kind = "recording" /\ engine'.through = Head(work).start

LEMMA WorkTaken ==
  OnceInv /\ TakeWork =>
    /\ work # <<>> /\ work' = Tail(work) /\ work' \in Seq(Job) /\ UNCHANGED engineOnly
    /\ engine.job = NoJob /\ ~Decodes(NoJob)
    /\ Answered \/ Taken
<1> SUFFICES ASSUME OnceInv, TakeWork
             PROVE  /\ work # <<>> /\ work' = Tail(work) /\ work' \in Seq(Job)
                    /\ UNCHANGED engineOnly /\ engine.job = NoJob /\ ~Decodes(NoJob)
                    /\ Answered \/ Taken
  OBVIOUS
<1> DEFINE job == Head(work)
<1>1. /\ engine.phase # "busy" /\ work # <<>> /\ work' = Tail(work) /\ UNCHANGED engineOnly
      /\ work \in Seq(Job) /\ work' \in Seq(Job) /\ engine \in EngineState /\ job \in Job
  <2>1. engine.phase # "busy" /\ work # <<>> /\ work' = Tail(work) /\ UNCHANGED engineOnly
    BY DEF TakeWork, TakeWhileFailed, TakeTick, TakeFinish, TakeRecording, TakeQuit, Take
  <2> QED BY <2>1, OnceFromHere
<1>2. engine.job = NoJob /\ ~Decodes(NoJob)
  BY <1>1, OnceFromHere DEF Numbered, NoJob, Decodes
<1> HIDE DEF job
<1>3. ASSUME results' = results \/ \E x : x.kind # "commit" /\ results' = Append(results, x),
             engine'.job = engine.job,
             \/ engine'.id = engine.id /\ engine'.through = engine.through
             \/ /\ Decodes(job) /\ engine'.id = job.c
                /\ engine'.through = Offset(engine.id, engine.through, job.c)
      PROVE  Answered \/ Taken
  BY <1>3 DEF Answered, job
<1>4. ASSUME NEW x, results' = results, engine'.job = x, x.kind = job.kind, x.c = job.c,
             Decodes(job), engine'.id = job.c, engine'.at = engine'.through,
             \/ OfSpeech(job) /\ engine'.through = Offset(engine.id, engine.through, job.c)
             \/ job.kind = "recording" /\ engine'.through = job.start
      PROVE  Answered \/ Taken
  BY <1>4 DEF Taken, job
<1>5. ASSUME TakeWhileFailed \/ TakeQuit PROVE Answered \/ Taken
  <2>1. results' = results /\ \E phase : engine' = [engine EXCEPT !.phase = phase]
    BY <1>5 DEF TakeWhileFailed, TakeQuit
  <2> QED BY <1>1, <2>1, <1>3, JobLeft, ProgressLeft
<1>6. ASSUME TakeTick PROVE Answered \/ Taken
  <2>1. Decodes(job) /\ OfSpeech(job) /\ TickDone(job.c).kind # "commit"
    BY <1>6 DEF TakeTick, Take, job, Decodes, OfSpeech, TickDone
  <2>2. \/ results' = Append(results, TickDone(job.c)) /\ engine' = engine
        \/ results' = Append(results, TickDone(job.c)) /\ engine' = Begun(engine, job.c)
        \/ /\ engine' = Busy(Begun(engine, job.c), job, Begun(engine, job.c).through)
           /\ results' = results
    BY <1>6 DEF TakeTick, job
  <2>3. CASE results' = Append(results, TickDone(job.c)) /\ engine' = engine
    BY <2>1, <2>3, <1>3
  <2>4. CASE results' = Append(results, TickDone(job.c)) /\ engine' = Begun(engine, job.c)
    BY <1>1, <2>1, <2>4, <1>3, JobLeft, ProgressLeft
  <2>5. CASE /\ engine' = Busy(Begun(engine, job.c), job, Begun(engine, job.c).through)
             /\ results' = results
    BY <1>1, <2>1, <2>5, <1>4, JobLeft, ProgressLeft
  <2> QED BY <2>2, <2>3, <2>4, <2>5
<1>7. ASSUME TakeFinish PROVE Answered \/ Taken
  <2>1. Decodes(job) /\ OfSpeech(job) /\ Finished(job.c, "failed").kind # "commit"
    BY <1>7 DEF TakeFinish, Take, job, Decodes, OfSpeech, Finished
  <2>2. \/ results' = Append(results, Finished(job.c, "failed")) /\ engine' = Begun(engine, job.c)
        \/ /\ engine' = Busy(Begun(engine, job.c), job, Begun(engine, job.c).through)
           /\ results' = results
    BY <1>7 DEF TakeFinish, job
  <2>3. CASE results' = Append(results, Finished(job.c, "failed")) /\ engine' = Begun(engine, job.c)
    BY <1>1, <2>1, <2>3, <1>3, JobLeft, ProgressLeft
  <2>4. CASE /\ engine' = Busy(Begun(engine, job.c), job, Begun(engine, job.c).through)
             /\ results' = results
    BY <1>1, <2>1, <2>4, <1>4, JobLeft, ProgressLeft
  <2> QED BY <2>2, <2>3, <2>4
<1>8. ASSUME TakeRecording PROVE Answered \/ Taken
  <2> DEFINE whole == [job EXCEPT !.end = wav[job.c]]
  <2>1. /\ Decodes(job) /\ job.kind = "recording"
        /\ \A o : Finished(job.c, o).kind # "commit"
    BY <1>8 DEF TakeRecording, Take, job, Decodes, Finished
  <2>2. whole.kind = job.kind /\ whole.c = job.c
    <3>1. job \in DecodeJob
      BY <1>1, <2>1, JobRead
    <3> QED BY <3>1 DEF DecodeJob
  <2>3. \/ /\ results' \in {Append(results, Finished(job.c, "failed")),
                             Append(results, Finished(job.c, "short"))}
           /\ engine' = engine
        \/ engine' = Busy(Resumed(engine, job.c, job.start), whole, job.start) /\ results' = results
    <3>1. CASE wav[job.c] = Gone
      BY <1>8, <3>1 DEF TakeRecording, job
    <3>2. CASE wav[job.c] # Gone
      BY <1>8, <3>2 DEF TakeRecording, job
    <3> QED BY <3>1, <3>2
  <2> HIDE DEF whole
  <2>4. CASE engine' = Busy(Resumed(engine, job.c, job.start), whole, job.start) /\ results' = results
    BY <1>1, <2>1, <2>2, <2>4, <1>4, JobLeft, ProgressLeft
  <2> QED BY <2>1, <2>3, <2>4, <1>3
<1> QED BY <1>1, <1>2, <1>5, <1>6, <1>7, <1>8 DEF TakeWork

LEMMA OnceTakeWork == OnceStep /\ TakeWork => OnceInv'
<1> SUFFICES ASSUME OnceStep, TakeWork PROVE OnceInv' OBVIOUS
<1>1. /\ work # <<>> /\ work' = Tail(work) /\ work' \in Seq(Job) /\ UNCHANGED engineOnly
      /\ engine.job = NoJob /\ ~Decodes(NoJob) /\ work \in Seq(Job) /\ FlowsOn
  BY WorkTaken, OnceFromHere DEF OnceStep
<1>2. CASE Answered
  <2>1. Committed' = Committed /\ TextApart(file, editor, results', Excused)
    BY <1>2, ToldNoText DEF Answered
  <2>2. Flow(Placed, Committed, engine.job, engine'.id, engine'.through, engine'.at, Tail(work),
             Tickers, Waiters, Hushed, Excused)
    BY <1>1, <1>2, FlowAnswered DEF FlowsOn, Answered
  <2>3. engine'.job = engine.job
    BY <1>2 DEF Answered
  <2> QED BY <1>1, <2>1, <2>2, <2>3, OnceThread
<1>3. CASE Taken
  <2>1. Committed' = Committed /\ TextApart(file, editor, results', Excused)
    BY <1>3, ToldNoText DEF Taken
  <2>2. Flow(Placed, Committed, engine'.job, Head(work).c, engine'.through, engine'.through,
             Tail(work), Tickers, Waiters, Hushed, Excused)
    BY <1>1, <1>3, FlowTaken DEF FlowsOn, Taken
  <2>3. engine'.id = Head(work).c /\ engine'.at = engine'.through
    BY <1>3 DEF Taken
  <2> QED BY <1>1, <2>1, <2>2, <2>3, OnceThread
<1>4. Answered \/ Taken
  BY WorkTaken DEF OnceStep
<1> QED BY <1>2, <1>3, <1>4

(* The job goes on, or reports text through n, or ends, as the last of its
   capture unless it is a tick. *)
Onwards ==
  /\ results' = results /\ engine'.job = engine.job /\ engine'.id = engine.id
  /\ engine'.through = engine.through /\ engine'.at = engine.at
Reports(n) ==
  /\ engine.at < n /\ results' = Append(results, Commit(engine.job.c, engine.at, n))
  /\ Committed' = Committed \cup {<<engine.job.c, n>>}
  /\ engine'.job = engine.job /\ engine'.id = engine.id /\ engine'.at = n
  /\ engine'.through = IF engine.job.kind = "finish" THEN engine.through ELSE n
Leaves ==
  /\ \E x : x.kind # "commit" /\ results' = Append(results, x)
  /\ engine.job.kind # "tick" => ~Source(work, Tickers, engine.job.c)
  /\ engine'.job = NoJob
  /\ \/ engine'.id = engine.id /\ engine'.through = engine.through
     \/ engine'.through = 0 /\ engine.job.kind # "tick"

LEMMA Decoded ==
  OnceInv /\ Decode =>
    /\ Decodes(engine.job) /\ UNCHANGED engineOnly /\ work' = work /\ engine.at \in Nat
    /\ Onwards \/ (\E n \in Nat : Reports(n)) \/ Leaves
<1> SUFFICES ASSUME OnceInv, Decode
             PROVE  /\ Decodes(engine.job) /\ UNCHANGED engineOnly /\ work' = work
                    /\ engine.at \in Nat
                    /\ Onwards \/ (\E n \in Nat : Reports(n)) \/ Leaves
  OBVIOUS
<1> DEFINE j == engine.job
<1>1. /\ engine.phase = "busy" /\ j \in DecodeJob /\ Decodes(j)
      /\ UNCHANGED engineOnly /\ work' = work /\ engine \in EngineState /\ engine.at \in Nat
      /\ results \in Seq(Result) /\ Forward
  <2>1. engine.phase = "busy" /\ UNCHANGED engineOnly /\ work' = work
    BY DEF Decode, DecodeSegment, CommitSilence, CommitSegment, JobDone, JobFails,
       JobEnded, Deciding
  <2>2. engine \in EngineState /\ j \in DecodeJob
    BY <2>1, OnceFromHere DEF Attached
  <2> QED BY <2>1, <2>2, OnceFromHere, PipelineAssumption
          DEF DecodeJob, Decodes, EngineState, Frames
<1>2. ASSUME NEW e \in 1..MaxFrames, DecodeSegment(e) PROVE Onwards
  <2>1. results' = results /\ engine' = [engine EXCEPT !.segment = e]
    BY <1>2 DEF DecodeSegment
  <2> QED BY <1>1, <2>1 DEF EngineState, Onwards
<1>3. ASSUME CommitSegment \/ \E e \in 1..MaxFrames : CommitSilence(e)
      PROVE  \E n \in Nat : Reports(n)
  <2>1. PICK n \in Nat : /\ engine.at < n /\ engine' = CommitThrough(engine, n)
                         /\ results' = Append(results, Commit(j.c, engine.at, n))
    <3>1. ASSUME CommitSegment
          PROVE  /\ engine.segment \in Nat /\ engine.at < engine.segment
                 /\ engine' = CommitThrough(engine, engine.segment)
                 /\ results' = Append(results, Commit(j.c, engine.at, engine.segment))
      BY <1>1, <3>1, PipelineAssumption DEF CommitSegment, Forward, EngineState, Frames
    <3>2. ASSUME NEW e \in 1..MaxFrames, CommitSilence(e)
          PROVE  /\ e \in Nat /\ engine.at < e /\ engine' = CommitThrough(engine, e)
                 /\ results' = Append(results, Commit(j.c, engine.at, e))
      BY <1>1, <3>2 DEF CommitSilence
    <3> QED BY <1>3, <3>1, <3>2
  <2> DEFINE x == Commit(j.c, engine.at, n)
  <2>2. x.kind = "commit" /\ Reach(x) = <<j.c, n>> /\ results' = Append(results, x)
    BY <2>1 DEF Commit, Reach
  <2> HIDE DEF x
  <2>3. Committed' = Committed \cup {<<j.c, n>>}
    <3>1. Reaches(Append(results, x), "commit") = Reaches(results, "commit") \cup {Reach(x)}
      BY <1>1, <2>2, ReachAdded
    <3> QED BY <2>2, <3>1 DEF Committed
  <2>4. /\ engine'.job = j /\ engine'.id = engine.id /\ engine'.at = n
        /\ engine'.through = IF j.kind = "finish" THEN engine.through ELSE n
    BY <1>1, <2>1, JobLeft, ProgressLeft
  <2>5. Reports(n)
    BY <2>1, <2>3, <2>4 DEF Reports
  <2> QED BY <2>5
<1>4. ASSUME JobDone \/ JobFails PROVE Leaves
  <2>1. /\ \E o : results' = Append(results, Outcome(j, o))
        /\ engine' \in {Rest(engine), Rest(ResetProgress(engine))}
        /\ engine' # Rest(engine) => engine' = Rest(ResetProgress(engine)) /\ j.kind # "tick"
    BY <1>4 DEF JobDone, JobFails, JobEnded
  <2>2. \A o : Outcome(j, o).kind # "commit"
    BY DEF Outcome, TickDone, Finished
  <2> HIDE DEF j
  <2>3. j.kind # "tick" => ~Source(work, Tickers, j.c)
    <3> SUFFICES ASSUME j.kind # "tick" PROVE ~Source(work, Tickers, j.c)
      OBVIOUS
    <3>1. Ends(j)
      BY <1>1 DEF Ends, Decodes
    <3>2. Fits(j, made, Open) /\ Precedes(j, work, replayed)
      BY DEF OnceInv, OrderInv, InStream, Stream, j
    <3>3. j.c \notin Tickers
      <4>1. j.c \in Captures /\ j.c \notin Open
        BY <1>1, <3>1, <3>2 DEF Fits, DecodeJob
      <4> QED BY <4>1 DEF Tickers, Ticking, Open
    <3>4. \A k \in DOMAIN work : OfSpeech(work[k]) => work[k].c # j.c
      BY <3>1, <3>2 DEF Precedes, Behind, OfSpeech, Text
    <3> QED BY <3>3, <3>4 DEF Source
  <2>4. /\ engine'.job = NoJob
        /\ \/ engine'.id = engine.id /\ engine'.through = engine.through
           \/ engine'.through = 0 /\ j.kind # "tick"
    BY <1>1, <2>1, JobLeft, ProgressLeft
  <2> QED BY <2>1, <2>2, <2>3, <2>4 DEF Leaves, j
<1> QED BY <1>1, <1>2, <1>3, <1>4 DEF Decode

LEMMA OnceDecode == OnceStep /\ Decode => OnceInv'
<1> SUFFICES ASSUME OnceStep, Decode PROVE OnceInv' OBVIOUS
<1> DEFINE j == engine.job
<1>1. /\ Decodes(j) /\ UNCHANGED engineOnly /\ work' = work /\ engine.at \in Nat
      /\ work \in Seq(Job) /\ results \in Seq(Result)
      /\ TextApart(file, editor, results, Excused)
  BY Decoded, OnceFromHere DEF OnceStep, WrittenApart
<1>2. Flow(Placed, Committed, j, engine.id, engine.through, engine.at, work,
           Tickers, Waiters, Hushed, Excused)
  BY OnceFromHere DEF FlowsOn, OnceStep
<1>3. CASE Onwards
  BY <1>1, <1>2, <1>3, OnceThread DEF Onwards, Committed
<1>4. ASSUME NEW n \in Nat, Reports(n) PROVE OnceInv'
  <2> DEFINE x == Commit(j.c, engine.at, n)
  <2>1. /\ x.kind = "commit" /\ x.c = j.c /\ x.from = engine.at /\ x.through = n
        /\ results' = Append(results, x)
    BY <1>4 DEF Commit, Reports
  <2>2. /\ engine'.job = j /\ engine'.id = engine.id /\ engine'.at = n /\ engine.at < n
        /\ engine'.through = IF j.kind = "finish" THEN engine.through ELSE n
        /\ Committed' = Committed \cup {<<j.c, n>>}
    BY <1>4 DEF Reports
  <2> HIDE DEF x, j
  <2>3. Flow(Placed, Committed \cup {<<j.c, n>>}, j, engine.id, engine'.through, n, work,
             Tickers, Waiters, Hushed, Excused)
    <3>1. \A p \in Placed \cup Committed : p[2] \in Nat
      BY ReachTyped DEF OnceStep
    <3> QED BY <1>1, <1>2, <2>2, <3>1, FlowReported
  <2>4. TextApart(file, editor, results', Excused)
    <3>1. x.c \notin Excused => UpTo(Placed \cup Committed, x.c, x.from)
      BY <1>1, <1>2, <2>1 DEF Flow, JobFlows
    <3> QED BY <1>1, <2>1, <3>1, TextReported DEF Placed, Committed
  <2> QED BY <1>1, <2>2, <2>3, <2>4, OnceThread
<1>5. CASE Leaves
  <2>1. Committed' = Committed /\ TextApart(file, editor, results', Excused)
    BY <1>5, ToldNoText DEF Leaves
  <2>2. Flow(Placed, Committed, NoJob, engine'.id, engine'.through, engine'.at, work,
             Tickers, Waiters, Hushed, Excused)
    BY <1>1, <1>2, <1>5, FlowEnded DEF Leaves
  <2>3. engine'.job = NoJob
    BY <1>5 DEF Leaves
  <2> QED BY <1>1, <2>1, <2>2, <2>3, OnceThread
<1> QED BY <1>3, <1>4, <1>5, Decoded DEF OnceStep

-----------------------------------------------------------------------------
(* The editor thread. *)

LEMMA OnceEditor == OnceStep /\ Editor => OnceInv'
<1> SUFFICES ASSUME OnceStep, Editor PROVE OnceInv' OBVIOUS
<1>1. /\ UNCHANGED <<pc, session, live, trans, list, made, work, results, engine>>
      /\ editor # <<>> /\ editor' = Tail(editor) /\ editor \in Seq(EditorWork)
      /\ file \in Seq([c : Captures, from : Frames, through : Frames])
      /\ TextApart(file, editor, results, Excused) /\ NotDue
  BY OnceFromHere DEF OnceStep, WrittenApart, Editor, WriteText, CopyText, EditorQuits, loopVars,
     diskVars, modelVars
<1>2. EntriesStay /\ ListStays /\ UnderWay' = UnderWay
  BY <1>1 DEF EntriesStay, ListStays, UnderWay
<1>3. CASE CopyText \/ EditorQuits
  <2>1. file' = file /\ QueueMove(editor, editor', "append") /\ QueueMove(results, results', "commit")
    BY <1>1, <1>3 DEF CopyText, EditorQuits, QueueMove
  <2> QED BY <1>1, <1>2, <2>1, OnceCalm DEF OnceStep
<1>4. CASE WriteText
  <2> DEFINE h == Head(editor)
             x == [c |-> h.c, from |-> h.from, through |-> h.through]
  <2>1. /\ h.kind = "append" /\ file' = Append(file, x)
        /\ x.c = h.c /\ x.from = h.from /\ x.through = h.through /\ Reach(x) = Reach(h)
    BY <1>4 DEF WriteText, Reach
  <2> HIDE DEF x
  <2>2. Placed' \subseteq Placed
    <3>1. InFile(Append(file, x)) = InFile(file) \cup {Reach(x)}
      BY <1>1, ReachAdded
    <3>2. /\ Reaches(Tail(editor), "append") \subseteq Reaches(editor, "append")
          /\ Reach(h) \in Reaches(editor, "append")
      BY <1>1, <2>1, ReachLeft
    <3> HIDE DEF h
    <3> QED BY <1>1, <2>1, <3>1, <3>2 DEF Placed
  <2>3. TextApart(file', editor', results', Excused)
    BY <1>1, <2>1, TextWritten
  <2>4. Entered' /\ Listed'
    BY <1>1, <1>2, <2>2, OnceLists DEF OnceStep
  <2>5. /\ Placed' \subseteq Placed \cup Committed /\ Committed' \subseteq Committed
        /\ Waiters' \subseteq Waiters /\ NotDue'
    BY <1>1, <1>2, <2>2 DEF Committed, Waiters, NotDue, Ticking
  <2> QED BY <1>1, <1>2, <2>3, <2>4, <2>5, OnceOn DEF OnceStep
<1> QED BY <1>3, <1>4 DEF Editor

-----------------------------------------------------------------------------
(* The end of a process, and the next. *)

LEMMA OnceEnds ==
  ASSUME OnceStep, ProcessEnds, UNCHANGED <<file, list, made>>,
         \A c \in Captures : list[c] # Gone /\ c \notin Excused' => UpTo(Placed, c, list[c])
  PROVE  OnceInv'
<1>1. /\ ~UnderWay' /\ engine'.job = NoJob /\ work' = <<>> /\ results' = <<>> /\ editor' = <<>>
      /\ \A c \in Captures : trans'[c].stage = "none"
  BY DEF ProcessEnds, UnderWay, NewSession, Unlisted, Loading
<1>2. Tickers' = {} /\ Hushed' = {} /\ NotDue' /\ Entered'
  BY <1>1 DEF Tickers, Ticking, Hushed, NotDue, Entered
<1>3. Committed' = {} /\ Placed' \subseteq Placed
  BY <1>1 DEF Committed, Placed, Reaches
<1>4. FlowsOn'
  BY <1>1, <1>2, <1>3, FlowGone DEF FlowsOn
<1>5. WrittenApart'
  <2>1. TextApart(file, <<>>, <<>>, Excused)
    BY TextGone, OnceFromHere DEF OnceStep, WrittenApart
  <2> QED BY <1>1, <2>1, ApartExcused DEF OnceStep, Onward, WrittenApart
<1>6. Listed'
  BY <1>3, OnceFromHere DEF Listed, OnceStep, UpTo
<1> QED BY <1>2, <1>4, <1>5, <1>6 DEF OnceStep, OnceInv, Onward

LEMMA OnceExit == OnceStep /\ Exit => OnceInv'
<1> SUFFICES ASSUME OnceStep, Exit PROVE OnceInv' OBVIOUS
<1>1. /\ ProcessEnds /\ UNCHANGED <<file, list, made>> /\ pc = "closing"
      /\ Listed /\ Excused \subseteq Excused'
  BY OnceFromHere DEF Exit, LoopAt, OnceStep, Onward
<1>2. \A c \in Captures : list[c] # Gone /\ c \notin Excused' => UpTo(Placed, c, list[c])
  BY <1>1 DEF Listed
<1> QED BY <1>1, <1>2, OnceEnds

(* The captures the list named are excused. *)
LEMMA OnceCrash == OnceStep /\ Crash => OnceInv'
<1> SUFFICES ASSUME OnceStep, Crash PROVE OnceInv' OBVIOUS
<1>1. /\ ProcessEnds /\ UNCHANGED <<file, list, made>> /\ Listed /\ made \in Nat
      /\ crashed' = crashed \cup {c \in 1..made : list[c] # Gone}
  BY OnceFromHere DEF Crash, OnceStep
<1>2. \A c \in Captures : list[c] # Gone => c \in Excused'
  BY <1>1, PipelineAssumption DEF Listed, Excused, Captures
<1> QED BY <1>1, <1>2, OnceEnds

LEMMA OnceShutdown == OnceStep /\ Shutdown => OnceInv'
<1> SUFFICES ASSUME OnceStep, Shutdown PROVE OnceInv' OBVIOUS
<1>1. CASE ShutDown
  <2> DEFINE x == QuitWork
  <2>1. /\ UNCHANGED <<session, live, trans, list, file, editor, results, engine, made>>
        /\ pc = "leaving" /\ pc' = "joining" /\ work' = Append(work, x)
        /\ work \in Seq(Job) /\ work' \in Seq(Job) /\ FlowsOn /\ NotDue
    BY <1>1, OnceFromHere
       DEF ShutDown, LoopAt, modelVars, diskVars, OnceStep, OrderInv, TypeInv, TypeOK
  <2>2. /\ Tickers' = Tickers /\ Waiters' = Waiters /\ Hushed' = Hushed /\ NotDue'
        /\ Placed' = Placed
    BY <2>1 DEF Tickers, Ticking, Waiters, Hushed, UnderWay, NotDue, Placed
  <2>3. Entered' /\ Listed'
    <3>1. EntriesStay /\ ListStays
      BY <2>1 DEF EntriesStay, ListStays
    <3> QED BY <2>1, <2>2, <3>1, OnceLists DEF OnceStep
  <2>4. ~Decodes(x) /\ ~OfSpeech(x) /\ x.kind # "recording"
    BY DEF QuitWork, NoJob, Decodes, OfSpeech
  <2> HIDE DEF x
  <2>5. Flow(Placed, Committed, engine.job, engine.id, engine.through, engine.at,
             Append(work, x), Tickers, Waiters, Hushed, Excused)
    <3>1. /\ \A d \in Waiters \cup Hushed : ~OfCapture(x, d)
          /\ Tickers \in SUBSET Tickers /\ Waiters \in SUBSET Waiters /\ Hushed \in SUBSET Hushed
      BY <2>4 DEF OfCapture
    <3> QED BY <2>1, <2>4, <3>1, FlowSent DEF FlowsOn
  <2> QED BY <2>1, <2>2, <2>3, <2>5, OnceSends
<1>2. CASE JoinEngine
  <2>1. /\ UNCHANGED <<session, live, trans, list, file, editor, results, engine, made, work>>
        /\ pc = "joining" /\ pc' = "draining"
    BY <1>2 DEF JoinEngine, LoopAt, modelVars, diskVars
  <2>2. /\ UnderWay' = UnderWay /\ EntriesStay /\ ListStays
        /\ QueueMove(editor, editor', "append") /\ QueueMove(results, results', "commit")
    BY <2>1 DEF UnderWay, EntriesStay, ListStays, QueueMove
  <2> QED BY <2>1, <2>2, OnceCalm DEF OnceStep
<1>3. CASE DrainResult
  <2>1. /\ UNCHANGED <<pc, live, list, file, made, work, engine>>
        /\ pc = "draining" /\ results # <<>> /\ results' = Tail(results)
    BY <1>3 DEF DrainResult, LoopAt
  <2>2. CASE Head(results).kind = "commit"
    <3>1. TakeCommit(Head(results))
      BY <1>3, <2>2 DEF DrainResult
    <3> QED BY <2>1, <2>2, <3>1, OnceCommit
  <2>3. CASE Head(results).kind = "finished"
    <3>1. /\ TakeFinished(Head(results).c, Head(results).outcome)
          /\ editor' = Append(editor, Copy(Head(results).c)) /\ session' = session
      BY <1>3, <2>3 DEF DrainResult
    <3>2. UnderWay' = UnderWay
      BY <2>1, <3>1 DEF UnderWay
    <3> QED BY <2>1, <2>3, <3>1, <3>2, OnceFinished
  <2>4. CASE Head(results).kind \notin {"commit", "finished"}
    <3>1. UNCHANGED <<trans, session, editor>>
      BY <1>3, <2>4 DEF DrainResult
    <3>2. /\ UnderWay' = UnderWay /\ EntriesStay /\ ListStays
          /\ QueueMove(editor, editor', "append") /\ QueueMove(results, results', "commit")
      BY <2>1, <3>1 DEF UnderWay, EntriesStay, ListStays, QueueMove
    <3> QED BY <2>1, <3>1, <3>2, OnceCalm DEF OnceStep
  <2> QED BY <2>2, <2>3, <2>4
<1>4. CASE ListWhatIsLeft
  <2>1. /\ UNCHANGED <<session, live, trans, file, results, work, engine, made>>
        /\ pc = "draining" /\ pc' = "closing" /\ editor' = Append(editor, EditorQuit)
    BY <1>4 DEF ListWhatIsLeft, LoopAt
  <2>2. ListStays
    <3>1. CASE list' = ListOf(trans, {c \in Captures : Owed(trans[c])})
      BY <2>1, <3>1 DEF ListOf, Owed, ListStays
    <3>2. CASE FaultHappens("persist") /\ UNCHANGED list
      <4>1. /\ TypeOK /\ "persist" \in FaultKinds \ {"any"}
            /\ faults["persist"] <= Faults["persist"] /\ faults["persist"] \in Nat
            /\ faults'["persist"] \in Nat /\ Faults["persist"] \in Nat
        BY PipelineAssumption
           DEF OnceStep, OnceInv, OwedInv, TypeInv, TypeOK, FaultKinds, WritesLeft
      <4>2. faults'["persist"] < faults["persist"]
        BY <3>2, <4>1, FaultsFall
      <4>3. Excused' = Captures
        BY <4>1, <4>2 DEF Excused, ListIsCurrent
      <4> QED BY <3>2, <4>3 DEF ListStays
    <3> QED BY <1>4, <3>1, <3>2 DEF ListWhatIsLeft
  <2>3. /\ UnderWay' => UnderWay
        /\ EntriesStay
        /\ QueueMove(editor, editor', "append") /\ QueueMove(results, results', "commit")
    BY <2>1 DEF UnderWay, EntriesStay, QueueMove, EditorQuit
  <2> QED BY <2>1, <2>2, <2>3, OnceCalm DEF OnceStep, Ticking
<1> QED BY <1>1, <1>2, <1>3, <1>4, OnceExit DEF Shutdown

(* What the list names waits, from where its text ends. *)
LEMMA OnceBoot == OnceStep /\ Boot => OnceInv'
<1> SUFFICES ASSUME OnceStep, Boot PROVE OnceInv' OBVIOUS
<1>1. /\ pc = "down" /\ pc' = "requests" /\ session.state = "idle" /\ engine' = Loading
      /\ UNCHANGED <<session, live, list, file, work, results, editor, made>>
      /\ work = <<>> /\ results = <<>> /\ editor = <<>>
      /\ Listed /\ WrittenApart /\ Excused \subseteq Excused'
  BY OnceFromHere DEF Boot, Emptied, Attached, OnceStep, Onward
<1>2. \A c \in Captures : trans'[c].stage # "none" =>
        list[c] # Gone /\ trans'[c].through = list[c]
  BY DEF Boot, Unlisted
<1>3. /\ Tickers' = {} /\ Hushed' = {} /\ NotDue' /\ Committed' = {} /\ Placed' = Placed
      /\ engine'.job = NoJob
  BY <1>1 DEF Tickers, Ticking, Hushed, UnderWay, NotDue, Committed, Reaches, Placed, Loading
<1>4. FlowsOn'
  BY <1>1, <1>3, FlowGone DEF FlowsOn
<1>5. WrittenApart'
  BY <1>1, ApartExcused DEF WrittenApart
<1>6. Entered' /\ Listed'
  BY <1>1, <1>2, <1>3 DEF Entered, Listed
<1> QED BY <1>3, <1>4, <1>5, <1>6 DEF OnceStep, OnceInv, Onward

LEMMA InitOnce == Faults["stall"] = 0 /\ Init => OnceInv
<1> SUFFICES ASSUME Faults["stall"] = 0, Init PROVE OnceInv OBVIOUS
<1> USE DEF Init
<1>1. OrderInv /\ ReadyInv /\ OwedInv
  BY InitOrder, InitReady, InitOwed
<1>2. ~UnderWay /\ engine.job = NoJob /\ \A c \in Captures : trans[c].stage = "none"
  BY DEF UnderWay, NewSession, Unlisted, Loading
<1>3. Tickers = {} /\ Hushed = {} /\ NotDue /\ Committed = {}
  BY <1>2 DEF Tickers, Ticking, Hushed, NotDue, Committed, Reaches
<1>4. FlowsOn
  BY <1>2, <1>3, FlowGone DEF FlowsOn
<1>5. WrittenApart
  BY DEF WrittenApart, TextApart, ApartWithin
<1>6. Entered /\ Listed /\ NoStall /\ Forward
  BY <1>2 DEF Entered, Listed, NoStall, Forward, Loading
<1> QED BY <1>1, <1>3, <1>4, <1>5, <1>6 DEF OnceInv

LEMMA StepOnce == OnceInv /\ [Next]_vars => OnceInv'
<1> SUFFICES ASSUME OnceInv, [Next]_vars PROVE OnceInv' OBVIOUS
<1>1. OnceStep
  <2>1. OrderInv' /\ ReadyInv' /\ OwedInv'
    BY StepOrder, StepReady, StepOwed DEF OnceInv
  <2> QED BY <2>1, StepOnward DEF OnceStep
<1>2. CASE UNCHANGED vars
  BY <1>1, <1>2, OnceIdle DEF vars, loopVars, diskVars, modelVars
<1> QED BY <1>1, <1>2, OnceRecorder, OnceUser, OnceStart, OncePass, OnceShutdown, OnceLoad,
           OnceTakeWork, OnceDecode, OnceEditor, OnceCrash, OnceBoot
        DEF Next, User, Engine

-----------------------------------------------------------------------------
(* The words of a capture are written once, in the order they were spoken,
   whatever was decoded of it by ticks, by its final decode or from its WAV,
   and whatever of it failed (engine.rs, the worker's offset and what an
   utterance resumes from; shell/daemon/mod.rs, tick, dispatch_recordings and
   shutdown; shell/recorder.rs, the waiting list): but of the captures the
   list named at a crash, and of none once the list could not be written.  It
   is so as long as no pass of the loop outlasts preview.interval: of a pass
   that does, the run `stall` shows a tick sent ahead of a recording. *)
THEOREM WordsWrittenOnce ==
  ASSUME Faults["stall"] = 0
  PROVE  Spec => []WrittenOnce
<1>1. Init => OnceInv
  BY InitOnce
<1>2. OnceInv => WrittenOnce
  <2> SUFFICES ASSUME OnceInv, ListIsCurrent, NEW i \in DOMAIN file, NEW k \in DOMAIN file,
                      i < k, file[i].c = file[k].c, file[i].c \notin crashed
               PROVE  file[i].through <= file[k].from
    BY DEF WrittenOnce
  <2> QED BY OnceFromHere DEF WrittenApart, TextApart, Apart, Excused
<1> QED BY <1>1, <1>2, StepOnce, PTL DEF Spec

-----------------------------------------------------------------------------
(* No gap in what the worker hears.  What it is sent of a capture begins where
   the loop heard of text: what was heard flows as the text does. *)

Begin(x) == <<x.c, x.start>>
Begins(w) == {Begin(w[k]) : k \in {i \in DOMAIN w : OfSpeech(w[i]) /\ w[i].start > 0}}
Hinted == IF session.hint > 0 THEN {<<session.current, session.hint>>} ELSE {}
Heard == Hinted \cup Begins(work)

HeardFlows == Flow(Heard, Committed, engine.job, engine.id, engine.through, engine.at, work,
                   Tickers, Waiters, Hushed, {})

(* A recording waits from no earlier than what was heard of it; nothing is
   discarded that was not; a daemon begins with nothing heard. *)
Recalled == \A c \in Captures : trans[c].stage # "none" => UpTo(Heard, c, trans[c].through)
BaseHeard == UnderWay /\ live => base <= session.hint
Rested == pc = "down" => session.hint = 0

GapInv == HeardFlows /\ Recalled /\ BaseHeard /\ Rested
GapStep == OnceInv /\ OnceInv' /\ GapInv /\ Rested'

(* No point of P2 is past all points of P. *)
Below(P2, P) ==
  \A p \in P2 : p[2] \in Nat /\ \E q \in P : q[1] = p[1] /\ q[2] \in Nat /\ p[2] <= q[2]

LEMMA FlowBelow ==
  ASSUME NEW P, NEW C, NEW j, NEW id, NEW th \in Nat, NEW at \in Nat, NEW w \in Seq(Job),
         NEW T, NEW W, NEW H, NEW X, Flow(P, C, j, id, th, at, w, T, W, H, X),
         NEW P2, Below(P2, P)
  PROVE  Flow(P2, C, j, id, th, at, w, T, W, H, X)
<1> DEFINE S == P \cup C
           S2 == P2 \cup C
<1>1. ASSUME NEW c, NEW n \in Nat
      PROVE  /\ UpTo(P, c, n) => UpTo(P2, c, n)
             /\ UpTo(S, c, n) => UpTo(S2, c, n)
  BY <1>1 DEF UpTo, Below
<1>2. \A c : Without(S, c) => Without(S2, c)
  BY DEF Without, Below
<1>3. \A c, k : Unspoken(S, j, w, c, k) => Unspoken(S2, j, w, c, k)
  BY <1>2 DEF Unspoken
<1>4. \A c : Offset(id, th, c) \in Nat
  BY DEF Offset
<1>5. \A k \in DOMAIN w : w[k].kind = "recording" => w[k].start \in Nat
  <2>1. \A k \in DOMAIN w : w[k] \in Job
    OBVIOUS
  <2> QED BY <2>1, JobRead, PipelineAssumption DEF DecodeJob, Frames
<1> HIDE DEF S, S2
<1>6. JobFlows(S2, j, id, th, at, X)
  BY <1>1 DEF Flow, JobFlows, S
<1>7. RecordingsFlow(P2, C, j, w, X)
  BY <1>1, <1>5 DEF Flow, RecordingsFlow
<1>8. SourcesFlow(S2, j, id, th, w, T, X)
  BY <1>1, <1>4 DEF Flow, SourcesFlow, S
<1>9. TurnsFlow(S2, j, w) /\ ComingFlow(S2, j, w, T) /\ WaitingFlow(C, j, w, W)
      /\ HushedFlow(S2, j, w, H)
  BY <1>3 DEF Flow, TurnsFlow, ComingFlow, HushedFlow, S
<1> QED BY <1>6, <1>7, <1>8, <1>9 DEF Flow, S2

LEMMA BeginsMove ==
  ASSUME NEW Q, NEW w \in Seq(Q), NEW x
  PROVE  /\ Begins(Append(w, x)) =
              Begins(w) \cup IF OfSpeech(x) /\ x.start > 0 THEN {Begin(x)} ELSE {}
         /\ w # <<>> => Begins(Tail(w)) \subseteq Begins(w)
         /\ w # <<>> /\ OfSpeech(Head(w)) /\ Head(w).start > 0 => Begin(Head(w)) \in Begins(w)
<1> DEFINE longer == Append(w, x)
           rest == Tail(w)
           head == Head(w)
<1>1. /\ \A k \in DOMAIN longer : \/ k = Len(w) + 1 /\ longer[k] = x
                                  \/ k \in DOMAIN w /\ longer[k] = w[k]
      /\ \A k \in DOMAIN w : k \in DOMAIN longer /\ longer[k] = w[k]
      /\ Len(w) + 1 \in DOMAIN longer /\ longer[Len(w) + 1] = x
  OBVIOUS
<1>2. w # <<>> => /\ 1 \in DOMAIN w /\ head = w[1]
                  /\ \A k \in DOMAIN rest : k + 1 \in DOMAIN w /\ rest[k] = w[k + 1]
  OBVIOUS
<1> HIDE DEF longer, rest, head
<1>3. Begins(longer) = Begins(w) \cup IF OfSpeech(x) /\ x.start > 0 THEN {Begin(x)} ELSE {}
  BY <1>1 DEF Begins
<1>4. w # <<>> => Begins(rest) \subseteq Begins(w)
  BY <1>2 DEF Begins
<1>5. w # <<>> /\ OfSpeech(head) /\ head.start > 0 => Begin(head) \in Begins(w)
  BY <1>2 DEF Begins
<1> QED BY <1>3, <1>4, <1>5 DEF longer, rest, head

LEMMA HeardTyped ==
  OnceInv => /\ \A p \in Heard : p[2] \in Nat
             /\ session.hint \in Nat /\ base \in Nat
             /\ engine.through \in Nat /\ engine.at \in Nat
             /\ \A c \in Captures : trans[c].through \in Nat
<1> SUFFICES ASSUME OnceInv
             PROVE  /\ \A p \in Heard : p[2] \in Nat
                    /\ session.hint \in Nat /\ base \in Nat
                    /\ engine.through \in Nat /\ engine.at \in Nat
                    /\ \A c \in Captures : trans[c].through \in Nat
  OBVIOUS
<1>1. Frames \subseteq Nat
  BY PipelineAssumption DEF Frames
<1>2. /\ session.hint \in Nat /\ base \in Nat /\ engine.through \in Nat /\ engine.at \in Nat
      /\ \A c \in Captures : trans[c].through \in Nat
  BY <1>1, OnceFromHere DEF SessionState, EngineState, Entry, TypeOK
<1>3. \A k \in DOMAIN work : OfSpeech(work[k]) => work[k].start \in Nat
  <2>1. work \in Seq(Job)
    BY OnceFromHere
  <2>2. \A k \in DOMAIN work : work[k] \in Job
    BY <2>1
  <2> QED BY <1>1, <2>2, JobRead DEF OfSpeech, DecodeJob
<1> QED BY <1>2, <1>3 DEF Heard, Hinted, Begins, Begin

(* What is heard stays, or is gone. *)
LEMMA HeardStays ==
  ASSUME OnceInv,
         \/ session'.hint = session.hint /\ session'.current = session.current
         \/ session'.hint = 0,
         \/ work' = work \/ (work # <<>> /\ work' = Tail(work))
         \/ \E x : work' = Append(work, x) /\ ~OfSpeech(x)
  PROVE  Heard' \subseteq Heard
<1>1. Hinted' \subseteq Hinted
  BY DEF Hinted
<1>2. Begins(work') \subseteq Begins(work)
  <2>1. work \in Seq(Job)
    BY OnceFromHere
  <2>2. ASSUME NEW x, work' = Append(work, x), ~OfSpeech(x)
        PROVE  Begins(work') \subseteq Begins(work)
    BY <2>1, <2>2, BeginsMove
  <2>3. CASE work # <<>> /\ work' = Tail(work)
    BY <2>1, <2>3, BeginsMove
  <2> QED BY <2>2, <2>3
<1> QED BY <1>1, <1>2 DEF Heard

LEMMA RecallsStay ==
  ASSUME GapStep, EntriesStay, Below(Heard', Heard)
  PROVE  Recalled'
<1> SUFFICES ASSUME NEW c \in Captures, trans'[c].stage # "none", NEW p \in Heard', p[1] = c
             PROVE  p[2] <= trans'[c].through
  BY DEF Recalled, UpTo
<1>1. /\ trans[c].stage # "none" /\ trans'[c].through = trans[c].through
      /\ trans[c].through \in Nat
  BY HeardTyped DEF EntriesStay, GapStep
<1>2. PICK q \in Heard : q[1] = c /\ q[2] \in Nat /\ p[2] \in Nat /\ p[2] <= q[2]
  BY DEF Below
<1>3. q[2] <= trans[c].through
  BY <1>1, <1>2 DEF GapStep, GapInv, Recalled, UpTo
<1> QED BY <1>1, <1>2, <1>3

LEMMA HeardBelow == OnceInv /\ Heard' \subseteq Heard => Below(Heard', Heard)
BY HeardTyped DEF Below

(* A step that begins no capture and sends no work. *)
LEMMA GapOn ==
  ASSUME GapStep, work' = work,
         engine'.job = engine.job, engine'.id = engine.id,
         engine'.through = engine.through, engine'.at = engine.at,
         UnderWay' => UnderWay /\ session'.current = session.current /\ live' = live,
         Waiters' \subseteq Waiters,
         Heard' \subseteq Heard \cup Committed, Committed' \subseteq Committed,
         Recalled', BaseHeard'
  PROVE  GapInv'
<1>1. Tickers' \ Tickers = {} /\ Waiters' \ Waiters = {} /\ Hushed' \ Hushed = {}
  <2>1. Waiters' # {} => Waiters # {}
    OBVIOUS
  <2>2. Tickers' \subseteq Tickers
    BY DEF Tickers, Ticking
  <2>3. Hushed' \subseteq Hushed
    BY <2>1 DEF Hushed
  <2> QED BY <2>2, <2>3
<1>2. HeardFlows'
  <2>1. Flow(Heard, Committed, engine.job, engine.id, engine.through, engine.at, work,
             Tickers, Waiters, Hushed, {}) /\ work \in Seq(Job)
    BY OnceFromHere DEF GapStep, GapInv, HeardFlows
  <2>2. /\ Joins(Tickers, Tickers', Heard' \cup Committed', engine.job, work)
        /\ Joins(Waiters, Waiters', Committed', engine.job, work)
        /\ Joins(Hushed, Hushed', Heard' \cup Committed', engine.job, work)
    BY <1>1 DEF Joins
  <2>3. Flow(Heard', Committed', engine.job, engine.id, engine.through, engine.at, work,
             Tickers', Waiters', Hushed', {})
    BY <2>1, <2>2, FlowOn
  <2> QED BY <2>3 DEF HeardFlows
<1> QED BY <1>2 DEF GapStep, GapInv

LEMMA GapCalm ==
  ASSUME GapStep, work' = work,
         engine'.job = engine.job, engine'.id = engine.id,
         engine'.through = engine.through, engine'.at = engine.at,
         QueueMove(results, results', "commit"),
         session'.hint = session.hint, session'.current = session.current,
         UnderWay' => UnderWay /\ live' = live,
         base' = base \/ BaseHeard',
         \A c \in Captures : trans'[c].stage = "kept" => trans[c].stage = "kept",
         EntriesStay
  PROVE  GapInv'
<1>1. Committed' \subseteq Committed
  BY QueueMoves, OnceFromHere DEF Committed, GapStep
<1>2. Heard' \subseteq Heard
  BY HeardStays DEF GapStep
<1>3. Recalled'
  BY <1>2, HeardBelow, RecallsStay DEF GapStep
<1>4. BaseHeard'
  BY DEF BaseHeard, GapStep, GapInv
<1>5. Waiters' \subseteq Waiters
  BY DEF Waiters
<1> QED BY <1>1, <1>2, <1>3, <1>4, <1>5, GapOn
LEMMA StepRested == OnceInv /\ Rested /\ [Next]_vars => Rested'
<1> SUFFICES ASSUME OnceInv, Rested, [Next]_vars, pc' = "down" PROVE session'.hint = 0
  BY DEF Rested
<1>1. CASE pc # "down"
  <2>1. ProcessEnds
    BY <1>1 DEF Next, Recorder, User, Pass, Shutdown, Engine, Load, TakeWork, Decode, Editor,
       Deliver, AudioArrives, Prune, CutShort, StartCapture, EndCapture, DiscardCapture,
       AskToStop, CloseWindow, TakeCapture, EndRequests, DeliverPreparing, DeliverReady,
       DeliverUnavailable, DeliverWindowClosed, DeliverCommit, DeliverTick, DeliverFinished,
       EndResults, SendTick, NoTick, DispatchRecording, EndPass, Stall, ShutDown, JoinEngine,
       DrainResult, ListWhatIsLeft, Exit, LoadSucceeds, LoadFails, TakeWhileFailed, TakeTick,
       TakeFinish, TakeRecording, TakeQuit, DecodeSegment, CommitSilence, CommitSegment,
       JobDone, JobFails, WriteText, CopyText, EditorQuits, Crash, Boot, engineOnly, loopVars,
       vars
  <2> QED BY <2>1 DEF ProcessEnds, NewSession
<1>2. CASE pc = "down"
  <2>1. /\ work = <<>> /\ results = <<>> /\ editor = <<>>
        /\ engine.phase = "exited" /\ ~editing
    BY <1>2, OnceFromHere DEF Emptied
  <2>2. Recorder \/ UNCHANGED vars
    BY <1>2, <2>1 DEF Next, User, Pass, Shutdown, Engine, Load, TakeWork, Decode, Editor,
       Deliver, StartCapture, EndCapture, DiscardCapture,
       AskToStop, CloseWindow, TakeCapture, EndRequests, DeliverPreparing, DeliverReady,
       DeliverUnavailable, DeliverWindowClosed, DeliverCommit, DeliverTick, DeliverFinished,
       EndResults, SendTick, NoTick, DispatchRecording, EndPass, Stall, ShutDown, JoinEngine,
       DrainResult, ListWhatIsLeft, Exit, LoadSucceeds, LoadFails, TakeWhileFailed, TakeTick,
       TakeFinish, TakeRecording, TakeQuit, DecodeSegment, CommitSilence, CommitSegment,
       JobDone, JobFails, WriteText, CopyText, EditorQuits, Crash, Boot, LoopAt, Delivered,
       Take, Deciding, JobEnded
  <2>3. UNCHANGED session
    BY <2>2 DEF Recorder, AudioArrives, Prune, CutShort, loopVars, vars
  <2> QED BY <1>2, <2>3 DEF Rested
<1> QED BY <1>1, <1>2

LEMMA SessionHints ==
  ASSUME NEW s \in SessionState
  PROVE  /\ Applied(s).hint = s.hint /\ Configure(s).hint = s.hint
         /\ IntervalPassed(s).hint = s.hint
         /\ Ended(s).hint = s.hint /\ Discarded(s).hint = s.hint
         /\ \A c : Started(s, c).hint = 0
         /\ \A c, i, w : NoteCommit(s, c, i, w).hint =
                           IF s.current = c /\ i > s.hint THEN i ELSE s.hint
         /\ \A c : Finish(s, c).hint = s.hint
         /\ \A c : TickFinished(s, c).hint = s.hint
<1> USE DEF SessionState
<1>1. /\ Applied(s).hint = s.hint /\ Configure(s).hint = s.hint
      /\ IntervalPassed(s).hint = s.hint
  BY DEF Applied, Configure, IntervalPassed
<1>2. Applied(s) \in SessionState
  BY SessionSteps
<1>3. Ended(s).hint = s.hint /\ Discarded(s).hint = s.hint
  BY <1>1, <1>2 DEF Ended, Discarded
<1>4. \A c : Started(s, c).hint = 0
  BY <1>2 DEF Started
<1>5. \A c, i, w : NoteCommit(s, c, i, w).hint = IF s.current = c /\ i > s.hint THEN i ELSE s.hint
  BY <1>1, <1>2 DEF NoteCommit, IsCurrent
<1>6. \A c : Finish(s, c).hint = s.hint
  BY <1>1, <1>2 DEF Finish
<1>7. \A c : TickFinished(s, c).hint = s.hint
  BY DEF TickFinished
<1> QED BY <1>1, <1>3, <1>4, <1>5, <1>6, <1>7

-----------------------------------------------------------------------------
(* The steps that send no work and hear of no text. *)

LEMMA GapIdle ==
  ASSUME GapStep, UNCHANGED <<pc, session, live, base, trans, work, results>>,
         engine'.job = engine.job, engine'.id = engine.id,
         engine'.through = engine.through, engine'.at = engine.at
  PROVE  GapInv'
<1>1. QueueMove(results, results', "commit") /\ UnderWay' = UnderWay /\ EntriesStay
  BY DEF QueueMove, UnderWay, EntriesStay
<1> QED BY <1>1, GapCalm

LEMMA GapRecorder == GapStep /\ Recorder => GapInv'
BY GapIdle DEF Recorder, AudioArrives, Prune, CutShort, loopVars, micVars, modelVars

LEMMA GapForgotten ==
  ASSUME GapStep, session.state = "recording", NEW deserved, DiscardCurrent(deserved),
         pc # "postroll", UNCHANGED <<pc, live, base, work, engine>>,
         QueueMove(results, results', "commit")
  PROVE  GapInv'
<1>1. ~UnderWay' /\ \A c \in Captures : trans'[c].stage = "kept" => trans[c].stage = "kept"
  BY Forgotten DEF GapStep, OnceInv
<1>2. \A c \in Captures : trans'[c] = trans[c] \/ trans'[c].stage = "none"
  BY OnceFromHere DEF DiscardCurrent, GapStep, Unlisted
<1>3. session'.hint = session.hint /\ session'.current = session.current
  BY OnceFromHere, SessionTurns, SessionHints DEF DiscardCurrent, GapStep
<1>4. EntriesStay
  BY <1>2 DEF EntriesStay
<1> QED BY <1>1, <1>3, <1>4, GapCalm

LEMMA GapUser ==
  GapStep /\ (EndCapture \/ DiscardCapture \/ AskToStop \/ CloseWindow) => GapInv'
<1> SUFFICES ASSUME GapStep, EndCapture \/ DiscardCapture \/ AskToStop \/ CloseWindow
             PROVE  GapInv'
  OBVIOUS
<1>1. CASE EndCapture
  <2>1. /\ session'.current = session.current /\ session'.hint = session.hint /\ UnderWay
        /\ UNCHANGED <<live, base, trans, work, results, engine>>
    BY <1>1, OnceFromHere, SessionTurns, SessionHints
       DEF GapStep, EndCapture, UnderWay, modelVars, diskVars, micVars
  <2>2. QueueMove(results, results', "commit") /\ EntriesStay
    BY <2>1 DEF QueueMove, EntriesStay
  <2> QED BY <2>1, <2>2, GapCalm
<1>2. CASE DiscardCapture
  <2>1. QueueMove(results, results', "commit")
    BY <1>2 DEF DiscardCapture, QueueMove
  <2> QED BY <1>2, <2>1, GapForgotten DEF DiscardCapture, LoopAt, diskVars
<1>3. CASE AskToStop
  BY <1>3, GapIdle DEF AskToStop, loopVars, micVars
<1>4. CASE CloseWindow
  <2>1. /\ UNCHANGED <<pc, session, live, base, trans, work, engine>>
        /\ results' = Append(results, WindowClosed(made)) /\ WindowClosed(made).kind # "commit"
    BY <1>4 DEF CloseWindow, loopVars, diskVars, micVars, modelVars, WindowClosed
  <2>2. QueueMove(results, results', "commit") /\ EntriesStay /\ UnderWay' = UnderWay
    BY <2>1 DEF QueueMove, EntriesStay, UnderWay
  <2> QED BY <2>1, <2>2, GapCalm
<1> QED BY <1>1, <1>2, <1>3, <1>4

-----------------------------------------------------------------------------
(* The loop takes results: it hears of text. *)

LEMMA GapCommit ==
  ASSUME GapStep, results # <<>>, Head(results).kind = "commit", TakeCommit(Head(results)),
         results' = Tail(results), UNCHANGED <<pc, live, base, work, engine>>
  PROVE  GapInv'
<1> DEFINE r == Head(results)
<1>1. r \in Result /\ r.kind = "commit" /\ r.c \in Captures /\ r.through \in Nat /\ Reach(r) \in Committed
  <2>1. r \in Result /\ Reach(r) \in Reaches(results, "commit")
    BY OnceFromHere, ReachLeft DEF GapStep
  <2> QED BY <2>1, ResultRead, PipelineAssumption DEF Committed, Frames
<1>2. /\ session'.state = session.state /\ session'.current = session.current
      /\ session'.hint = IF session.current = r.c /\ r.through > session.hint
                           THEN r.through ELSE session.hint
      /\ session.hint \in Nat
  <2>1. session \in SessionState /\ TypeOK /\ session.hint \in Nat
    BY OnceFromHere, HeardTyped DEF GapStep
  <2>2. session'.state = session.state /\ session'.current = session.current
    BY <1>1, <2>1, TakeCommitStep
  <2>3. session' = NoteCommit(session, r.c, r.through, Words(r.from, r.through))
    BY DEF TakeCommit
  <2> QED BY <2>1, <2>2, <2>3, SessionHints
<1>3. Committed' \subseteq Committed
  BY OnceFromHere, ReachLeft DEF GapStep, Committed
<1>4. Heard' \subseteq Heard \cup {Reach(r)}
  BY <1>1, <1>2 DEF Heard, Hinted, Reach
<1>5. \A c \in Captures :
        /\ trans'[c].stage = trans[c].stage /\ trans[c].through \in Nat
        /\ trans'[c].through = IF c = r.c /\ trans[c].stage # "none" /\ r.through > trans[c].through
                                 THEN r.through ELSE trans[c].through
  BY <1>1, OnceFromHere, PipelineAssumption, SMTT(30) DEF GapStep, TakeCommit, Entry, Frames
<1>6. Recalled'
  <2> SUFFICES ASSUME NEW c \in Captures, trans'[c].stage # "none", NEW p \in Heard', p[1] = c
               PROVE  p[2] <= trans'[c].through
    BY DEF Recalled, UpTo
  <2>1. CASE p \in Heard
    <3>1. p[2] <= trans[c].through /\ p[2] \in Nat
      BY <1>5, <2>1, HeardTyped DEF UpTo, GapStep, GapInv, Recalled
    <3> QED BY <1>1, <1>5, <3>1
  <2>2. CASE p = Reach(r)
    <3>1. c = r.c /\ p[2] = r.through
      BY <2>2 DEF Reach
    <3> QED BY <1>1, <1>5, <3>1
  <2> QED BY <1>4, <2>1, <2>2
<1>7. UnderWay' = UnderWay /\ Waiters' \subseteq Waiters
  BY <1>2, <1>5 DEF UnderWay, Waiters
<1>8. BaseHeard'
  <2>1. session.hint <= session'.hint /\ session'.hint \in Nat /\ base \in Nat
    BY <1>1, <1>2, HeardTyped DEF GapStep
  <2> QED BY <1>2, <1>7, <2>1 DEF BaseHeard, GapStep, GapInv
<1>9. Heard' \subseteq Heard \cup Committed
  BY <1>1, <1>4
<1> QED BY <1>2, <1>3, <1>6, <1>7, <1>8, <1>9, GapOn

LEMMA GapFinished ==
  ASSUME GapStep, results # <<>>, Head(results).kind = "finished",
         TakeFinished(Head(results).c, Head(results).outcome), results' = Tail(results),
         UNCHANGED <<live, base, work, engine>>, UnderWay' => UnderWay,
         session'.current = session.current, session'.hint = session.hint
  PROVE  GapInv'
<1>1. \A c \in Captures : \/ trans'[c] = trans[c]
                           \/ trans'[c].stage = "none"
                           \/ /\ trans[c].stage # "none"
                              /\ trans'[c].stage = "retry" /\ trans'[c].through = trans[c].through
  BY FinishedLeaves, OnceFromHere DEF GapStep
<1>2. EntriesStay /\ \A c \in Captures : trans'[c].stage = "kept" => trans[c].stage = "kept"
  BY <1>1 DEF EntriesStay
<1>3. QueueMove(results, results', "commit")
  BY DEF QueueMove
<1> QED BY <1>2, <1>3, GapCalm
LEMMA GapDeliver == GapStep /\ Deliver => GapInv'
<1> SUFFICES ASSUME GapStep, Deliver PROVE GapInv' OBVIOUS
<1>1. /\ results # <<>> /\ results' = Tail(results) /\ pc = "results" /\ pc' = pc
      /\ UNCHANGED <<live, base, work, engine>> /\ session \in SessionState
      /\ QueueMove(results, results', "commit")
  BY OnceFromHere
     DEF GapStep, Deliver, DeliverPreparing, DeliverReady, DeliverUnavailable,
         DeliverWindowClosed, DeliverCommit, DeliverTick, DeliverFinished, Delivered, LoopAt,
         QueueMove, modelVars, micVars
<1>2. CASE DeliverPreparing \/ DeliverReady \/ DeliverUnavailable \/ DeliverTick
  <2>1. /\ trans' = trans
        /\ \/ session' \in {session, Configure(session)}
           \/ \E c : session' = TickFinished(session, c)
    BY <1>2 DEF DeliverPreparing, DeliverReady, DeliverUnavailable, DeliverTick, diskVars
  <2>2. /\ session'.current = session.current /\ session'.state = session.state
        /\ session'.hint = session.hint
    <3>1. CASE session' = Configure(session)
      <4>1. Configure(session) \in SessionState /\ Configure(session).hint = session.hint
        BY <1>1, SessionSteps, SessionHints
      <4> QED BY <1>1, <3>1, <4>1, SessionKeeps
    <3>2. ASSUME NEW c, session' = TickFinished(session, c)
          PROVE  /\ session'.current = session.current /\ session'.state = session.state
                 /\ session'.hint = session.hint
      BY <1>1, <3>2, SessionSteps, SessionKeeps, SessionHints
    <3> QED BY <2>1, <3>1, <3>2
  <2>3. UnderWay' = UnderWay /\ EntriesStay
    BY <1>1, <2>1, <2>2 DEF UnderWay, EntriesStay
  <2> QED BY <1>1, <2>1, <2>2, <2>3, GapCalm
<1>3. CASE DeliverWindowClosed
  <2>1. CASE CaptureBegunBy(Head(results).at)
    BY <1>1, <1>3, <2>1, GapForgotten DEF DeliverWindowClosed, CaptureBegunBy
  <2>2. CASE ~CaptureBegunBy(Head(results).at)
    <3>1. session' = Applied(session) /\ trans' = trans
      BY <1>3, <2>2 DEF DeliverWindowClosed
    <3>2. /\ session'.current = session.current /\ session'.state = session.state
          /\ session'.hint = session.hint
      BY <1>1, <3>1, SessionSteps, SessionKeeps, SessionHints
    <3>3. UnderWay' = UnderWay /\ EntriesStay
      BY <1>1, <3>1, <3>2 DEF UnderWay, EntriesStay
    <3> QED BY <1>1, <3>1, <3>2, <3>3, GapCalm
  <2> QED BY <2>1, <2>2
<1>4. CASE DeliverCommit
  BY <1>1, <1>4, GapCommit DEF DeliverCommit, Delivered
<1>5. CASE DeliverFinished
  <2>1. /\ Head(results).kind = "finished"
        /\ TakeFinished(Head(results).c, Head(results).outcome)
        /\ session' = Finish(session, Head(results).c)
    BY <1>5 DEF DeliverFinished, Delivered
  <2>2. /\ session'.current = session.current /\ session'.hint = session.hint
        /\ session'.state = "recording" => session.state = "recording"
    BY <1>1, <2>1, SessionTurns, SessionHints
  <2>3. UnderWay' => UnderWay
    BY <1>1, <2>2 DEF UnderWay
  <2> QED BY <1>1, <2>1, <2>2, <2>3, GapFinished
<1> QED BY <1>2, <1>3, <1>4, <1>5 DEF Deliver

-----------------------------------------------------------------------------
(* The loop sends work. *)

LEMMA GapSends ==
  ASSUME GapStep, UNCHANGED <<results, engine>>, work' \in Seq(Job),
         Flow(Heard, Committed, engine.job, engine.id, engine.through, engine.at, work',
              Tickers', Waiters', Hushed', {}),
         Below(Heard', Heard), Recalled' \/ EntriesStay, BaseHeard'
  PROVE  GapInv'
<1>1. Committed' = Committed /\ engine.through \in Nat /\ engine.at \in Nat
  BY HeardTyped DEF Committed, GapStep
<1>2. Flow(Heard', Committed, engine.job, engine.id, engine.through, engine.at, work',
           Tickers', Waiters', Hushed', {})
  BY <1>1, FlowBelow
<1>3. HeardFlows'
  BY <1>1, <1>2 DEF HeardFlows
<1>4. Recalled'
  BY RecallsStay
<1> QED BY <1>3, <1>4 DEF GapStep, GapInv

LEMMA GapTake == GapStep /\ TakeCapture => GapInv'
<1> SUFFICES ASSUME GapStep, TakeCapture PROVE GapInv' OBVIOUS
<1> DEFINE c == session.current
<1>1. /\ pc = "postroll" /\ pc' = "requests" /\ UnderWay /\ c \in Captures
      /\ session.state = "transcribing" /\ session \in SessionState
      /\ trans \in [Captures -> Entry] /\ HeardFlows /\ work \in Seq(Job)
      /\ UNCHANGED <<results, engine, base>> /\ work' \in Seq(Job)
      /\ session' \in {session, Finish(session, c)}
  <2>1. work' \in Seq(Job)
    BY OnceFromHere DEF GapStep, OrderInv, OnceInv, TypeInv, TypeOK
  <2> QED BY <2>1, OnceFromHere
          DEF GapStep, GapInv, TakeCapture, LoopAt, UnderWay, Attached, SessionState, TypeOK
<1>2. /\ session'.current = c /\ session'.hint = session.hint /\ session'.state # "recording"
  BY <1>1, SessionTurns, SessionHints
<1>3. ~UnderWay' /\ Tickers' = {} /\ Hushed' = {} /\ BaseHeard'
  BY <1>1, <1>2 DEF UnderWay, Tickers, Ticking, Hushed, BaseHeard
<1>4. EntriesStay
  <2>1. CASE live
    BY <1>1, <2>1 DEF TakeCapture, EntriesStay, Entry
  <2>2. CASE ~live
    BY <1>1, <2>2 DEF TakeCapture, EntriesStay, Entry
  <2> QED BY <2>1, <2>2
<1>5. CASE live
  <2> DEFINE x == FinishWork(c, base, captured[c])
  <2>1. /\ work' = Append(work, x) /\ x.kind = "finish" /\ x.c = c /\ Tickers = {c}
        /\ x.start = base
        /\ trans' = [trans EXCEPT ![c].stage = IF @ = "none" THEN @ ELSE "finishing"]
    BY <1>1, <1>5 DEF TakeCapture, FinishWork, Tickers, Ticking
  <2> HIDE DEF x
  <2>2. /\ \A d \in Captures \ {c} : trans'[d] = trans[d]
        /\ trans'[c].stage \in {"none", "finishing"}
    BY <1>1, <2>1 DEF Entry
  <2>3. Waiters' \in SUBSET Waiters /\ c \notin Waiters'
    BY <2>2 DEF Waiters
  <2>4. /\ OfSpeech(x) => x.c \in Tickers
        /\ x.kind # "recording"
        /\ \A d \in Waiters' \cup {} : ~OfCapture(x, d)
    BY <2>1, <2>3 DEF OfSpeech, OfCapture
  <2>5. Flow(Heard, Committed, engine.job, engine.id, engine.through, engine.at, Append(work, x),
             {}, Waiters', {}, {})
    BY <1>1, <2>1, <2>3, <2>4, FlowSent DEF HeardFlows
  <2>6. base <= session.hint /\ base \in Nat /\ session.hint \in Nat
    BY <1>1, <1>5, HeardTyped DEF GapStep, GapInv, BaseHeard
  <2>7. Hinted' = Hinted /\ Begins(work') \subseteq Begins(work) \cup IF base > 0 THEN {<<c, base>>} ELSE {}
    <3>1. Begin(x) = <<c, base>>
      BY <2>1 DEF Begin
    <3> QED BY <1>1, <1>2, <2>1, <3>1, BeginsMove DEF Hinted
  <2>8. Below(Heard', Heard)
    <3> SUFFICES ASSUME NEW p \in Heard'
                 PROVE  p[2] \in Nat /\ \E q \in Heard : q[1] = p[1] /\ q[2] \in Nat /\ p[2] <= q[2]
      BY DEF Below
    <3>1. CASE p \in Heard
      BY <3>1, HeardTyped DEF GapStep
    <3>2. CASE base > 0 /\ p = <<c, base>>
      <4>1. <<c, session.hint>> \in Heard
        BY <2>6, <3>2 DEF Heard, Hinted
      <4> QED BY <2>6, <3>2, <4>1
    <3> QED BY <2>7, <3>1, <3>2 DEF Heard
  <2> QED BY <1>1, <1>3, <1>4, <2>1, <2>5, <2>8, GapSends
<1>6. CASE ~live
  <2>1. work' = work /\ Waiters' \subseteq Waiters \cup {c} /\ Hushed = {c}
    BY <1>1, <1>6 DEF TakeCapture, Waiters, Hushed
  <2>2. Joins(Waiters, Waiters', Committed, engine.job, work)
    BY <1>1, <2>1, UnspokenOf DEF HeardFlows, Flow, HushedFlow, Joins
  <2>3. /\ Joins(Tickers, {}, Heard \cup Committed, engine.job, work)
        /\ Joins(Hushed, {}, Heard \cup Committed, engine.job, work)
    BY DEF Joins
  <2>4. Flow(Heard, Committed, engine.job, engine.id, engine.through, engine.at, work,
             {}, Waiters', {}, {})
    BY <1>1, <2>2, <2>3, FlowOn DEF HeardFlows
  <2>5. Below(Heard', Heard)
    BY <1>2, <2>1, HeardStays, HeardBelow DEF GapStep
  <2> QED BY <1>1, <1>3, <1>4, <2>1, <2>4, <2>5, GapSends
<1> QED BY <1>5, <1>6

(* A tick begins where the loop heard of text: nothing was discarded past it. *)
LEMMA GapTick == GapStep /\ SendTick => GapInv'
<1> SUFFICES ASSUME GapStep, SendTick PROVE GapInv' OBVIOUS
<1> DEFINE start == IF session.hint > base THEN session.hint ELSE base
           x == TickWork(session.current, start, captured[mic])
<1>1. /\ session.state = "recording" /\ session.enabled /\ session.tick = "due"
      /\ session' = [session EXCEPT !.tick = "pending"] /\ work' = Append(work, x)
      /\ pc = "tick" /\ pc' = "dispatch"
      /\ UNCHANGED <<trans, results, engine, base, live>>
  BY DEF SendTick, TickDue, LoopAt, modelVars, diskVars, micVars
<1>2. session \in SessionState /\ HeardFlows /\ work \in Seq(Job) /\ work' \in Seq(Job) /\ NotDue
  <2>1. work' \in Seq(Job)
    BY OnceFromHere DEF GapStep, OnceInv, OrderInv, TypeInv, TypeOK
  <2> QED BY <2>1, OnceFromHere DEF GapStep, GapInv
<1>3. live
  BY <1>1 DEF GapStep, OnceInv, ReadyInv, Ticks
<1>4. /\ session'.state = session.state /\ session'.current = session.current
      /\ session'.hint = session.hint
  BY <1>1, <1>2 DEF SessionState
<1>5. Waiters = {} /\ Tickers = {session.current} /\ Hushed = {} /\ UnderWay
  BY <1>1, <1>2, <1>3 DEF NotDue, Ticking, UnderWay, Tickers, Hushed
<1>6. Waiters' = {} /\ Tickers' = Tickers /\ Hushed' = {} /\ EntriesStay /\ UnderWay' = UnderWay
  BY <1>1, <1>3, <1>4, <1>5 DEF Waiters, Ticking, UnderWay, Tickers, Hushed, EntriesStay
<1>7. start = session.hint /\ session.hint \in Nat /\ BaseHeard'
  <2>1. base <= session.hint /\ base \in Nat /\ session.hint \in Nat
    BY <1>3, <1>5, HeardTyped DEF GapStep, GapInv, BaseHeard
  <2> QED BY <1>1, <1>4, <2>1 DEF BaseHeard
<1>8. x.kind = "tick" /\ x.c = session.current /\ x.start = session.hint
  BY <1>7 DEF TickWork
<1> HIDE DEF x, start
<1>9. Flow(Heard, Committed, engine.job, engine.id, engine.through, engine.at, Append(work, x),
           Tickers, {}, {}, {})
  <2>1. /\ OfSpeech(x) => x.c \in Tickers
        /\ x.kind # "recording"
        /\ \A c \in Tickers : Decodes(x) /\ x.c # c =>
             Unspoken(Heard \cup Committed, engine.job, work, c, Len(work) + 1)
        /\ \A c \in {} \cup {} : ~OfCapture(x, c)
        /\ Tickers \in SUBSET Tickers
    BY <1>5, <1>8
  <2> QED BY <1>2, <2>1, FlowSent DEF HeardFlows
<1>10. Heard' \subseteq Heard
  <2>1. Begins(work') \subseteq Begins(work) \cup IF session.hint > 0 THEN {Begin(x)} ELSE {}
    BY <1>1, <1>2, <1>8, BeginsMove
  <2>2. session.hint > 0 => Begin(x) \in Hinted
    BY <1>8 DEF Begin, Hinted
  <2>3. Hinted' = Hinted
    BY <1>4 DEF Hinted
  <2> QED BY <2>1, <2>2, <2>3 DEF Heard
<1>11. Below(Heard', Heard)
  BY <1>10, HeardBelow DEF GapStep
<1> QED BY <1>1, <1>2, <1>6, <1>7, <1>9, <1>11, GapSends

(* A recording is read from no earlier than what was heard of it. *)
LEMMA GapDispatch == GapStep /\ DispatchRecording => GapInv'
<1> SUFFICES ASSUME GapStep, DispatchRecording PROVE GapInv' OBVIOUS
<1> DEFINE c == CHOOSE c \in Undispatched : \A d \in Undispatched : c <= d
           x == RecordingWork(c, trans[c].through)
<1>1. /\ pc = "dispatch" /\ pc' = pc /\ work' = Append(work, x) /\ Undispatched # {}
      /\ trans' = [trans EXCEPT ![c].stage = "sent"]
      /\ UNCHANGED <<session, live, base, results, engine>>
  BY DEF DispatchRecording, LoopAt, micVars
<1>2. c \in Undispatched
  BY <1>1, EarliestWaits
<1>3. x.kind = "recording" /\ x.c = c /\ x.start = trans[c].through
  BY DEF RecordingWork
<1> HIDE DEF c, x
<1>4. /\ c \in Captures /\ trans[c].stage = "kept" /\ c \in Waiters
      /\ trans \in [Captures -> Entry] /\ HeardFlows /\ work \in Seq(Job) /\ work' \in Seq(Job)
  <2>1. work' \in Seq(Job)
    BY OnceFromHere DEF GapStep, OnceInv, OrderInv, TypeInv, TypeOK
  <2> QED BY <1>2, <2>1, OnceFromHere DEF Undispatched, Waiters, GapStep, GapInv
<1>5. /\ EntriesStay /\ Waiters' \subseteq Waiters \ {c}
  BY <1>1, <1>4 DEF EntriesStay, Waiters, Entry
<1>6. BaseHeard'
  BY <1>1 DEF BaseHeard, UnderWay, GapStep, GapInv
<1>7. UnderWay => session.current # c
  BY <1>1, <1>4, OnceFromHere DEF UnderWay, Numbered, GapStep
<1>8. /\ Tickers' = Tickers /\ Hushed' \subseteq Hushed
      /\ Tickers \subseteq Hushed /\ c \notin Hushed
  BY <1>1, <1>4, <1>5, <1>7 DEF UnderWay, Tickers, Ticking, Hushed
<1>9. Flow(Heard, Committed, engine.job, engine.id, engine.through, engine.at, Append(work, x),
           Tickers, Waiters', Hushed', {})
  <2>1. Unspoken(Committed, engine.job, work, c, Len(work) + 1)
    BY <1>4 DEF HeardFlows, Flow, WaitingFlow
  <2>2. UpTo(Heard, c, trans[c].through)
    BY <1>4 DEF Recalled, GapStep, GapInv
  <2>3. \A d \in Tickers : Unspoken(Heard \cup Committed, engine.job, work, d, Len(work) + 1)
    BY <1>4, <1>8 DEF HeardFlows, Flow, HushedFlow
  <2>4. \A d \in Waiters' \cup Hushed' : ~OfCapture(x, d)
    BY <1>3, <1>5, <1>8 DEF OfCapture
  <2>5. ~OfSpeech(x)
    BY <1>3 DEF OfSpeech
  <2>6. Tickers \in SUBSET Tickers /\ Waiters' \in SUBSET Waiters /\ Hushed' \in SUBSET Hushed
    BY <1>5, <1>8
  <2> QED BY <1>3, <1>4, <2>1, <2>2, <2>3, <2>4, <2>5, <2>6, FlowSent DEF HeardFlows
<1>10. Below(Heard', Heard)
  <2>1. ~OfSpeech(x)
    BY <1>3 DEF OfSpeech
  <2> QED BY <1>1, <2>1, HeardStays, HeardBelow DEF GapStep
<1> QED BY <1>1, <1>4, <1>5, <1>6, <1>8, <1>9, <1>10, GapSends
LEMMA GapPass == GapStep /\ Pass => GapInv'
<1> SUFFICES ASSUME GapStep, Pass PROVE GapInv' OBVIOUS
<1>1. ~Stall
  BY DEF GapStep, OnceInv, NoStall, Stall, FaultHappens
<1>2. CASE EndRequests \/ EndResults \/ NoTick
  <2>1. /\ UNCHANGED <<session, live, base, trans, work, results, engine>>
        /\ pc # "postroll" /\ pc' # "postroll"
    BY <1>2 DEF EndRequests, EndResults, NoTick, LoopAt, modelVars, diskVars, micVars
  <2>2. UnderWay' = UnderWay /\ EntriesStay /\ QueueMove(results, results', "commit")
    BY <2>1 DEF UnderWay, EntriesStay, QueueMove
  <2> QED BY <2>1, <2>2, GapCalm
<1>3. CASE EndPass
  <2>1. /\ UNCHANGED <<live, trans, work, results, engine>>
        /\ session' = IntervalPassed(session) /\ session \in SessionState
        /\ pc = "dispatch" /\ pc' \in {"leaving", "requests"}
        /\ base' = IF mic = None THEN base
                   ELSE IF ~live THEN captured[mic]
                   ELSE IF session.hint > base THEN session.hint ELSE base
    BY <1>3, OnceFromHere DEF EndPass, LoopAt, modelVars, diskVars, GapStep
  <2>2. /\ session'.state = session.state /\ session'.current = session.current
        /\ session'.hint = session.hint
    BY <2>1, SessionSteps, SessionKeeps, SessionHints
  <2>3. UnderWay' = UnderWay /\ EntriesStay /\ QueueMove(results, results', "commit")
    BY <2>1, <2>2 DEF UnderWay, EntriesStay, QueueMove
  <2>4. BaseHeard'
    BY <2>1, <2>2, <2>3, HeardTyped DEF BaseHeard, GapStep, GapInv
  <2> QED BY <2>1, <2>2, <2>3, <2>4, GapCalm
<1> QED BY <1>1, <1>2, <1>3, GapDeliver, GapTake, GapTick, GapDispatch DEF Pass

(* A capture begins, with nothing heard of it. *)
LEMMA GapStart == GapStep /\ StartCapture => GapInv'
<1> SUFFICES ASSUME GapStep, StartCapture PROVE GapInv' OBVIOUS
<1> DEFINE c == made + 1
           P == Begins(work)
<1>1. /\ made \in Nat /\ c \in Nat /\ made < c /\ c \in Captures
      /\ pc = "requests" /\ pc' = pc /\ session \in SessionState /\ trans \in [Captures -> Entry]
      /\ UNCHANGED <<results, engine>> /\ work \in Seq(Job) /\ HeardFlows /\ work' \in Seq(Job)
  <2>1. work' \in Seq(Job)
    BY OnceFromHere DEF GapStep, OnceInv, OrderInv, TypeInv, TypeOK
  <2>2. c \in Captures
    BY OnceFromHere, PipelineAssumption, SMTT(30) DEF StartCapture, Captures, GapStep
  <2> QED BY <2>1, <2>2, OnceFromHere DEF GapStep, GapInv, StartCapture, LoopAt
<1>2. \A k : Unspoken(Placed \cup Committed, engine.job, work, c, k)
  BY <1>1, Unbegun DEF GapStep
<1>3. /\ session'.current = c /\ session'.hint = 0
      /\ session'.state = "recording" => base' = 0
  <2>1. /\ session' \in {Started(session, c), Discarded(Started(session, c))}
        /\ session' # Discarded(Started(session, c)) => base' = 0
    BY DEF StartCapture
  <2>2. Started(session, c) \in SessionState
    BY <1>1, SessionSteps
  <2>3. Started(session, c).current = c /\ Started(session, c).hint = 0
    BY <1>1, SessionTurns, SessionHints
  <2>4. /\ Discarded(Started(session, c)).current = Started(session, c).current
        /\ Discarded(Started(session, c)).state = "idle"
        /\ Discarded(Started(session, c)).hint = Started(session, c).hint
    BY <2>2, SessionTurns, SessionHints
  <2> HIDE DEF c
  <2> QED BY <2>1, <2>3, <2>4
<1> HIDE DEF c
<1>4. Tickers' \subseteq {c} /\ Hushed' \subseteq {c}
  BY <1>3 DEF Tickers, Hushed
<1>5. \A d \in Captures : \/ trans'[d] = trans[d]
                          \/ d = c /\ trans'[d].stage = "capturing" /\ trans'[d].through = 0
  BY <1>1 DEF StartCapture, Unlisted, c
<1>6. Waiters' \subseteq Waiters
  BY <1>5 DEF Waiters
<1>7. Without(P, c)
  <2>1. \A k \in DOMAIN work : ~OfCapture(work[k], c)
    <3>1. Unspoken(Placed \cup Committed, engine.job, work, c, Len(work) + 1)
      BY <1>2
    <3>2. \A k \in DOMAIN work : k < Len(work) + 1
      BY <1>1
    <3> QED BY <3>1, <3>2 DEF Unspoken, NoneBefore
  <2> QED BY <2>1 DEF Without, Begins, Begin, OfCapture, OfSpeech, Decodes
<1>8. P \subseteq Heard
  BY DEF Heard
<1> HIDE DEF P
<1>9. Flow(P, Committed, engine.job, engine.id, engine.through, engine.at, work,
           Tickers', Waiters', Hushed', {})
  <2>1. \A k : Unspoken(P \cup Committed, engine.job, work, c, k)
    BY <1>2, <1>7 DEF Unspoken, Without
  <2>2. /\ Joins(Tickers, Tickers', P \cup Committed, engine.job, work)
        /\ Joins(Waiters, Waiters', Committed, engine.job, work)
        /\ Joins(Hushed, Hushed', P \cup Committed, engine.job, work)
    BY <1>4, <1>6, <2>1 DEF Joins
  <2>3. P \subseteq Heard \cup Committed /\ Committed \subseteq Committed
    BY <1>8
  <2>4. Flow(Heard, Committed, engine.job, engine.id, engine.through, engine.at, work,
             Tickers, Waiters, Hushed, {})
    BY <1>1 DEF HeardFlows
  <2> QED BY <1>1, <2>2, <2>3, <2>4, FlowOn
<1>10. /\ Flow(P, Committed, engine.job, engine.id, engine.through, engine.at, work',
               Tickers', Waiters', Hushed', {})
       /\ Heard' = P
  <2>1. CASE work' = work
    BY <1>3, <1>9, <2>1 DEF Heard, Hinted, P
  <2>2. CASE work' = Append(work, LoadWork)
    <3> DEFINE x == LoadWork
    <3>1. ~Decodes(x) /\ ~OfSpeech(x) /\ x.kind # "recording"
      BY DEF LoadWork, NoJob, Decodes, OfSpeech
    <3> HIDE DEF x
    <3>2. /\ \A d \in Waiters' \cup Hushed' : ~OfCapture(x, d)
          /\ Tickers' \in SUBSET Tickers' /\ Waiters' \in SUBSET Waiters'
          /\ Hushed' \in SUBSET Hushed'
      BY <3>1 DEF OfCapture
    <3>3. Flow(P, Committed, engine.job, engine.id, engine.through, engine.at,
               Append(work, x), Tickers', Waiters', Hushed', {})
      BY <1>1, <1>9, <3>1, <3>2, FlowSent
    <3>4. Begins(work') = Begins(work)
      BY <1>1, <2>2, <3>1, BeginsMove DEF x
    <3> QED BY <1>3, <2>2, <3>3, <3>4 DEF x, Heard, Hinted, P
  <2> QED BY <2>1, <2>2 DEF StartCapture
<1>11. HeardFlows'
  BY <1>1, <1>10 DEF HeardFlows, Committed
<1>12. Recalled'
  <2> SUFFICES ASSUME NEW d \in Captures, trans'[d].stage # "none"
               PROVE  UpTo(Heard', d, trans'[d].through)
    BY DEF Recalled
  <2>1. CASE trans'[d] = trans[d]
    BY <1>8, <1>10, <2>1 DEF Recalled, GapStep, GapInv, UpTo
  <2>2. CASE d = c
    BY <1>7, <1>10, <2>2 DEF UpTo, Without
  <2> QED BY <1>5, <2>1, <2>2
<1>13. BaseHeard'
  BY <1>1, <1>3 DEF BaseHeard, UnderWay
<1> QED BY <1>11, <1>12, <1>13 DEF GapStep, GapInv

-----------------------------------------------------------------------------
(* The inference thread. *)

LEMMA GapThread ==
  ASSUME GapStep, UNCHANGED engineOnly, work' \in Seq(Job),
         work' = work \/ (work # <<>> /\ work' = Tail(work)),
         Flow(Heard, Committed', engine'.job, engine'.id, engine'.through, engine'.at, work',
              Tickers, Waiters, Hushed, {})
  PROVE  GapInv'
<1>1. UNCHANGED <<pc, session, live, base, trans>>
  BY DEF engineOnly, loopVars, micVars
<1>2. Tickers' = Tickers /\ Waiters' = Waiters /\ Hushed' = Hushed
  BY <1>1 DEF Tickers, Ticking, Waiters, Hushed, UnderWay
<1>3. Heard' \subseteq Heard
  BY <1>1, HeardStays DEF GapStep
<1>4. HeardFlows'
  <2>1. Below(Heard', Heard) /\ engine'.through \in Nat /\ engine'.at \in Nat
    <3>1. OnceInv'
      BY DEF GapStep
    <3>2. TypeOK'
      BY <3>1 DEF OnceInv, OrderInv, TypeInv
    <3> QED BY <1>3, <3>2, HeardBelow, PipelineAssumption DEF GapStep, TypeOK, EngineState, Frames
  <2>2. Flow(Heard', Committed', engine'.job, engine'.id, engine'.through, engine'.at, work',
             Tickers, Waiters, Hushed, {})
    BY <2>1, FlowBelow
  <2> QED BY <1>2, <2>2 DEF HeardFlows
<1>5. Recalled'
  <2>1. EntriesStay
    BY <1>1 DEF EntriesStay
  <2> QED BY <1>3, <2>1, HeardBelow, RecallsStay DEF GapStep
<1>6. BaseHeard'
  BY <1>1 DEF BaseHeard, UnderWay, GapStep, GapInv
<1> QED BY <1>4, <1>5, <1>6 DEF GapStep, GapInv

LEMMA NoTextTold ==
  ASSUME GapStep, results' = results \/ \E x : x.kind # "commit" /\ results' = Append(results, x)
  PROVE  Committed' = Committed
<1>1. results \in Seq(Result)
  BY OnceFromHere DEF GapStep
<1>2. ASSUME NEW x, x.kind # "commit", results' = Append(results, x)
      PROVE  Reaches(results', "commit") = Reaches(results, "commit")
  BY <1>1, <1>2, ReachAdded
<1> QED BY <1>2 DEF Committed

LEMMA GapLoad == GapStep /\ Load => GapInv'
<1> SUFFICES ASSUME GapStep, Load PROVE GapInv' OBVIOUS
<1>1. PICK x \in {Event("ready"), Event("unavailable")} :
        results' = results \o <<Event("preparing"), x>>
  BY DEF Load, LoadSucceeds, LoadFails
<1> DEFINE y == Event("preparing")
           longer == Append(results, y)
<1>2. x.kind # "commit" /\ y.kind # "commit" /\ y \in Result
  BY <1>1, ResultMade DEF Event
<1>3. results \in Seq(Result) /\ work \in Seq(Job) /\ HeardFlows /\ engine \in EngineState
  BY OnceFromHere DEF GapStep, GapInv
<1>4. longer \in Seq(Result) /\ results' = Append(longer, x)
  BY <1>1, <1>2, <1>3
<1>5. Reaches(longer, "commit") = Reaches(results, "commit")
  <2> HIDE DEF y
  <2> QED BY <1>2, <1>3, ReachAdded
<1> HIDE DEF longer
<1>6. Committed' = Committed
  BY <1>2, <1>4, <1>5, ReachAdded DEF Committed
<1>7. /\ UNCHANGED engineOnly /\ work' = work
      /\ \E phase : engine' = [engine EXCEPT !.phase = phase]
  BY DEF Load, LoadSucceeds, LoadFails
<1>8. /\ engine'.job = engine.job /\ engine'.id = engine.id
      /\ engine'.through = engine.through /\ engine'.at = engine.at
  BY <1>3, <1>7, JobLeft, ProgressLeft
<1> QED BY <1>3, <1>6, <1>7, <1>8, GapThread DEF HeardFlows
LEMMA GapTakeWork == GapStep /\ TakeWork => GapInv'
<1> SUFFICES ASSUME GapStep, TakeWork PROVE GapInv' OBVIOUS
<1>1. /\ work # <<>> /\ work' = Tail(work) /\ work' \in Seq(Job) /\ UNCHANGED engineOnly
      /\ engine.job = NoJob /\ ~Decodes(NoJob) /\ work \in Seq(Job) /\ HeardFlows
  BY WorkTaken, OnceFromHere DEF GapStep, GapInv
<1>2. CASE Answered
  <2>1. Committed' = Committed
    BY <1>2, NoTextTold DEF Answered
  <2>2. Flow(Heard, Committed, engine.job, engine'.id, engine'.through, engine'.at, Tail(work),
             Tickers, Waiters, Hushed, {})
    BY <1>1, <1>2, FlowAnswered DEF HeardFlows, Answered
  <2>3. engine'.job = engine.job
    BY <1>2 DEF Answered
  <2> QED BY <1>1, <2>1, <2>2, <2>3, GapThread
<1>3. CASE Taken
  <2>1. Committed' = Committed
    BY <1>3, NoTextTold DEF Taken
  <2>2. Flow(Heard, Committed, engine'.job, Head(work).c, engine'.through, engine'.through,
             Tail(work), Tickers, Waiters, Hushed, {})
    BY <1>1, <1>3, FlowTaken DEF HeardFlows, Taken
  <2>3. engine'.id = Head(work).c /\ engine'.at = engine'.through
    BY <1>3 DEF Taken
  <2> QED BY <1>1, <2>1, <2>2, <2>3, GapThread
<1>4. Answered \/ Taken
  BY WorkTaken DEF GapStep
<1> QED BY <1>2, <1>3, <1>4

LEMMA GapDecode == GapStep /\ Decode => GapInv'
<1> SUFFICES ASSUME GapStep, Decode PROVE GapInv' OBVIOUS
<1> DEFINE j == engine.job
<1>1. /\ Decodes(j) /\ UNCHANGED engineOnly /\ work' = work /\ engine.at \in Nat
      /\ work \in Seq(Job) /\ results \in Seq(Result)
  BY Decoded, OnceFromHere DEF GapStep
<1>2. Flow(Heard, Committed, j, engine.id, engine.through, engine.at, work,
           Tickers, Waiters, Hushed, {})
  BY DEF HeardFlows, GapStep, GapInv
<1>3. CASE Onwards
  BY <1>1, <1>2, <1>3, GapThread DEF Onwards, Committed
<1>4. ASSUME NEW n \in Nat, Reports(n) PROVE GapInv'
  <2>1. /\ engine'.job = j /\ engine'.id = engine.id /\ engine'.at = n /\ engine.at < n
        /\ engine'.through = IF j.kind = "finish" THEN engine.through ELSE n
        /\ Committed' = Committed \cup {<<j.c, n>>}
    BY <1>4 DEF Reports
  <2> HIDE DEF j
  <2>2. \A p \in Heard \cup Committed : p[2] \in Nat
    BY HeardTyped, ReachTyped DEF GapStep
  <2>3. Flow(Heard, Committed \cup {<<j.c, n>>}, j, engine.id, engine'.through, n, work,
             Tickers, Waiters, Hushed, {})
    BY <1>1, <1>2, <2>1, <2>2, FlowReported
  <2> QED BY <1>1, <2>1, <2>3, GapThread
<1>5. CASE Leaves
  <2>1. Committed' = Committed
    BY <1>5, NoTextTold DEF Leaves
  <2>2. Flow(Heard, Committed, NoJob, engine'.id, engine'.through, engine'.at, work,
             Tickers, Waiters, Hushed, {})
    BY <1>1, <1>2, <1>5, FlowEnded DEF Leaves
  <2>3. engine'.job = NoJob
    BY <1>5 DEF Leaves
  <2> QED BY <1>1, <2>1, <2>2, <2>3, GapThread
<1> QED BY <1>3, <1>4, <1>5, Decoded DEF GapStep

LEMMA GapEditor == GapStep /\ Editor => GapInv'
BY GapIdle DEF Editor, WriteText, CopyText, EditorQuits, loopVars, micVars

-----------------------------------------------------------------------------
(* The end of a process, and the next. *)

LEMMA GapEnds == GapStep /\ ProcessEnds => GapInv'
<1> SUFFICES ASSUME GapStep, ProcessEnds PROVE GapInv' OBVIOUS
<1>1. /\ ~UnderWay' /\ engine'.job = NoJob /\ work' = <<>> /\ results' = <<>>
      /\ session'.hint = 0 /\ \A c \in Captures : trans'[c].stage = "none"
  BY DEF ProcessEnds, UnderWay, NewSession, Unlisted, Loading
<1>2. Tickers' = {} /\ Hushed' = {} /\ Recalled' /\ BaseHeard' /\ Committed' = {}
  BY <1>1 DEF Tickers, Ticking, Hushed, Recalled, BaseHeard, Committed, Reaches
<1>3. HeardFlows'
  BY <1>1, <1>2, FlowGone DEF HeardFlows
<1> QED BY <1>2, <1>3 DEF GapStep, GapInv

LEMMA GapShutdown == GapStep /\ Shutdown => GapInv'
<1> SUFFICES ASSUME GapStep, Shutdown PROVE GapInv' OBVIOUS
<1>1. CASE ShutDown
  <2> DEFINE x == QuitWork
  <2>1. /\ UNCHANGED <<session, live, base, trans, results, engine>>
        /\ pc = "leaving" /\ pc' = "joining" /\ work' = Append(work, x)
    BY <1>1 DEF ShutDown, LoopAt
  <2>2. /\ work \in Seq(Job) /\ work' \in Seq(Job) /\ HeardFlows
    <3>1. work' \in Seq(Job)
      BY DEF GapStep, OnceInv, OrderInv, TypeInv, TypeOK
    <3> QED BY <3>1, OnceFromHere DEF GapStep, GapInv
  <2>3. /\ Tickers' = Tickers /\ Waiters' = Waiters /\ Hushed' = Hushed /\ EntriesStay
        /\ BaseHeard'
    BY <2>1 DEF Tickers, Ticking, Waiters, Hushed, UnderWay, EntriesStay, BaseHeard, GapStep,
       GapInv
  <2>4. ~Decodes(x) /\ ~OfSpeech(x) /\ x.kind # "recording"
    BY DEF QuitWork, NoJob, Decodes, OfSpeech
  <2> HIDE DEF x
  <2>5. Flow(Heard, Committed, engine.job, engine.id, engine.through, engine.at,
             Append(work, x), Tickers, Waiters, Hushed, {})
    <3>1. /\ \A d \in Waiters \cup Hushed : ~OfCapture(x, d)
          /\ Tickers \in SUBSET Tickers /\ Waiters \in SUBSET Waiters /\ Hushed \in SUBSET Hushed
      BY <2>4 DEF OfCapture
    <3> QED BY <2>2, <2>4, <3>1, FlowSent DEF HeardFlows
  <2>6. Below(Heard', Heard)
    BY <2>1, <2>4, HeardStays, HeardBelow DEF GapStep
  <2> QED BY <2>1, <2>2, <2>3, <2>5, <2>6, GapSends
<1>2. CASE JoinEngine
  <2>1. /\ UNCHANGED <<session, live, base, trans, work, results, engine>>
        /\ pc = "joining" /\ pc' = "draining"
    BY <1>2 DEF JoinEngine, LoopAt, modelVars, micVars
  <2>2. UnderWay' = UnderWay /\ EntriesStay /\ QueueMove(results, results', "commit")
    BY <2>1 DEF UnderWay, EntriesStay, QueueMove
  <2> QED BY <2>1, <2>2, GapCalm
<1>3. CASE DrainResult
  <2>1. /\ UNCHANGED <<pc, live, base, work, engine>>
        /\ pc = "draining" /\ results # <<>> /\ results' = Tail(results)
    BY <1>3 DEF DrainResult, LoopAt, micVars
  <2>2. CASE Head(results).kind = "commit"
    <3>1. TakeCommit(Head(results))
      BY <1>3, <2>2 DEF DrainResult
    <3> QED BY <2>1, <2>2, <3>1, GapCommit
  <2>3. CASE Head(results).kind = "finished"
    <3>1. TakeFinished(Head(results).c, Head(results).outcome) /\ session' = session
      BY <1>3, <2>3 DEF DrainResult
    <3>2. UnderWay' = UnderWay
      BY <2>1, <3>1 DEF UnderWay
    <3> QED BY <2>1, <2>3, <3>1, <3>2, GapFinished
  <2>4. CASE Head(results).kind \notin {"commit", "finished"}
    <3>1. UNCHANGED <<trans, session>>
      BY <1>3, <2>4 DEF DrainResult
    <3>2. UnderWay' = UnderWay /\ EntriesStay /\ QueueMove(results, results', "commit")
      BY <2>1, <3>1 DEF UnderWay, EntriesStay, QueueMove
    <3> QED BY <2>1, <3>1, <3>2, GapCalm
  <2> QED BY <2>2, <2>3, <2>4
<1>4. CASE ListWhatIsLeft
  <2>1. /\ UNCHANGED <<session, live, base, trans, work, results, engine>>
        /\ pc = "draining" /\ pc' = "closing"
    BY <1>4 DEF ListWhatIsLeft, LoopAt, micVars
  <2>2. UnderWay' = UnderWay /\ EntriesStay /\ QueueMove(results, results', "commit")
    BY <2>1 DEF UnderWay, EntriesStay, QueueMove
  <2> QED BY <2>1, <2>2, GapCalm
<1>5. CASE Exit
  BY <1>5, GapEnds DEF Exit
<1> QED BY <1>1, <1>2, <1>3, <1>4, <1>5 DEF Shutdown

LEMMA GapBoot == GapStep /\ Boot => GapInv'
<1> SUFFICES ASSUME GapStep, Boot PROVE GapInv' OBVIOUS
<1>1. /\ pc = "down" /\ pc' = "requests" /\ session.state = "idle" /\ engine' = Loading
      /\ UNCHANGED <<session, work, results>> /\ session.hint = 0
      /\ work = <<>> /\ results = <<>>
  BY OnceFromHere DEF Boot, Emptied, Attached, Rested, GapStep, GapInv
<1>2. /\ Tickers' = {} /\ Hushed' = {} /\ Committed' = {} /\ engine'.job = NoJob
      /\ BaseHeard' /\ Heard' = {}
  BY <1>1 DEF Tickers, Ticking, Hushed, UnderWay, BaseHeard, Committed, Reaches, Loading, Heard,
     Hinted, Begins
<1>3. HeardFlows'
  BY <1>1, <1>2, FlowGone DEF HeardFlows
<1>4. Recalled'
  BY <1>2 DEF Recalled, UpTo
<1> QED BY <1>2, <1>3, <1>4 DEF GapStep, GapInv

LEMMA InitGap == Init => GapInv
<1> SUFFICES ASSUME Init PROVE GapInv OBVIOUS
<1> USE DEF Init
<1>1. /\ ~UnderWay /\ engine.job = NoJob /\ \A c \in Captures : trans[c].stage = "none"
      /\ session.hint = 0
  BY DEF UnderWay, NewSession, Unlisted, Loading
<1>2. Tickers = {} /\ Hushed = {} /\ Committed = {} /\ Recalled /\ BaseHeard /\ Rested
  BY <1>1 DEF Tickers, Ticking, Hushed, Committed, Reaches, Recalled, BaseHeard, Rested
<1>3. HeardFlows
  BY <1>1, <1>2, FlowGone DEF HeardFlows
<1> QED BY <1>2, <1>3 DEF GapInv

LEMMA StepGap == OnceInv /\ GapInv /\ [Next]_vars => GapInv'
<1> SUFFICES ASSUME OnceInv, GapInv, [Next]_vars PROVE GapInv' OBVIOUS
<1>1. GapStep
  BY StepOnce, StepRested DEF GapStep, GapInv
<1>2. CASE UNCHANGED vars
  BY <1>1, <1>2, GapIdle DEF vars, loopVars, micVars, modelVars
<1>3. CASE Crash
  BY <1>1, <1>3, GapEnds DEF Crash
<1> QED BY <1>1, <1>2, <1>3, GapRecorder, GapUser, GapStart, GapPass, GapShutdown, GapLoad,
           GapTakeWork, GapDecode, GapEditor, GapBoot
        DEF Next, User, Engine

LEMMA NoGap == OnceInv /\ GapInv => WorkerHasNoGap
<1> SUFFICES ASSUME OnceInv, GapInv, engine.phase = "idle", work # <<>>,
                    OfSpeech(Head(work))
             PROVE  ~BeginsTooLate(Begun(engine, Head(work).c), Head(work))
  BY DEF WorkerHasNoGap, OfSpeech
<1> DEFINE job == Head(work)
<1>1. /\ work \in Seq(Job) /\ job \in Job /\ 1 \in DOMAIN work /\ work[1] = job
      /\ engine \in EngineState /\ engine.through \in Nat
  BY OnceFromHere, HeardTyped
<1>2. job.start \in Nat
  BY <1>1, JobRead, PipelineAssumption DEF OfSpeech, DecodeJob, Frames
<1>3. engine.job = NoJob
  BY OnceFromHere DEF Numbered
<1>4. UpTo(Heard \cup Committed, job.c, Offset(engine.id, engine.through, job.c))
  <2>1. Source(work, Tickers, job.c)
    BY <1>1 DEF Source
  <2>2. ~OfCapture(engine.job, job.c)
    BY <1>3 DEF OfCapture, Decodes, NoJob
  <2> QED BY <2>1, <2>2 DEF GapInv, HeardFlows, Flow, SourcesFlow
<1>5. job.start > 0 => <<job.c, job.start>> \in Heard
  BY <1>1, BeginsMove DEF Heard, Begin
<1>6. Begun(engine, job.c).through = Offset(engine.id, engine.through, job.c)
  BY <1>1, ProgressLeft
<1>7. Offset(engine.id, engine.through, job.c) \in Nat
  BY <1>1 DEF Offset
<1> HIDE DEF job
<1>8. job.start <= Offset(engine.id, engine.through, job.c)
  BY <1>2, <1>4, <1>5, <1>7 DEF UpTo
<1> QED BY <1>2, <1>6, <1>7, <1>8 DEF BeginsTooLate, job
=============================================================================
