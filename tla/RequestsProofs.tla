--------------------------- MODULE RequestsProofs ---------------------------
(***************************************************************************)
(* Proofs about how a key press becomes a capture (MCRequests), for every  *)
(* value of the constants of the control socket (Control) and of the key   *)
(* with the capture state machine (PushToTalk, Hold).                      *)
(***************************************************************************)
EXTENDS MCRequests, SequenceTheorems, WellFoundedInduction, TLAPS

-----------------------------------------------------------------------------
(* The lines of connections.  A press is one connection, so it is in one
   place of one listener's queue at most, until it is taken off it. *)

InLine(q, c) == \E l \in DOMAIN q : \E i \in 1..Len(q[l]) : q[l][i] = c

OnceInLine(q) ==
  \A l, m \in DOMAIN q : \A i \in 1..Len(q[l]), j \in 1..Len(q[m]) :
    q[l][i] = q[m][j] /\ q[l][i] # C!Nobody => l = m /\ i = j

LEMMA SamePlace ==
  ASSUME NEW q, OnceInLine(q), NEW l \in DOMAIN q, NEW m \in DOMAIN q,
         NEW i \in 1..Len(q[l]), NEW j \in 1..Len(q[m]),
         q[l][i] = q[m][j], q[l][i] # C!Nobody
  PROVE  l = m /\ i = j
BY DEF OnceInLine

LEMMA LineGrows ==
  ASSUME NEW L, NEW S, NEW q \in [L -> Seq(S)], NEW l \in L, NEW c \in S,
         OnceInLine(q), c = C!Nobody \/ ~InLine(q, c)
  PROVE  LET q2 == [q EXCEPT ![l] = Append(@, c)]
         IN  /\ q2 \in [L -> Seq(S)] /\ OnceInLine(q2)
             /\ \A d : InLine(q2, d) => d = c \/ InLine(q, d)
<1> DEFINE q2 == [q EXCEPT ![l] = Append(@, c)]
<1>1. q2 \in [L -> Seq(S)]
  OBVIOUS
<1>2. ASSUME NEW m \in L, NEW i \in 1..Len(q2[m])
      PROVE  \/ i \in 1..Len(q[m]) /\ q2[m][i] = q[m][i]
             \/ m = l /\ i = Len(q[l]) + 1 /\ q2[m][i] = c
  BY <1>2, AppendProperties
<1> HIDE DEF q2
<1>3. OnceInLine(q2)
  <2> SUFFICES ASSUME NEW m \in L, NEW n \in L, NEW i \in 1..Len(q2[m]), NEW j \in 1..Len(q2[n]),
                      q2[m][i] = q2[n][j], q2[m][i] # C!Nobody
               PROVE  m = n /\ i = j
    BY <1>1 DEF OnceInLine
  <2>1. CASE i \in 1..Len(q[m]) /\ q2[m][i] = q[m][i]
    <3>1. InLine(q, q2[m][i])
      BY <2>1 DEF InLine
    <3>2. j \in 1..Len(q[n]) /\ q2[n][j] = q[n][j]
      BY <1>2, <3>1
    <3>3. m \in DOMAIN q /\ n \in DOMAIN q /\ q[m][i] = q[n][j] /\ q[m][i] # C!Nobody
      BY <2>1, <3>2
    <3> QED BY <2>1, <3>2, <3>3, SamePlace
  <2>2. CASE m = l /\ i = Len(q[l]) + 1 /\ q2[m][i] = c
    <3>1. ASSUME j \in 1..Len(q[n]), q2[n][j] = q[n][j] PROVE FALSE
      BY <2>2, <3>1 DEF InLine
    <3> QED BY <1>2, <2>2, <3>1
  <2> QED BY <1>2, <2>1, <2>2
<1>4. ASSUME NEW d, InLine(q2, d) PROVE d = c \/ InLine(q, d)
  BY <1>1, <1>2, <1>4 DEF InLine
<1> QED BY <1>1, <1>3, <1>4 DEF q2

LEMMA LineProbed ==
  ASSUME NEW L, NEW S, C!Nobody \in S, NEW q \in [L -> Seq(S)], NEW l \in L, OnceInLine(q)
  PROVE  LET q2 == [q EXCEPT ![l] = Append(@, C!Nobody)]
         IN  /\ q2 \in [L -> Seq(S)] /\ OnceInLine(q2)
             /\ \A d : InLine(q2, d) => d = C!Nobody \/ InLine(q, d)
<1> DEFINE nobody == C!Nobody
<1>1. nobody \in S /\ nobody = C!Nobody
  OBVIOUS
<1> HIDE DEF nobody
<1>2. LET q2 == [q EXCEPT ![l] = Append(@, nobody)]
      IN  /\ q2 \in [L -> Seq(S)] /\ OnceInLine(q2)
          /\ \A d : InLine(q2, d) => d = nobody \/ InLine(q, d)
  BY <1>1, LineGrows, ZenonT(40)
<1> QED BY <1>1, <1>2

LEMMA LineShrinks ==
  ASSUME NEW L, NEW S, NEW q \in [L -> Seq(S)], NEW l \in L, q[l] # <<>>, OnceInLine(q)
  PROVE  LET q2 == [q EXCEPT ![l] = Tail(@)]
         IN  /\ q2 \in [L -> Seq(S)] /\ OnceInLine(q2)
             /\ \A d : InLine(q2, d) => InLine(q, d)
             /\ Head(q[l]) \in S /\ InLine(q, Head(q[l]))
             /\ Head(q[l]) # C!Nobody => ~InLine(q2, Head(q[l]))
<1> DEFINE q2 == [q EXCEPT ![l] = Tail(@)]
<1>0. /\ Head(q[l]) \in S /\ Head(q[l]) = q[l][1] /\ 1 \in 1..Len(q[l])
      /\ Tail(q[l]) \in Seq(S)
  BY HeadTailProperties, EmptySeq
<1>1. q2 \in [L -> Seq(S)]
  BY <1>0
<1>2. ASSUME NEW m \in L, NEW i \in 1..Len(q2[m])
      PROVE  \/ m # l /\ i \in 1..Len(q[m]) /\ q2[m][i] = q[m][i]
             \/ m = l /\ i + 1 \in 1..Len(q[m]) /\ q2[m][i] = q[m][i + 1]
  BY <1>2, <1>0
<1> HIDE DEF q2
<1>3. OnceInLine(q2)
  <2> SUFFICES ASSUME NEW m \in L, NEW n \in L, NEW i \in 1..Len(q2[m]), NEW j \in 1..Len(q2[n]),
                      q2[m][i] = q2[n][j], q2[m][i] # C!Nobody
               PROVE  m = n /\ i = j
    BY <1>1 DEF OnceInLine
  <2>1. PICK a \in {i, i + 1} : a \in 1..Len(q[m]) /\ q2[m][i] = q[m][a] /\ (m = l <=> a = i + 1)
    BY <1>2
  <2>2. PICK b \in {j, j + 1} : b \in 1..Len(q[n]) /\ q2[n][j] = q[n][b] /\ (n = l <=> b = j + 1)
    BY <1>2
  <2>3. m = n /\ a = b
    <3>1. m \in DOMAIN q /\ n \in DOMAIN q /\ q[m][a] = q[n][b] /\ q[m][a] # C!Nobody
      BY <2>1, <2>2
    <3> QED BY <2>1, <2>2, <3>1, SamePlace
  <2> QED BY <2>1, <2>2, <2>3
<1>4. ASSUME NEW d, InLine(q2, d) PROVE InLine(q, d)
  BY <1>1, <1>2, <1>4 DEF InLine
<1>5. InLine(q, Head(q[l]))
  BY <1>0 DEF InLine
<1>6. ASSUME Head(q[l]) # C!Nobody, InLine(q2, Head(q[l])) PROVE FALSE
  BY <1>0, <1>1, <1>2, <1>6 DEF InLine, OnceInLine
<1> QED BY <1>0, <1>1, <1>3, <1>4, <1>5, <1>6 DEF q2

LEMMA LineEmptied ==
  ASSUME NEW L, NEW S, NEW q \in [L -> Seq(S)], NEW l \in L, OnceInLine(q)
  PROVE  LET q2 == [q EXCEPT ![l] = <<>>]
         IN  /\ q2 \in [L -> Seq(S)] /\ OnceInLine(q2)
             /\ \A d : InLine(q2, d) => InLine(q, d)
BY DEF OnceInLine, InLine

-----------------------------------------------------------------------------
(* The daemon that is started next has not been started yet. *)

LEMMA NextIsFresh ==
  ASSUME RequestsAssumption, C!Fresh # {}
  PROVE  C!Next1 \in C!Fresh
<1>1. C!Fresh \subseteq Nat
  BY DEF C!Fresh, C!Daemons
<1>2. PICK d \in C!Fresh : \A e \in C!Fresh : ~(<<e, d>> \in OpToRel(<, Nat))
  BY <1>1, NatLessThanWellFounded, WFMin
<1>3. \A e \in C!Fresh : d <= e
  <2> SUFFICES ASSUME NEW e \in C!Fresh, e < d PROVE FALSE
    BY <1>1
  <2>1. <<e, d>> \in Nat \X Nat /\ <<e, d>>[1] < <<e, d>>[2]
    BY <1>1
  <2>2. <<e, d>> \in OpToRel(<, Nat)
    BY <2>1 DEF OpToRel
  <2> QED BY <1>2, <2>2
<1> QED BY <1>3 DEF C!Next1

-----------------------------------------------------------------------------
(* Control: types, and where a press is. *)

ClientState == [at : {"idle", "connect", "waiting", "recover", "again", "done"},
                to : C!Listeners \cup {C!None},
                reply : {"none", "another daemon", "shutting down", "accepted"}]
DaemonState == [st : {"none", "locking", "probing", "removing", "binding", "waiting", "finishing",
                      "joined", "unlocking", "ended"} \cup C!Open,
                unit : BOOLEAN, with : C!Clients \cup {C!Nobody}, told : BOOLEAN]

SocketTypes ==
  /\ client \in [C!Clients -> ClientState]
  /\ queue \in [C!Listeners -> Seq(C!Clients \cup {C!Nobody})]
  /\ daemon \in [C!Daemons -> DaemonState]
  /\ taken \in [C!Clients -> Nat]

(* One that has not connected yet, or may do so again. *)
Asking(c) == client[c].at \in {"idle", "connect", "recover", "again"}

TakenOnce ==
  \A c \in C!Clients :
    /\ Asking(c) => ~InLine(queue, c) /\ taken[c] = 0
    /\ InLine(queue, c) => taken[c] = 0
    /\ taken[c] \in {0, 1}
    /\ client[c].reply = "accepted" => taken[c] = 1

AnsweredWasTaken ==
  \A d \in C!Daemons :
    daemon[d].st = "answering" => daemon[d].with \in C!Clients /\ taken[daemon[d].with] = 1

SocketInv ==
  component = "socket" =>
    SocketTypes /\ OnceInLine(queue) /\ TakenOnce /\ AnsweredWasTaken

LEMMA InitSocket == Init => SocketInv
<1> SUFFICES ASSUME component = "socket", C!Init
             PROVE  SocketTypes /\ OnceInLine(queue) /\ TakenOnce /\ AnsweredWasTaken
  BY DEF Init, SocketInv
<1>1. SocketTypes
  BY DEF C!Init, SocketTypes, ClientState, DaemonState, C!NoDaemon, C!Open
<1>2. \A l \in DOMAIN queue : Len(queue[l]) = 0
  BY DEF C!Init
<1>3. OnceInLine(queue) /\ \A c : ~InLine(queue, c)
  BY <1>2 DEF OnceInLine, InLine
<1>4. TakenOnce /\ AnsweredWasTaken
  BY <1>3 DEF C!Init, TakenOnce, AnsweredWasTaken, C!NoDaemon
<1> QED BY <1>1, <1>3, <1>4

(* What a step may do to a client: it asks only if it did, and is told that it
   was accepted only by the daemon that took its press. *)
Tells(c) ==
  /\ client'[c] \in ClientState
  /\ Asking(c)' => Asking(c)
  /\ client'[c].reply = "accepted" =>
       client[c].reply = "accepted" \/ taken[c] = 1

LEMMA NoPressTaken ==
  ASSUME SocketInv, component = "socket", component' = component,
         client' \in [C!Clients -> ClientState], daemon' \in [C!Daemons -> DaemonState],
         \A c \in C!Clients : Tells(c),
         \A d \in C!Daemons : daemon'[d].st = "answering" =>
           daemon[d].st = "answering" /\ daemon'[d].with = daemon[d].with,
         queue' \in [C!Listeners -> Seq(C!Clients \cup {C!Nobody})], OnceInLine(queue'),
         \A c \in C!Clients : InLine(queue', c) =>
           \/ InLine(queue, c)
           \/ Asking(c) /\ ~Asking(c)',
         taken' = taken
  PROVE  SocketInv'
<1>1. SocketTypes' /\ AnsweredWasTaken'
  BY DEF SocketInv, SocketTypes, AnsweredWasTaken
<1>2. TakenOnce'
  <2> SUFFICES ASSUME NEW c \in C!Clients
               PROVE  /\ Asking(c)' => ~InLine(queue', c) /\ taken[c] = 0
                      /\ InLine(queue', c) => taken[c] = 0
                      /\ taken[c] \in {0, 1}
                      /\ client'[c].reply = "accepted" => taken[c] = 1
    BY DEF TakenOnce
  <2> QED BY DEF SocketInv, TakenOnce, Tells
<1> QED BY <1>1, <1>2 DEF SocketInv

LEMMA ReplyTells ==
  ASSUME SocketInv, component = "socket", NEW c \in C!Clients \cup {C!Nobody},
         NEW reply \in {"another daemon", "shutting down", "accepted"},
         reply = "accepted" => c \in C!Clients /\ taken[c] = 1,
         client' = C!Replied(c, reply)
  PROVE  client' \in [C!Clients -> ClientState] /\ \A b \in C!Clients : Tells(b)
<1>1. client \in [C!Clients -> ClientState]
  BY DEF SocketInv, SocketTypes
<1>2. CASE c \in C!Clients /\ client[c].at = "waiting"
  <2>1. client' = [client EXCEPT ![c].reply = reply]
    BY <1>2 DEF C!Replied
  <2> QED BY <1>1, <1>2, <2>1, ZenonT(40) DEF Tells, Asking, ClientState
<1>3. CASE ~(c \in C!Clients /\ client[c].at = "waiting")
  BY <1>1, <1>3 DEF Tells, Asking, C!Replied
<1> QED BY <1>2, <1>3

LEMMA SameClients ==
  SocketInv /\ component = "socket" /\ UNCHANGED client
    => client' \in [C!Clients -> ClientState] /\ \A b \in C!Clients : Tells(b)
BY DEF SocketInv, SocketTypes, Tells, Asking

LEMMA SocketClient ==
  ASSUME SocketInv, component = "socket", component' = component, NEW c \in C!Clients,
         C!Client(c)
  PROVE  SocketInv'
<1>0. SocketTypes /\ OnceInLine(queue) /\ TakenOnce
  BY DEF SocketInv
<1>1. CASE C!Connects(c)
  <2>1. C!Reached \in C!Listeners
    BY <1>1 DEF C!Connects, C!Reached, C!Listens, C!Listeners
  <2>2. Asking(c) /\ ~InLine(queue, c)
    BY <1>0, <1>1 DEF C!Connects, Asking, TakenOnce
  <2>3. /\ queue' \in [C!Listeners -> Seq(C!Clients \cup {C!Nobody})] /\ OnceInLine(queue')
        /\ \A d : InLine(queue', d) => d = c \/ InLine(queue, d)
    <3> HIDE DEF C!Connects
    <3>1. queue' = [queue EXCEPT ![C!Reached] = Append(@, c)]
      BY <1>1 DEF C!Connects
    <3>2. queue \in [C!Listeners -> Seq(C!Clients \cup {C!Nobody})] /\ c \in C!Clients \cup {C!Nobody}
      BY <1>0 DEF SocketTypes
    <3> QED BY <1>0, <2>1, <2>2, <3>1, <3>2, LineGrows, ZenonT(40)
  <2>4. client' \in [C!Clients -> ClientState] /\ ~Asking(c)' /\ \A b \in C!Clients : Tells(b)
    BY <1>0, <1>1, <2>1, ZenonT(40) DEF C!Connects, SocketTypes, ClientState, Tells, Asking
  <2>5. taken' = taken /\ daemon' = daemon
    BY <1>1 DEF C!Connects
  <2> QED BY <1>0, <2>2, <2>3, <2>4, <2>5, NoPressTaken DEF SocketTypes
<1>2. CASE C!Presses(c) \/ C!FindsNobody(c) \/ C!StartsUnit(c) \/ C!Fails(c) \/ C!HasReply(c)
  <2>1. client' \in [C!Clients -> ClientState] /\ \A b \in C!Clients : Tells(b)
    <3>1. PICK at \in {"connect", "recover", "again", "done"} :
            client' = [client EXCEPT ![c].at = at] /\ (at # "done" => Asking(c))
      BY <1>2
      DEF C!Presses, C!FindsNobody, C!StartsUnit, C!Fails, C!HasReply, C!GivenUp, Asking
    <3> QED BY <1>0, <3>1 DEF SocketTypes, ClientState, Tells, Asking
  <2>2. taken' = taken /\ daemon' = daemon /\ queue' = queue
    BY <1>2 DEF C!Presses, C!FindsNobody, C!StartsUnit, C!Fails, C!HasReply
  <2> QED BY <1>0, <2>1, <2>2, NoPressTaken DEF SocketTypes
<1> QED BY <1>1, <1>2 DEF C!Client

(* A daemon that is not answering anybody goes on to do something else. *)
LEMMA GoesOn ==
  ASSUME SocketInv, component = "socket", NEW d,
         NEW e \in DaemonState, e.st # "answering",
         daemon' = [daemon EXCEPT ![d] = e]
  PROVE  /\ daemon' \in [C!Daemons -> DaemonState]
         /\ \A b \in C!Daemons : daemon'[b].st = "answering" =>
              daemon[b].st = "answering" /\ daemon'[b].with = daemon[b].with
BY DEF SocketInv, SocketTypes

LEMMA SocketStarts ==
  ASSUME SocketInv, component = "socket", component' = component,
         C!Activates \/ C!StartsByHand
  PROVE  SocketInv'
<1>0. SocketTypes /\ OnceInLine(queue) /\ RequestsAssumption
  BY RequestsAssumption DEF SocketInv
<1>1. client' = client /\ taken' = taken /\ C!Fresh # {}
  BY DEF C!Activates, C!StartsByHand
<1>2. C!Next1 \in C!Daemons /\ C!Unit \in C!Listeners
  BY <1>0, <1>1, NextIsFresh DEF C!Fresh, C!Listeners
<1>3. /\ daemon' \in [C!Daemons -> DaemonState]
      /\ \A b \in C!Daemons : daemon'[b].st = "answering" =>
           daemon[b].st = "answering" /\ daemon'[b].with = daemon[b].with
  <2>1. CASE C!Activates
    <3>1. \/ daemon' = daemon
          \/ daemon' = [daemon EXCEPT ![C!Next1] = [@ EXCEPT !.st = "waiting", !.unit = TRUE]]
      BY <2>1 DEF C!Activates
    <3> QED BY <1>0, <1>2, <3>1, ZenonT(40) DEF SocketTypes, DaemonState
  <2>2. CASE C!StartsByHand
    <3>1. daemon' = [daemon EXCEPT ![C!Next1].st = "locking"]
      BY <2>2 DEF C!StartsByHand
    <3> QED BY <1>0, <1>2, <3>1 DEF SocketTypes, DaemonState
  <2> QED BY <2>1, <2>2
<1>4. /\ queue' \in [C!Listeners -> Seq(C!Clients \cup {C!Nobody})] /\ OnceInLine(queue')
      /\ \A c : InLine(queue', c) => InLine(queue, c)
  <2>1. queue \in [C!Listeners -> Seq(C!Clients \cup {C!Nobody})]
    BY <1>0 DEF SocketTypes
  <2>2. queue' = queue \/ queue' = [queue EXCEPT ![C!Unit] = <<>>]
    BY DEF C!Activates, C!StartsByHand
  <2>3. CASE queue' = queue
    BY <1>0, <2>1, <2>3
  <2>4. CASE queue' = [queue EXCEPT ![C!Unit] = <<>>]
    BY <1>0, <1>2, <2>1, <2>4, LineEmptied
  <2> QED BY <2>2, <2>3, <2>4
<1> QED BY <1>1, <1>3, <1>4, SameClients, NoPressTaken

LEMMA SocketQuiet ==
  ASSUME SocketInv, component = "socket", component' = component,
         NEW d \in C!Daemons, NEW e \in DaemonState, e.st # "answering",
         daemon' = [daemon EXCEPT ![d] = e], NEW l \in C!Listeners,
         \/ queue' = queue
         \/ queue' = [queue EXCEPT ![l] = <<>>]
         \/ queue' = [queue EXCEPT ![l] = Append(@, C!Nobody)],
         client' = client, taken' = taken
  PROVE  SocketInv'
<1>0. queue \in [C!Listeners -> Seq(C!Clients \cup {C!Nobody})] /\ OnceInLine(queue)
  BY DEF SocketInv, SocketTypes
<1>1. /\ queue' \in [C!Listeners -> Seq(C!Clients \cup {C!Nobody})] /\ OnceInLine(queue')
      /\ \A c : InLine(queue', c) => InLine(queue, c) \/ c = C!Nobody
  <2>1. CASE queue' = queue
    BY <1>0, <2>1
  <2>2. CASE queue' = [queue EXCEPT ![l] = <<>>]
    BY <1>0, <2>2, LineEmptied
  <2>3. CASE queue' = [queue EXCEPT ![l] = Append(@, C!Nobody)]
    <3> QED BY <1>0, <2>3, LineProbed
  <2> QED BY <2>1, <2>2, <2>3
<1>2. C!Nobody \notin C!Clients
  BY RequestsAssumption DEF RequestsAssumption, C!ControlAssumption
<1>3. /\ daemon' \in [C!Daemons -> DaemonState]
      /\ \A b \in C!Daemons : daemon'[b].st = "answering" =>
           daemon[b].st = "answering" /\ daemon'[b].with = daemon[b].with
  BY GoesOn
<1> QED BY <1>1, <1>2, <1>3, SameClients, NoPressTaken

LEMMA SocketDaemon ==
  ASSUME SocketInv, component = "socket", component' = component, NEW d \in C!Daemons,
         C!Daemon(d)
  PROVE  SocketInv'
<1>0. SocketTypes /\ OnceInLine(queue) /\ TakenOnce /\ AnsweredWasTaken
  BY DEF SocketInv
<1>1. /\ daemon[d] \in DaemonState
      /\ queue \in [C!Listeners -> Seq(C!Clients \cup {C!Nobody})]
      /\ d \in C!Listeners /\ C!Unit \in C!Listeners /\ C!ListenerOf(d) \in C!Listeners
  BY <1>0 DEF SocketTypes, C!Listeners, C!ListenerOf
<1>2. CASE C!Locks(d) \/ C!RemovesStale(d) \/ C!Binds(d) \/ C!Returns(d) \/ C!RemovesPath(d)
           \/ C!Unlocks(d) \/ C!IsTold(d) \/ C!Joins(d) \/ C!IsKilled(d)
  <2>1. PICK e \in DaemonState : e.st # "answering" /\ daemon' = [daemon EXCEPT ![d] = e]
    <3>1. PICK st \in {"probing", "binding", "ended", "serving", "finishing", "joined", "unlocking"} :
            \/ daemon' = [daemon EXCEPT ![d].st = st]
            \/ daemon' = [daemon EXCEPT ![d].told = TRUE] /\ daemon[d].st # "answering"
            \/ daemon' = [daemon EXCEPT ![d] = [@ EXCEPT !.st = st, !.told = TRUE]]
      BY <1>2 DEF C!Locks, C!RemovesStale, C!Binds, C!Returns, C!RemovesPath, C!Unlocks, C!IsTold,
                  C!Joins, C!IsKilled, C!Exits
    <3>2. CASE daemon' = [daemon EXCEPT ![d].st = st]
      BY <1>1, <3>2, [daemon[d] EXCEPT !.st = st] \in DaemonState DEF DaemonState, C!Open
    <3>3. CASE daemon' = [daemon EXCEPT ![d].told = TRUE] /\ daemon[d].st # "answering"
      BY <1>1, <3>3, [daemon[d] EXCEPT !.told = TRUE] \in DaemonState DEF DaemonState, C!Open
    <3>4. CASE daemon' = [daemon EXCEPT ![d] = [@ EXCEPT !.st = st, !.told = TRUE]]
      BY <1>1, <3>4, [daemon[d] EXCEPT !.st = st, !.told = TRUE] \in DaemonState
      DEF DaemonState, C!Open
    <3> QED BY <3>1, <3>2, <3>3, <3>4
  <2>2. /\ (queue' = queue \/ queue' = [queue EXCEPT ![d] = <<>>])
        /\ client' = client /\ taken' = taken
    BY <1>2 DEF C!Locks, C!RemovesStale, C!Binds, C!Returns, C!RemovesPath, C!Unlocks,
                C!IsTold, C!Joins, C!IsKilled
  <2> QED BY <1>1, <2>1, <2>2, SocketQuiet
<1>3. CASE C!Probes(d)
  <2>1. PICK st \in {"removing", "binding", "ended"} : daemon' = [daemon EXCEPT ![d].st = st]
    BY <1>3 DEF C!Probes, C!Exits
  <2>2. PICK e \in DaemonState : e.st # "answering" /\ daemon' = [daemon EXCEPT ![d] = e]
    BY <1>1, <2>1, [daemon[d] EXCEPT !.st = st] \in DaemonState DEF DaemonState, C!Open
  <2>3. PICK l \in C!Listeners : queue' = queue \/ queue' = [queue EXCEPT ![l] = Append(@, C!Nobody)]
    <3>1. CASE C!Reached = C!None
      BY <1>1, <1>3, <3>1 DEF C!Probes
    <3>2. CASE C!Reached # C!None
      <4>1. C!Reached \in C!Listeners
        BY <3>2 DEF C!Reached, C!Listens, C!Listeners
      <4> QED BY <1>3, <3>2, <4>1 DEF C!Probes, C!Reached
    <3> QED BY <3>1, <3>2
  <2>4. client' = client /\ taken' = taken
    BY <1>3 DEF C!Probes
  <2> QED BY <1>1, <2>2, <2>3, <2>4, SocketQuiet
<1>4. CASE C!Waits(d)
  <2>1. CASE lock = C!None \/ queue[C!Unit] = <<>>
    <3>1. PICK st \in {"serving", "ended"} : daemon' = [daemon EXCEPT ![d].st = st]
      BY <1>4, <2>1 DEF C!Waits
    <3>2. PICK e \in DaemonState : e.st # "answering" /\ daemon' = [daemon EXCEPT ![d] = e]
      BY <1>1, <3>1, [daemon[d] EXCEPT !.st = st] \in DaemonState DEF DaemonState, C!Open
    <3> QED BY <1>1, <1>4, <2>1, <3>2, SocketQuiet DEF C!Waits
  <2>2. CASE lock # C!None /\ queue[C!Unit] # <<>>
    <3>1. /\ queue[C!Unit] # <<>> /\ queue' = [queue EXCEPT ![C!Unit] = Tail(@)]
          /\ client' = C!Replied(Head(queue[C!Unit]), "another daemon")
          /\ daemon' = daemon /\ taken' = taken
      BY <1>4, <2>2 DEF C!Waits, C!Refuses
    <3>2. /\ queue' \in [C!Listeners -> Seq(C!Clients \cup {C!Nobody})] /\ OnceInLine(queue')
          /\ \A c : InLine(queue', c) => InLine(queue, c)
          /\ Head(queue[C!Unit]) \in C!Clients \cup {C!Nobody}
      <4> DEFINE l == C!Unit
      <4>1. l \in C!Listeners /\ queue[l] # <<>>
        BY <1>1, <3>1
      <4> HIDE DEF l
      <4> QED BY <1>0, <1>1, <3>1, <4>1, LineShrinks, ZenonT(40) DEF l
    <3>3. client' \in [C!Clients -> ClientState] /\ \A b \in C!Clients : Tells(b)
      BY <3>1, <3>2, ReplyTells
    <3> QED BY <1>0, <3>1, <3>2, <3>3, NoPressTaken DEF SocketTypes
  <2> QED BY <2>1, <2>2
<1>5. CASE C!Accepts(d)
  <2> DEFINE l == C!ListenerOf(d)
             c == Head(queue[l])
  <2>0. l \in C!Listeners
    BY <1>1
  <2> HIDE DEF l
  <2>1. queue[l] # <<>> /\ queue' = [queue EXCEPT ![l] = Tail(@)] /\ daemon[d].st # "answering"
    BY <1>5 DEF C!Accepts, l
  <2>2. /\ queue' \in [C!Listeners -> Seq(C!Clients \cup {C!Nobody})] /\ OnceInLine(queue')
        /\ \A b : InLine(queue', b) => InLine(queue, b)
        /\ c \in C!Clients \cup {C!Nobody} /\ InLine(queue, c)
        /\ c # C!Nobody => ~InLine(queue', c)
    BY <1>0, <1>1, <2>0, <2>1, LineShrinks, ZenonT(40)
  <2> HIDE DEF c
  <2>3. CASE c = C!Nobody \/ daemon[d].st = "finishing"
    <3>1. client' = C!Replied(c, "shutting down") /\ daemon' = daemon /\ taken' = taken
      BY <1>5, <2>3 DEF C!Accepts, l, c
    <3>2. client' \in [C!Clients -> ClientState] /\ \A b \in C!Clients : Tells(b)
      BY <2>2, <3>1, ReplyTells
    <3> QED BY <1>0, <2>2, <3>1, <3>2, NoPressTaken DEF SocketTypes
  <2>4. CASE ~(c = C!Nobody \/ daemon[d].st = "finishing")
    <3>1. /\ daemon' = [daemon EXCEPT ![d].st = "answering", ![d].with = c]
          /\ taken' = [taken EXCEPT ![c] = @ + 1] /\ client' = client
      BY <1>5, <2>4 DEF C!Accepts, l, c
    <3>2. c \in C!Clients /\ taken[c] = 0 /\ taken'[c] = 1
      BY <1>0, <2>2, <2>4, <3>1 DEF TakenOnce, SocketTypes
    <3>3. SocketTypes'
      <4>1. [daemon[d] EXCEPT !.st = "answering", !.with = c] \in DaemonState
        BY <1>1, <3>2 DEF DaemonState, C!Open
      <4>2. daemon' = [daemon EXCEPT ![d] = [daemon[d] EXCEPT !.st = "answering", !.with = c]]
        BY <1>0, <3>1 DEF SocketTypes
      <4> QED BY <1>0, <2>2, <3>1, <3>2, <4>1, <4>2 DEF SocketTypes
    <3>4. AnsweredWasTaken'
      BY <1>0, <3>1, <3>2 DEF AnsweredWasTaken, SocketTypes, DaemonState
    <3>5. TakenOnce'
      <4> SUFFICES ASSUME NEW b \in C!Clients
                   PROVE  /\ Asking(b)' => ~InLine(queue', b) /\ taken'[b] = 0
                          /\ InLine(queue', b) => taken'[b] = 0
                          /\ taken'[b] \in {0, 1}
                          /\ client'[b].reply = "accepted" => taken'[b] = 1
        BY DEF TakenOnce
      <4>1. CASE b = c
        BY <1>0, <2>2, <2>4, <3>1, <3>2, <4>1 DEF TakenOnce, Asking
      <4>2. CASE b # c
        BY <1>0, <2>2, <3>1, <3>2, <4>2 DEF TakenOnce, Asking, SocketTypes
      <4> QED BY <4>1, <4>2
    <3> QED BY <2>2, <3>3, <3>4, <3>5 DEF SocketInv
  <2> QED BY <2>3, <2>4
<1>6. CASE C!Acknowledges(d)
  <2>1. /\ daemon[d].st = "answering" /\ client' = C!Replied(daemon[d].with, "accepted")
        /\ daemon' = [daemon EXCEPT ![d].st = "serving", ![d].with = C!Nobody]
        /\ queue' = queue /\ taken' = taken
    BY <1>6 DEF C!Acknowledges
  <2>2. daemon[d].with \in C!Clients /\ taken[daemon[d].with] = 1
    BY <1>0, <2>1 DEF AnsweredWasTaken
  <2>3. client' \in [C!Clients -> ClientState] /\ \A b \in C!Clients : Tells(b)
    BY <2>1, <2>2, ReplyTells
  <2>4. PICK e \in DaemonState : e.st # "answering" /\ daemon' = [daemon EXCEPT ![d] = e]
    BY <1>1, <2>1, [daemon[d] EXCEPT !.st = "serving", !.with = C!Nobody] \in DaemonState, ZenonT(40)
    DEF DaemonState, C!Open
  <2>5. /\ daemon' \in [C!Daemons -> DaemonState]
        /\ \A b \in C!Daemons : daemon'[b].st = "answering" =>
             daemon[b].st = "answering" /\ daemon'[b].with = daemon[b].with
    BY <2>4, GoesOn
  <2> QED BY <1>0, <2>1, <2>3, <2>5, NoPressTaken DEF SocketTypes
<1> QED BY <1>2, <1>3, <1>4, <1>5, <1>6 DEF C!Daemon

LEMMA StepSocket == SocketInv /\ [Next]_vars => SocketInv'
<1> SUFFICES ASSUME SocketInv, [Next]_vars, component' = "socket" PROVE SocketInv'
  BY DEF SocketInv
<1>1. CASE UNCHANGED vars
  BY <1>1 DEF vars, socketVars, SocketInv, SocketTypes, TakenOnce, Asking, AnsweredWasTaken
<1>2. CASE component = "socket" /\ C!Next
  BY <1>2, SocketClient, SocketStarts, SocketDaemon DEF C!Next
<1> QED BY <1>1, <1>2 DEF Next

(* A press reaches a loop at most once, and one that was told so did
   (shell/control.rs, answer and send_recovering), whatever daemons come, go and
   are killed meanwhile, and whoever gives up on an answer. *)
THEOREM PressTakenOnce == Spec => []OncePerPress
<1>1. SocketInv => OncePerPress
  BY DEF SocketInv, TakenOnce, OncePerPress, C!OncePerPress
<1> QED BY <1>1, InitSocket, StepSocket, PTL DEF Spec

-----------------------------------------------------------------------------
(* Control: who may touch the socket file.  Only the daemon that has the lock
   probes, binds, serves or removes it, and whatever the unit started it owes
   to a unit that listens. *)

WithLock == {"probing", "removing", "binding", "finishing", "joined", "unlocking"} \cup C!Open

Locked == \A d \in C!Daemons : daemon[d].st \in WithLock => lock = d

ByUnit ==
  \A d \in C!Daemons :
    /\ daemon[d].st = "waiting" => daemon[d].unit
    /\ daemon[d].unit =>
         /\ daemon[d].st \notin {"none", "locking", "probing", "removing", "binding"}
         /\ daemon[d].st \in {"finishing", "joined", "unlocking", "ended"} => daemon[d].told
         /\ C!Running(d) => unit = "listening"

UnitsPath == unit = "listening" /\ ~robbed => path = C!Unit

OwnPath ==
  \A d \in C!Daemons :
    daemon[d].st \in C!Open /\ ~daemon[d].unit => path \in {d, C!Unit}

Serving == Locked /\ ByUnit /\ UnitsPath /\ OwnPath /\ C!UnitSurvives

ServingInv == SocketInv /\ (component = "socket" => Serving)

LEMMA InitServing == Init => ServingInv
<1> SUFFICES ASSUME component = "socket", C!Init PROVE Serving
  BY InitSocket DEF Init, ServingInv
<1> QED
  BY DEF C!Init, Serving, Locked, ByUnit, UnitsPath, OwnPath, C!UnitSurvives, C!NoDaemon, WithLock,
         C!Open

LEMMA ServingClient ==
  ASSUME Serving, NEW c \in C!Clients, C!Client(c)
  PROVE  Serving'
<1>1. CASE C!StartsUnit(c)
  <2>1. daemon' = daemon /\ lock' = lock
    BY <1>1 DEF C!StartsUnit
  <2>2. \/ unit' = unit /\ path' = path /\ robbed' = robbed
        \/ unit' = "listening" /\ path' = C!Unit
    BY <1>1 DEF C!StartsUnit
  <2> QED
    BY <2>1, <2>2
    DEF Serving, Locked, ByUnit, UnitsPath, OwnPath, C!UnitSurvives, C!Activated, C!Running
<1>2. CASE UNCHANGED <<daemon, unit, path, lock, robbed>>
  BY <1>2
  DEF Serving, Locked, ByUnit, UnitsPath, OwnPath, C!UnitSurvives, C!Activated, C!Running
<1> QED
  BY <1>1, <1>2
  DEF C!Client, C!Presses, C!Connects, C!FindsNobody, C!Fails, C!HasReply

LEMMA ServingStarts ==
  ASSUME SocketTypes, Serving, C!Activates \/ C!StartsByHand
  PROVE  Serving'
<1>0. /\ C!Next1 \in C!Daemons /\ daemon[C!Next1].st = "none"
      /\ ~daemon[C!Next1].unit /\ daemon[C!Next1] \in DaemonState
      /\ path' = path /\ lock' = lock /\ robbed' = robbed
  <2>1. C!Next1 \in C!Fresh
    BY RequestsAssumption, NextIsFresh DEF C!Activates, C!StartsByHand
  <2> QED BY <2>1 DEF C!Fresh, C!Activates, C!StartsByHand, SocketTypes, Serving, ByUnit, DaemonState
<1>1. CASE unit' = unit /\ daemon' # daemon
  <2>1. PICK e \in DaemonState :
          /\ daemon' = [daemon EXCEPT ![C!Next1] = e]
          /\ e.st \in {"waiting", "locking"}
          /\ e.unit <=> e.st = "waiting"
          /\ e.unit => unit = "listening"
    <3>1. CASE C!Activates
      BY <1>0, <1>1, <3>1, [daemon[C!Next1] EXCEPT !.st = "waiting", !.unit = TRUE] \in DaemonState
      DEF C!Activates, DaemonState
    <3>2. CASE C!StartsByHand
      BY <1>0, <3>2, [daemon[C!Next1] EXCEPT !.st = "locking"] \in DaemonState
      DEF C!StartsByHand, DaemonState
    <3> QED BY <3>1, <3>2
  <2>2. ASSUME NEW d \in C!Daemons
        PROVE  daemon'[d] = IF d = C!Next1 THEN e ELSE daemon[d]
    BY <2>1 DEF SocketTypes
  <2>3. Locked' /\ UnitsPath' /\ OwnPath'
    BY <1>0, <1>1, <2>1, <2>2 DEF Serving, Locked, UnitsPath, OwnPath, WithLock, C!Open
  <2>4. ByUnit'
    BY <1>0, <1>1, <2>1, <2>2 DEF Serving, ByUnit, C!Running
  <2>5. C!UnitSurvives'
    BY <1>0, <1>1, <2>1, <2>2 DEF Serving, C!UnitSurvives, C!Activated
  <2> QED BY <2>3, <2>4, <2>5 DEF Serving
<1>2. CASE unit' = "failed" /\ daemon' = daemon /\ \A d \in C!Activated : ~C!Running(d)
  BY <1>0, <1>2
  DEF Serving, Locked, ByUnit, UnitsPath, OwnPath, C!UnitSurvives, C!Activated, C!Running
<1>3. CASE unit' = unit /\ daemon' = daemon
  BY <1>0, <1>3
  DEF Serving, Locked, ByUnit, UnitsPath, OwnPath, C!UnitSurvives, C!Activated, C!Running
<1> QED BY <1>1, <1>2, <1>3 DEF C!Activates, C!StartsByHand

(* A step of daemon d alone, from `was` to `is`. *)
Ended == {"finishing", "joined", "unlocking", "ended"}

Moves(d, was, is) ==
  /\ \A b \in C!Daemons : b # d => daemon'[b] = daemon[b]
  /\ is.unit = was.unit /\ (was.told => is.told) /\ unit' = unit
  /\ is.st = "waiting" => was.st = "waiting"
  /\ is.st \notin {"none", "ended"} => was.st \notin {"none", "ended"}
  /\ is.unit => is.st \notin {"none", "locking", "probing", "removing", "binding"}
  /\ is.unit /\ is.st \in Ended => is.told
  /\ is.st \in WithLock => lock' = d
  /\ lock' = lock \/ lock \in {d, C!None}
  /\ \/ path' = path /\ robbed' = robbed /\ (is.st \in C!Open => was.st \in C!Open \/ is.unit)
     \/ /\ was.st \in WithLock /\ (is.st \in C!Open => path' = d)
        /\ unit = "listening" /\ ~robbed' => path' = C!Unit

LEMMA MovesOn ==
  ASSUME SocketTypes, Serving, NEW d \in C!Daemons, Moves(d, daemon[d], daemon'[d])
  PROVE  Serving'
<1>0. d \in Nat /\ \A b \in C!Daemons : b # C!None
  BY DEF C!Daemons, C!None
<1>1. Locked'
  BY <1>0 DEF Serving, Locked, Moves
<1>2. ByUnit'
  BY DEF Serving, ByUnit, Moves, C!Running, Ended
<1>3. UnitsPath'
  BY DEF Serving, UnitsPath, Moves
<1>4. OwnPath'
  <2> SUFFICES ASSUME NEW b \in C!Daemons, daemon'[b].st \in C!Open, ~daemon'[b].unit
               PROVE  path' \in {b, C!Unit}
    BY DEF OwnPath
  <2>1. CASE b = d
    BY <2>1 DEF Serving, OwnPath, Moves
  <2>2. CASE b # d
    BY <2>2 DEF Serving, OwnPath, Locked, Moves, WithLock
  <2> QED BY <2>1, <2>2
<1>5. C!UnitSurvives'
  BY DEF Serving, C!UnitSurvives, C!Activated, Moves
<1> QED BY <1>1, <1>2, <1>3, <1>4, <1>5 DEF Serving

LEMMA StepsTo ==
  ASSUME SocketTypes, NEW d \in C!Daemons, NEW st, daemon' = [daemon EXCEPT ![d].st = st]
  PROVE  /\ \A b \in C!Daemons : b # d => daemon'[b] = daemon[b]
         /\ daemon'[d].st = st /\ daemon'[d].unit = daemon[d].unit
         /\ daemon'[d].told = daemon[d].told
BY DEF SocketTypes, DaemonState

LEMMA ServingDaemon ==
  ASSUME SocketTypes, Serving, NEW d \in C!Daemons, C!Daemon(d)
  PROVE  Serving'
<1> DEFINE was == daemon[d]
           is == daemon'[d]
<1>0. was \in DaemonState /\ d # C!None /\ d # C!Unit /\ C!None # C!Unit
  BY DEF SocketTypes, C!Daemons, C!None, C!Unit
<1>1. CASE C!Locks(d)
  <2>1. was.st = "locking" /\ ~was.unit /\ unit' = unit /\ path' = path /\ robbed' = robbed
    BY <1>1 DEF C!Locks, Serving, ByUnit
  <2>2. PICK st \in {"probing", "ended"} :
          /\ daemon' = [daemon EXCEPT ![d].st = st]
          /\ \/ st = "probing" /\ lock = C!None /\ lock' = d
             \/ st = "ended" /\ lock' = lock
    BY <1>1 DEF C!Locks
  <2>3. /\ \A b \in C!Daemons : b # d => daemon'[b] = daemon[b]
        /\ is.st = st /\ is.unit = was.unit /\ is.told = was.told
    BY <2>2, StepsTo
  <2> HIDE DEF was, is
  <2>4. Moves(d, was, is)
    BY <2>1, <2>2, <2>3 DEF Moves, WithLock, C!Open
  <2> QED BY <2>4, MovesOn DEF was, is
<1>2. CASE C!Probes(d)
  <2>1. /\ was.st = "probing" /\ ~was.unit /\ lock = d
        /\ unit' = unit /\ path' = path /\ robbed' = robbed
    BY <1>2 DEF C!Probes, Serving, ByUnit, Locked, WithLock
  <2>2. PICK st \in {"removing", "binding", "ended"} :
          /\ daemon' = [daemon EXCEPT ![d].st = st]
          /\ lock' = IF st = "ended" THEN C!None ELSE lock
    BY <1>2 DEF C!Probes, C!Exits
  <2>3. /\ \A b \in C!Daemons : b # d => daemon'[b] = daemon[b]
        /\ is.st = st /\ is.unit = was.unit /\ is.told = was.told
    BY <2>2, StepsTo
  <2> HIDE DEF was, is
  <2>4. Moves(d, was, is)
    BY <2>1, <2>2, <2>3 DEF Moves, WithLock, C!Open
  <2> QED BY <2>4, MovesOn DEF was, is
<1>3. CASE C!Binds(d)
  <2>1. was.st = "binding" /\ ~was.unit /\ lock = d /\ unit' = unit /\ robbed' = robbed
    BY <1>3 DEF C!Binds, Serving, ByUnit, Locked, WithLock
  <2>2. PICK st \in {"serving", "ended"} :
          /\ daemon' = [daemon EXCEPT ![d].st = st]
          /\ \/ st = "serving" /\ path = C!None /\ path' = d /\ lock' = lock
             \/ st = "ended" /\ path' = path /\ lock' = C!None
    BY <1>3 DEF C!Binds, C!Exits
  <2>3. /\ \A b \in C!Daemons : b # d => daemon'[b] = daemon[b]
        /\ is.st = st /\ is.unit = was.unit /\ is.told = was.told
    BY <2>2, StepsTo
  <2>4. path = C!None => ~(unit = "listening" /\ ~robbed)
    BY <1>0 DEF Serving, UnitsPath
  <2> HIDE DEF was, is
  <2>5. Moves(d, was, is)
    BY <2>1, <2>2, <2>3, <2>4 DEF Moves, WithLock, C!Open
  <2> QED BY <2>5, MovesOn DEF was, is
<1>9. CASE C!RemovesStale(d)
  <2>1. was.st = "removing" /\ ~was.unit /\ lock = d /\ unit' = unit
    BY <1>9 DEF C!RemovesStale, Serving, ByUnit, Locked, WithLock
  <2>2. CASE path = C!None
    <3>1. /\ daemon' = [daemon EXCEPT ![d].st = "ended"] /\ lock' = C!None
          /\ path' = path /\ robbed' = robbed
      BY <1>9, <2>2 DEF C!RemovesStale, C!Exits
    <3> QED BY <1>0, <2>1, <3>1, MovesOn DEF Moves, SocketTypes, DaemonState, WithLock, C!Open
  <2>3. CASE path # C!None
    <3>1. daemon' = [daemon EXCEPT ![d].st = "binding"] /\ lock' = lock /\ C!RemovesFile
      BY <1>9, <2>3 DEF C!RemovesStale
    <3>2. ~(unit = "listening" /\ ~robbed')
      BY <3>1 DEF C!RemovesFile, Serving, UnitsPath
    <3> QED BY <1>0, <2>1, <3>1, <3>2, MovesOn
            DEF Moves, SocketTypes, DaemonState, WithLock, C!Open
  <2> QED BY <2>2, <2>3
<1>4. CASE C!Waits(d)
  <2>1. was.st = "waiting" /\ was.unit /\ unit' = unit /\ path' = path /\ robbed' = robbed
    BY <1>4 DEF C!Waits, Serving, ByUnit
  <2>2. \/ daemon' = [daemon EXCEPT ![d].st = "serving"] /\ lock = C!None /\ lock' = d
        \/ daemon' = daemon /\ lock' = lock
        \/ daemon' = [daemon EXCEPT ![d].st = "ended"] /\ was.told /\ lock' = lock
    BY <1>4 DEF C!Waits, C!Refuses
  <2>3. CASE daemon' = [daemon EXCEPT ![d].st = "serving"] /\ lock = C!None /\ lock' = d
    BY <1>0, <2>1, <2>3, MovesOn DEF Moves, SocketTypes, DaemonState, WithLock, C!Open, Ended
  <2>4. CASE daemon' = daemon /\ lock' = lock
    BY <1>0, <2>1, <2>4, MovesOn DEF Moves, SocketTypes, DaemonState, WithLock, C!Open, Ended
  <2>5. CASE daemon' = [daemon EXCEPT ![d].st = "ended"] /\ was.told /\ lock' = lock
    BY <1>0, <2>1, <2>5, MovesOn DEF Moves, SocketTypes, DaemonState, WithLock, C!Open, Ended
  <2> QED BY <2>2, <2>3, <2>4, <2>5
<1>5. CASE C!Accepts(d) \/ C!Acknowledges(d) \/ C!Returns(d) \/ C!Joins(d)
  <2>1. was.st \in {"serving", "answering", "finishing"} /\ lock = d
    BY <1>5 DEF C!Accepts, C!Acknowledges, C!Returns, C!Joins, Serving, Locked, WithLock, C!Open
  <2>2. unit' = unit /\ path' = path /\ robbed' = robbed /\ lock' = lock
    BY <1>5, <2>1 DEF C!Accepts, C!Acknowledges, C!Returns, C!Joins, C!LockKept
  <2>3. was.st = "finishing" /\ was.unit => was.told
    BY DEF Serving, ByUnit
  <2>4. /\ \A b \in C!Daemons : b # d => daemon'[b] = daemon[b]
        /\ is.unit = was.unit /\ is.told = was.told
        /\ is.st \in {"serving", "answering", "finishing", "joined"}
        /\ is.st \in {"serving", "answering"} => was.st \in {"serving", "answering"}
        /\ is.st \in {"finishing", "joined"} => was.told \/ was.st = "finishing"
    <3>1. CASE C!Accepts(d)
      <4>1. \/ daemon' = daemon
            \/ /\ was.st = "serving"
               /\ \E c : daemon' = [daemon EXCEPT ![d].st = "answering", ![d].with = c]
        BY <2>1, <3>1 DEF C!Accepts
      <4>2. CASE daemon' = daemon
        BY <2>1, <2>3, <3>1, <4>2 DEF C!Accepts
      <4>3. ASSUME NEW c, daemon' = [daemon EXCEPT ![d].st = "answering", ![d].with = c],
                   was.st = "serving"
            PROVE  /\ \A b \in C!Daemons : b # d => daemon'[b] = daemon[b]
                   /\ is.unit = was.unit /\ is.told = was.told /\ is.st = "answering"
        BY <1>0, <4>3 DEF SocketTypes, DaemonState
      <4> QED BY <2>1, <4>1, <4>2, <4>3
    <3>2. CASE C!Acknowledges(d)
      <4>1. /\ was.st = "answering"
            /\ daemon' = [daemon EXCEPT ![d].st = "serving", ![d].with = C!Nobody]
        BY <3>2 DEF C!Acknowledges
      <4> QED BY <1>0, <4>1 DEF SocketTypes, DaemonState
    <3>3. CASE C!Returns(d)
      <4>1. was.told /\ daemon' = [daemon EXCEPT ![d].st = "finishing"]
        BY <3>3 DEF C!Returns
      <4> QED BY <1>0, <4>1 DEF SocketTypes, DaemonState
    <3>4. CASE C!Joins(d)
      <4>1. was.st = "finishing" /\ daemon' = [daemon EXCEPT ![d].st = "joined"]
        BY <3>4 DEF C!Joins
      <4> QED BY <1>0, <4>1 DEF SocketTypes, DaemonState
    <3> QED BY <1>5, <3>1, <3>2, <3>3, <3>4
  <2> HIDE DEF was, is
  <2>5. Moves(d, was, is)
    BY <2>1, <2>2, <2>3, <2>4 DEF Moves, WithLock, C!Open, Ended
  <2> QED BY <2>5, MovesOn DEF was, is
<1>6. CASE C!RemovesPath(d)
  <2>1. /\ was.st = "joined" /\ daemon' = [daemon EXCEPT ![d].st = "unlocking"]
        /\ lock' = lock /\ unit' = unit
        /\ was.unit => path' = path /\ robbed' = robbed
        /\ ~was.unit => C!RemovesFile
    BY <1>6 DEF C!RemovesPath
  <2>2. lock = d /\ (was.unit => was.told) /\ (unit = "listening" /\ ~robbed => path = C!Unit)
    BY <2>1 DEF Serving, Locked, ByUnit, UnitsPath, WithLock
  <2>3. ~was.unit => ~(unit = "listening" /\ ~robbed')
    BY <2>1, <2>2 DEF C!RemovesFile
  <2> QED BY <1>0, <2>1, <2>2, <2>3, MovesOn
          DEF Moves, SocketTypes, DaemonState, WithLock, C!Open, Ended
<1>7. CASE C!Unlocks(d) \/ C!IsKilled(d)
  <2>1. /\ unit' = unit /\ path' = path /\ robbed' = robbed
        /\ lock' = IF lock = d THEN C!None ELSE lock
    BY <1>7 DEF C!Unlocks, C!IsKilled
  <2>2. was.st = "unlocking" /\ was.unit => was.told
    BY DEF Serving, ByUnit
  <2>3. CASE C!Unlocks(d)
    <3>1. was.st = "unlocking" /\ daemon' = [daemon EXCEPT ![d].st = "ended"]
      BY <2>3 DEF C!Unlocks
    <3> QED BY <1>0, <2>1, <2>2, <3>1, MovesOn
            DEF Moves, SocketTypes, DaemonState, WithLock, C!Open, Ended
  <2>4. CASE C!IsKilled(d)
    <3>1. daemon' = [daemon EXCEPT ![d] = [@ EXCEPT !.st = "ended", !.told = TRUE]]
      BY <2>4 DEF C!IsKilled
    <3> QED BY <1>0, <2>1, <2>2, <3>1, MovesOn
            DEF Moves, SocketTypes, DaemonState, WithLock, C!Open, Ended
  <2> QED BY <1>7, <2>3, <2>4
<1>8. CASE C!IsTold(d)
  <2>1. /\ unit' = unit /\ path' = path /\ robbed' = robbed /\ lock' = lock
        /\ was.st \in {"serving", "waiting"} /\ daemon' = [daemon EXCEPT ![d].told = TRUE]
    BY <1>8 DEF C!IsTold
  <2>2. was.st = "serving" => lock = d
    BY DEF Serving, Locked, WithLock, C!Open
  <2> QED BY <1>0, <2>1, <2>2, MovesOn DEF Moves, SocketTypes, DaemonState, WithLock, C!Open, Ended
<1> QED BY <1>1, <1>2, <1>3, <1>4, <1>5, <1>6, <1>7, <1>8, <1>9 DEF C!Daemon

LEMMA StepServing == ServingInv /\ [Next]_vars => ServingInv'
<1> SUFFICES ASSUME ServingInv, SocketInv', [Next]_vars, component' = "socket" PROVE Serving'
  BY StepSocket DEF ServingInv
<1>1. CASE UNCHANGED vars
  BY <1>1
  DEF vars, socketVars, ServingInv, Serving, Locked, ByUnit, UnitsPath, OwnPath, C!UnitSurvives,
      C!Activated, C!Running
<1>2. CASE component = "socket" /\ C!Next
  <2>1. SocketTypes /\ Serving
    BY <1>2 DEF ServingInv, SocketInv
  <2> QED BY <1>2, <2>1, ServingClient, ServingStarts, ServingDaemon DEF C!Next
<1> QED BY <1>1, <1>2 DEF Next

(* The socket file leads to the daemon that serves, or to the unit that keeps
   its presses (shell/control.rs, remove_stale and Drop for ControlServer), and
   the unit fails only once every daemon it started was told to stop or killed
   (shell/daemon/lock.rs, lock_under_activation), of any number of daemons. *)
THEOREM ServerIsReached == Spec => []ServedWhereConnected
<1>1. ServingInv => ServedWhereConnected
  <2> SUFFICES ASSUME component = "socket", Serving
               PROVE  C!ServedWhereConnected /\ C!UnitSurvives
    BY DEF ServingInv, ServedWhereConnected
  <2> QED
    BY DEF Serving, ByUnit, UnitsPath, OwnPath, C!ServedWhereConnected, C!ListenerOf, C!Running,
           C!Open
<1> QED BY <1>1, InitServing, StepServing, PTL DEF Spec

-----------------------------------------------------------------------------
(* PushToTalk: requests are stamped in the order they are taken in.  What is
   `owing` is what the control thread stamped and the loop has not taken. *)

Stamped == [request : K!Requests, origin : K!Origins, at : Nat]
States == {K!Idle, K!Transcribing}
          \cup [phase : {"recording"}, started : Nat, lastSpeech : Nat, hold : K!Holds, at : Nat]

(* No request that is owing, and none to come, is stamped before t. *)
Passed(t) ==
  /\ \A i \in 1..Len(K!Waiting) : t <= K!Waiting[i].at
  /\ \A r \in stamped : t <= r.at
  /\ t <= now

KeyState ==
  [down : BOOLEAN, since : Nat, binding : {"start", "toggle"}, repeatAt : Nat, presses : Nat]

OwingTypes ==
  /\ early \in Seq(Stamped) /\ channel \in Seq(Stamped) /\ stamped \subseteq Stamped
  /\ now \in Nat

KeyTypes ==
  /\ OwingTypes /\ clients \subseteq K!Client /\ read \subseteq Nat /\ key \in KeyState
  /\ state \in States /\ released \subseteq Nat /\ setup \in Setups

InOrderOwing ==
  /\ \A i, j \in 1..Len(K!Waiting) : i < j => K!Waiting[i].at <= K!Waiting[j].at
  /\ \A r \in stamped : r.at <= now /\ \A i \in 1..Len(K!Waiting) : K!Waiting[i].at <= r.at
  /\ \A i \in 1..Len(K!Waiting) : K!Waiting[i].at <= now

Timely ==
  /\ InOrderOwing
  /\ \A t \in read : t <= now
  /\ read # {} => early = <<>>

(* A latch was pressed no earlier than its capture began. *)
Pressed ==
  K!IsRecording(state) =>
    /\ Passed(state.started)
    /\ state.hold = "latched" => state.started <= state.at /\ Passed(state.at)

Unpreempted == "preempted" \in setup.extras => "preempted" \in extras

(* What ended a capture did so at a time the requests left are later than. *)
AfterRelease ==
  /\ extras \subseteq setup.extras
  /\ Unpreempted =>
       /\ stamped = {}
       /\ \A r \in released : Passed(r + REPEAT_WINDOW + 1)

KeyInv ==
  component = "key" =>
    KeyTypes /\ Timely /\ Pressed /\ AfterRelease
    /\ K!LatchIsNoTap /\ K!PressInWindowContinues

LEMMA Durations ==
  /\ MINIMUM_HOLD \in Nat /\ REPEAT_WINDOW \in Nat /\ MINIMUM_HOLD <= REPEAT_WINDOW
  /\ KEY_SETTLED \in Nat /\ MAX_CAPTURE \in Nat
BY RequestsAssumption DEF RequestsAssumption, K!DurationsAssumption

(* What the state machine answers to a request. *)
LEMMA AnswersRequest ==
  ASSUME NEW s \in States, NEW request \in K!Requests, NEW at \in Nat,
         K!IsRecording(s) /\ s.hold = "latched" => s.started <= s.at
  PROVE  LET result == K!OnRequest(s, request, at)
         IN  /\ result.state \in States
             /\ K!IsRecording(result.state) =>
                  \/ /\ result.state.started = at
                     /\ result.state.hold = "latched" => result.state.at = at
                  \/ /\ K!IsRecording(s) /\ result.state.started = s.started
                     /\ result.state.hold = "latched" =>
                          \/ result.state.at = at
                          \/ s.hold = "latched" /\ result.state.at = s.at
             /\ result.command = K!Discard("tooshort") => s.hold # "latched"
<1> USE Durations
    DEF K!Result, K!Idle, K!Transcribing, K!Recording, K!IsRecording, States, K!Holds, K!Discard
<1>1. CASE ~K!IsRecording(s)
  BY <1>1 DEF K!OnRequest, K!OnRequestAtRest, K!Begin, K!Nothing, K!StartCommand
<1>2. CASE K!IsRecording(s)
  <2>0. K!OnRequest(s, request, at) = K!OnRequestRecording(s, request, at)
    BY <1>2 DEF K!OnRequest
  <2>1. CASE request = "cancel"
    BY <1>2, <2>0, <2>1 DEF K!OnRequestRecording
  <2>2. CASE request # "cancel" /\ s.hold = "latched" /\ request # "stop"
    <3>1. CASE K!Since(at, s.at) <= REPEAT_WINDOW
      BY <1>2, <2>0, <2>2, <3>1
      DEF K!OnRequestRecording, K!OnPressWhileLatched, K!Holding, K!Nothing, K!Requests
    <3>2. CASE ~(K!Since(at, s.at) <= REPEAT_WINDOW)
      <4>1. ~(K!Since(at, s.started) < MINIMUM_HOLD)
        BY <1>2, <2>2, <3>2 DEF K!Since
      <4>2. K!OnRequest(s, request, at) = K!End(s.started, at, "keypress")
        BY <1>2, <2>0, <2>2, <3>2 DEF K!OnRequestRecording, K!OnPressWhileLatched, K!Requests
      <4>3. /\ K!OnRequest(s, request, at).state = K!Transcribing
            /\ K!OnRequest(s, request, at).command
                 = K!Decode(at, K!Since(at, s.started), "keypress")
        BY <4>1, <4>2 DEF K!End
      <4> QED BY <4>3 DEF K!Decode
    <3> QED BY <3>1, <3>2
  <2>3. CASE request # "cancel" /\ ~(s.hold = "latched" /\ request # "stop")
    BY <1>2, <2>0, <2>3 DEF K!OnRequestRecording, K!Holding, K!Nothing
  <2> QED BY <2>1, <2>2, <2>3
<1> QED BY <1>1, <1>2

(* What anything else that reaches the session may do to a capture: it ends it
   or leaves it as it is, and begins none. *)
Leaves(s, result) ==
  /\ result.state \in States
  /\ K!IsRecording(result.state) =>
       /\ K!IsRecording(s) /\ result.state.started = s.started
       /\ result.state.hold = s.hold /\ result.state.at = s.at
  /\ result.command = K!Discard("tooshort") => s.hold # "latched"
  /\ result.command # K!StartCommand
  /\ result.command.command \in {"decode", "discard"} => K!IsRecording(s)

LEMMA LeavesCapture ==
  ASSUME NEW s \in States, NEW at \in Nat, NEW silence
  PROVE  /\ Leaves(s, K!OnClock(s, at, silence)) /\ Leaves(s, K!OnSpeech(s, at))
         /\ Leaves(s, K!OnExhausted(s, at)) /\ Leaves(s, K!OnWindowClosed(s, at))
         /\ Leaves(s, K!OnFinished(s))
<1> USE DEF Leaves, K!Result, K!Idle, K!Transcribing, K!IsRecording, States, K!Discard, K!Nothing,
            K!StartCommand, K!End, K!Decode
<1>1. Leaves(s, K!OnClock(s, at, silence))
  BY DEF K!OnClock, K!WindowPassed
<1>2. Leaves(s, K!OnSpeech(s, at))
  BY DEF K!OnSpeech
<1>3. Leaves(s, K!OnExhausted(s, at)) /\ Leaves(s, K!OnWindowClosed(s, at))
  BY DEF K!OnExhausted, K!OnWindowClosed
<1>4. Leaves(s, K!OnFinished(s))
  BY DEF K!OnFinished
<1> QED BY <1>1, <1>2, <1>3, <1>4

(* The queue of requests that wait, as its steps move it. *)
LEMMA Received ==
  ASSUME early \in Seq(Stamped), channel \in Seq(Stamped)
  PROVE  /\ K!Waiting \in Seq(Stamped)
         /\ K!Receive[1] \in Seq(Stamped) /\ K!Receive[2] \in Seq(Stamped)
         /\ K!Receive[1] \o K!Receive[2] = K!Waiting
         /\ K!Waiting # <<>> =>
              /\ Tail(K!Receive[1]) \in Seq(Stamped)
              /\ Tail(K!Receive[1]) \o K!Receive[2] = Tail(K!Waiting)
<1>1. K!Waiting \in Seq(Stamped)
  BY ConcatProperties DEF K!Waiting
<1>2. CASE early = <<>> /\ channel # <<>>
  <2>1. K!Receive[1] = <<Head(channel)>> /\ K!Receive[2] = Tail(channel)
    BY <1>2 DEF K!Receive
  <2>2. Head(channel) \in Stamped /\ Tail(channel) \in Seq(Stamped) /\ K!Waiting = channel
    BY <1>2, HeadTailProperties, ConcatEmptySeq DEF K!Waiting
  <2>3. <<Head(channel)>> \in Seq(Stamped) /\ Tail(<<Head(channel)>>) = <<>>
    BY <2>2
  <2>4. <<Head(channel)>> \o Tail(channel) = channel
    <3>1. Len(<<Head(channel)>> \o Tail(channel)) = Len(channel)
      BY <1>2, <2>2, <2>3, ConcatProperties, HeadTailProperties, EmptySeq
    <3>2. \A i \in 1..Len(channel) : (<<Head(channel)>> \o Tail(channel))[i] = channel[i]
      BY <1>2, <2>2, <2>3, ConcatProperties, HeadTailProperties, EmptySeq
    <3>3. <<Head(channel)>> \o Tail(channel) \in Seq(Stamped)
      BY <2>2, <2>3, ConcatProperties
    <3> QED BY <3>1, <3>2, <3>3, SeqEqual
  <2>5. Tail(<<Head(channel)>>) \o Tail(channel) = Tail(channel)
    BY <2>2, <2>3, ConcatEmptySeq
  <2> QED BY <1>1, <2>1, <2>2, <2>3, <2>4, <2>5, EmptySeq
<1>3. CASE ~(early = <<>> /\ channel # <<>>)
  <2>1. K!Receive[1] = early /\ K!Receive[2] = channel
    BY <1>3 DEF K!Receive
  <2>2. CASE early = <<>>
    BY <1>1, <1>3, <2>1, <2>2, ConcatEmptySeq DEF K!Waiting
  <2>3. CASE early # <<>>
    <3>1. Tail(early) \in Seq(Stamped) /\ Len(Tail(early)) = Len(early) - 1
          /\ \A i \in 1..Len(Tail(early)) : Tail(early)[i] = early[i + 1]
      BY <2>3, HeadTailProperties
    <3>2. /\ Len(K!Waiting) = Len(early) + Len(channel) /\ K!Waiting # <<>>
          /\ \A i \in 1..Len(early) + Len(channel) : K!Waiting[i] =
               IF i <= Len(early) THEN early[i] ELSE channel[i - Len(early)]
      BY <2>3, ConcatProperties, EmptySeq DEF K!Waiting
    <3>3. /\ Tail(K!Waiting) \in Seq(Stamped) /\ Len(Tail(K!Waiting)) = Len(K!Waiting) - 1
          /\ \A i \in 1..Len(Tail(K!Waiting)) : Tail(K!Waiting)[i] = K!Waiting[i + 1]
      BY <1>1, <3>2, HeadTailProperties
    <3>4. Tail(early) \o channel = Tail(K!Waiting)
      <4>1. /\ Tail(early) \o channel \in Seq(Stamped)
            /\ Len(Tail(early) \o channel) = Len(Tail(K!Waiting))
        BY <3>1, <3>2, <3>3, ConcatProperties
      <4>2. \A i \in 1..Len(Tail(early) \o channel) : (Tail(early) \o channel)[i] = Tail(K!Waiting)[i]
        BY <3>1, <3>2, <3>3, <4>1, ConcatProperties
      <4> QED BY <3>3, <4>1, <4>2, SeqEqual
    <3> QED BY <1>1, <2>1, <3>1, <3>4 DEF K!Waiting
  <2> QED BY <2>2, <2>3
<1> QED BY <1>2, <1>3

(* How a step moves the requests: they wait as before, the first is taken, or
   one is stamped now, and queued at once or later. *)
RequestsMove ==
  \/ K!Waiting' = K!Waiting /\ stamped' = stamped
  \/ K!Waiting # <<>> /\ K!Waiting' = Tail(K!Waiting) /\ stamped' = stamped
  \/ \E r \in Stamped :
       /\ \/ stamped = {} /\ stamped' \in {{}, {r}} /\ r.at = now
          \/ r \in stamped /\ stamped' = {}
       /\ K!Waiting' = IF stamped' = {} THEN Append(K!Waiting, r) ELSE K!Waiting

LEMMA OwingTyped ==
  ASSUME OwingTypes
  PROVE  /\ K!Waiting \in Seq(Stamped)
         /\ \A i \in 1..Len(K!Waiting) : K!Waiting[i].at \in Nat
         /\ \A r \in stamped : r.at \in Nat
         /\ \A u \in Nat : \A t \in 0..u : Passed(u) => Passed(t)
<1>1. K!Waiting \in Seq(Stamped) /\ \A r \in stamped : r.at \in Nat
  BY Received DEF OwingTypes, Stamped
<1>2. \A i \in 1..Len(K!Waiting) : K!Waiting[i].at \in Nat
  <2> SUFFICES ASSUME NEW i \in 1..Len(K!Waiting) PROVE K!Waiting[i].at \in Nat
    OBVIOUS
  <2>1. K!Waiting[i] \in Stamped
    BY <1>1, ElementOfSeq
  <2> QED BY <2>1 DEF Stamped
<1> QED BY <1>1, <1>2 DEF Passed, OwingTypes

PassedEarlier == \A u \in Nat : \A t \in 0..u : Passed(u) => Passed(t)

LEMMA OwingPasses == OwingTypes => PassedEarlier
BY OwingTyped DEF PassedEarlier

LEMMA OwingMoves ==
  ASSUME OwingTypes, InOrderOwing, now' \in Nat, now <= now', RequestsMove
  PROVE  InOrderOwing' /\ \A t \in Nat : Passed(t) => Passed(t)'
<1>0. /\ K!Waiting \in Seq(Stamped) /\ now \in Nat
      /\ \A i \in 1..Len(K!Waiting) : K!Waiting[i].at \in Nat
      /\ \A r \in stamped : r.at \in Nat
  BY OwingTyped DEF OwingTypes
<1>1. CASE K!Waiting' = K!Waiting /\ stamped' = stamped
  BY <1>0, <1>1 DEF InOrderOwing, Passed
<1>2. CASE K!Waiting # <<>> /\ K!Waiting' = Tail(K!Waiting) /\ stamped' = stamped
  <2>1. /\ Len(K!Waiting') = Len(K!Waiting) - 1
        /\ \A i \in 1..Len(K!Waiting') : i + 1 \in 1..Len(K!Waiting) /\ K!Waiting'[i] = K!Waiting[i + 1]
    BY <1>0, <1>2, HeadTailProperties
  <2> QED BY <1>0, <1>2, <2>1 DEF InOrderOwing, Passed
<1>3. ASSUME NEW r \in Stamped,
             \/ stamped = {} /\ stamped' \in {{}, {r}} /\ r.at = now
             \/ r \in stamped /\ stamped' = {},
             K!Waiting' = IF stamped' = {} THEN Append(K!Waiting, r) ELSE K!Waiting
      PROVE  InOrderOwing' /\ \A t \in Nat : Passed(t) => Passed(t)'
  <2>0. r.at \in Nat /\ r.at <= now
    BY <1>0, <1>3 DEF InOrderOwing, Stamped
  <2>1. CASE stamped' = {}
    <3>1. /\ Len(K!Waiting') = Len(K!Waiting) + 1 /\ Len(K!Waiting) \in Nat
          /\ \A i \in 1..Len(K!Waiting') :
               K!Waiting'[i] = IF i <= Len(K!Waiting) THEN K!Waiting[i] ELSE r
      BY <1>0, <1>3, <2>1, AppendProperties
    <3>2. \A i \in 1..Len(K!Waiting) : K!Waiting[i].at <= r.at
      BY <1>3 DEF InOrderOwing
    <3>3. InOrderOwing'
      BY <1>0, <2>0, <2>1, <3>1, <3>2, SMTT(30) DEF InOrderOwing
    <3>4. ASSUME NEW t \in Nat, Passed(t) PROVE Passed(t)'
      <4>1. t <= r.at
        BY <1>3, <3>4 DEF Passed
      <4> QED BY <1>0, <2>0, <2>1, <3>1, <3>4, <4>1 DEF Passed
    <3> QED BY <3>3, <3>4
  <2>2. CASE stamped' # {}
    <3>1. stamped' = {r} /\ r.at = now /\ K!Waiting' = K!Waiting
      BY <1>3, <2>2
    <3> QED BY <1>0, <2>0, <3>1 DEF InOrderOwing, Passed
  <2> QED BY <2>1, <2>2
<1> QED BY <1>1, <1>2, <1>3 DEF RequestsMove

-----------------------------------------------------------------------------
(* PushToTalk: what a step may do to the capture. *)

KeyRest == Pressed /\ AfterRelease /\ K!LatchIsNoTap /\ K!PressInWindowContinues

(* What every step leaves: the bounds shrink, and what was passed stays so. *)
Onward ==
  /\ setup' = setup /\ extras' \subseteq extras
  /\ Unpreempted' /\ stamped = {} => stamped' = {}
  /\ \A t \in Nat : Passed(t) => Passed(t)'
  /\ \A u \in Nat : \A t \in 0..u : Passed(u)' => Passed(t)'

LEMMA RestStays ==
  ASSUME KeyTypes, KeyRest, Onward, state' = state, last' = last, released' = released
  PROVE  KeyRest'
<1>0. (Unpreempted' => Unpreempted) /\ REPEAT_WINDOW \in Nat
  BY Durations DEF Onward, Unpreempted
<1>1. Pressed'
  BY DEF KeyRest, Pressed, Onward, KeyTypes, States, K!IsRecording, K!Idle, K!Transcribing
<1>2. AfterRelease'
  BY <1>0 DEF KeyRest, AfterRelease, Onward, KeyTypes
<1>3. K!LatchIsNoTap' /\ K!PressInWindowContinues'
  BY <1>0 DEF KeyRest, K!LatchIsNoTap, K!PressInWindowContinues, Unpreempted
<1> QED BY <1>1, <1>2, <1>3 DEF KeyRest

LEMMA RestLeft ==
  ASSUME KeyTypes, KeyRest, Onward, NEW event, NEW origin, NEW at \in Nat, NEW result,
         K!Took(event, origin, at, result), Leaves(state, result),
         event = "clock" /\ Unpreempted => Passed(at)'
  PROVE  KeyRest' /\ state' \in States /\ released' \subseteq Nat
<1>0. /\ Unpreempted' => Unpreempted
      /\ REPEAT_WINDOW \in Nat /\ state \in States /\ released \subseteq Nat
  BY Durations DEF Onward, Unpreempted, KeyTypes
<1>1. /\ state' = result.state /\ last'.command = result.command /\ last'.before = state
      /\ released' = IF result.command.command \notin {"decode", "discard"} THEN released
                     ELSE {r \in {state.at} : event = "clock" /\ state.hold = "releasing"
                                              /\ K!WindowPassed(state, at)}
  BY DEF K!Took
<1>2. Pressed' /\ state' \in States
  BY <1>0, <1>1 DEF Leaves, KeyRest, Pressed, Onward, States, K!IsRecording, K!Idle, K!Transcribing
<1>3. ASSUME NEW r \in released'
      PROVE  /\ r \in Nat
             /\ \/ r \in released
                \/ event = "clock" /\ r + REPEAT_WINDOW + 1 \in Nat /\ r + REPEAT_WINDOW + 1 <= at
  <2>1. CASE r \in released
    BY <1>0, <2>1
  <2>2. CASE /\ r = state.at /\ event = "clock" /\ K!WindowPassed(state, at)
             /\ K!IsRecording(state)
    <3>1. state.at \in Nat
      BY <1>0, <2>2 DEF K!IsRecording, States, K!Idle, K!Transcribing
    <3> QED BY <1>0, <2>2, <3>1 DEF K!WindowPassed, K!Since
  <2> QED BY <1>1, <2>1, <2>2 DEF Leaves
<1>4. AfterRelease'
  <2> SUFFICES ASSUME Unpreempted' PROVE stamped' = {} /\ \A r \in released' : Passed(r + REPEAT_WINDOW + 1)'
    BY DEF AfterRelease, KeyRest, Onward
  <2>1. stamped' = {}
    BY <1>0 DEF AfterRelease, KeyRest, Onward
  <2>2. ASSUME NEW r \in released' PROVE Passed(r + REPEAT_WINDOW + 1)'
    <3>1. CASE r \in released
      BY <1>0, <3>1 DEF AfterRelease, KeyRest, Onward
    <3>2. CASE r + REPEAT_WINDOW + 1 \in Nat /\ r + REPEAT_WINDOW + 1 <= at /\ event = "clock"
      BY <1>0, <3>2 DEF Onward
    <3> QED BY <1>3, <3>1, <3>2
  <2> QED BY <2>1, <2>2
<1>5. K!LatchIsNoTap' /\ K!PressInWindowContinues'
  BY <1>1 DEF K!LatchIsNoTap, K!PressInWindowContinues, Leaves
<1> QED BY <1>2, <1>3, <1>4, <1>5 DEF KeyRest

LEMMA RestTaken ==
  ASSUME KeyTypes, InOrderOwing, KeyRest, Onward, NEW request \in K!Requests, NEW origin,
         NEW at \in Nat, K!Took(request, origin, at, K!OnRequest(state, request, at)),
         \A t \in Nat : Passed(t) => t <= at, Passed(at)'
  PROVE  KeyRest' /\ state' \in States /\ released' \subseteq Nat
<1> DEFINE result == K!OnRequest(state, request, at)
<1>0. /\ Unpreempted' => Unpreempted
      /\ REPEAT_WINDOW \in Nat /\ state \in States /\ released \subseteq Nat
  BY Durations DEF Onward, Unpreempted, KeyTypes
<1>1. /\ state' = result.state /\ last'.command = result.command /\ last'.before = state
      /\ last'.at = at
      /\ released' \subseteq released
  BY DEF K!Took, K!Requests
<1>2. K!IsRecording(state) =>
        /\ state.started \in Nat /\ Passed(state.started) /\ state.started <= at /\ state.at \in Nat
        /\ state.hold = "latched" => state.started <= state.at /\ Passed(state.at)
  BY <1>0 DEF KeyRest, Pressed, States, K!IsRecording, K!Idle, K!Transcribing
<1>3. /\ result.state \in States
      /\ K!IsRecording(result.state) =>
           \/ /\ result.state.started = at
              /\ result.state.hold = "latched" => result.state.at = at
           \/ /\ K!IsRecording(state) /\ result.state.started = state.started
              /\ result.state.hold = "latched" =>
                   \/ result.state.at = at
                   \/ state.hold = "latched" /\ result.state.at = state.at
      /\ result.command = K!Discard("tooshort") => state.hold # "latched"
  BY <1>0, <1>2, AnswersRequest
<1> HIDE DEF result
<1>4. Pressed'
  BY <1>1, <1>2, <1>3 DEF Pressed, Onward
<1>5. AfterRelease'
  BY <1>0, <1>1 DEF AfterRelease, KeyRest, Onward
<1>6. K!LatchIsNoTap'
  BY <1>1, <1>3 DEF K!LatchIsNoTap
<1>7. K!PressInWindowContinues'
  <2> SUFFICES ASSUME Unpreempted', NEW r \in released' PROVE at > r + REPEAT_WINDOW
    BY <1>1 DEF K!PressInWindowContinues, Unpreempted
  <2>1. Passed(r + REPEAT_WINDOW + 1) /\ r \in Nat
    BY <1>0, <1>1 DEF KeyRest, AfterRelease
  <2> QED BY <1>0, <2>1
<1> QED BY <1>0, <1>1, <1>3, <1>4, <1>5, <1>6, <1>7 DEF KeyRest

-----------------------------------------------------------------------------
(* PushToTalk: the steps. *)

LEMMA InitKey == Init => KeyInv
<1> SUFFICES ASSUME component = "key", K!Init
             PROVE  KeyTypes /\ Timely /\ KeyRest
  BY DEF Init, KeyInv, KeyRest
<1>1. K!Waiting = <<>> /\ Len(K!Waiting) = 0
  BY ConcatEmptySeq, EmptySeq DEF K!Init, K!Waiting
<1>2. KeyTypes
  BY DEF K!Init, KeyTypes, OwingTypes, KeyState, K!None, States
<1>3. Timely
  BY <1>1 DEF K!Init, Timely, InOrderOwing, K!None
<1>4. KeyRest
  BY <1>1 DEF K!Init, KeyRest, Pressed, AfterRelease, K!LatchIsNoTap, K!PressInWindowContinues,
              K!None, K!IsRecording, K!Idle, K!Nothing, K!Discard, K!StartCommand
<1> QED BY <1>2, <1>3, <1>4

(* A step that leaves the machine alone. *)
LEMMA KeyQuiet ==
  ASSUME KeyTypes, Timely, KeyRest, KeyTypes', now <= now', RequestsMove,
         setup' = setup, extras' \subseteq extras,
         Unpreempted' /\ stamped = {} => stamped' = {},
         state' = state, last' = last, released' = released
  PROVE  KeyRest' /\ InOrderOwing'
<1>1. InOrderOwing' /\ \A t \in Nat : Passed(t) => Passed(t)'
  BY OwingMoves DEF KeyTypes, OwingTypes, Timely
<1>2. OwingTypes' => PassedEarlier'
  BY OwingPasses, PTL
<1> QED BY <1>1, <1>2, RestStays DEF Onward, PassedEarlier, KeyTypes

LEMMA KeyTimes ==
  ASSUME KeyTypes
  PROVE  /\ RepeatDelay \in Nat /\ RepeatInterval \in Nat
         /\ setup.bindings \subseteq {"start", "toggle"}
         /\ {"start", "toggle", "stop", "cancel"} \subseteq K!Requests
         /\ K!Waiting \in Seq(Stamped)
BY RequestsAssumption, Received
DEF RequestsAssumption, K!KeyboardAssumption, KeyTypes, OwingTypes, K!Requests

LEMMA StepKeyboard ==
  ASSUME KeyTypes, Timely, KeyRest, K!Keyboard
  PROVE  KeyTypes' /\ Timely' /\ KeyRest'
<1>0. /\ now \in Nat /\ key \in KeyState /\ clients \subseteq K!Client
      /\ K!Waiting' = K!Waiting
      /\ stamped' = stamped /\ early' = early /\ channel' = channel /\ read' = read
      /\ setup' = setup /\ state' = state /\ last' = last /\ released' = released
  BY DEF KeyTypes, OwingTypes, K!Keyboard, K!Press, K!Shift, K!Repeat, K!Release, K!CancelBinding,
         K!Tick, K!control, K!loop, K!machine, K!Waiting
<1>1. now' \in Nat /\ now <= now' /\ extras' \subseteq extras
  BY <1>0 DEF K!Keyboard, K!Press, K!Shift, K!Repeat, K!Release, K!CancelBinding, K!Tick
<1>2. ASSUME NEW request \in K!Requests, NEW origin \in K!Origins
      PROVE  K!Spawned(request, origin) \in K!Client
  BY <1>0 DEF K!Spawned, K!Client
<1>3. {"press", "repeat", "release", "other"} \subseteq K!Origins
  BY DEF K!Origins
<1>4. key' \in KeyState /\ clients' \subseteq K!Client
  <2>1. ASSUME NEW b \in setup.bindings, K!Press(b) PROVE key' \in KeyState /\ clients' \subseteq K!Client
    BY <1>0, <1>2, <1>3, <2>1, KeyTimes DEF K!Press, KeyState
  <2>2. CASE K!Shift
    BY <1>0, <2>2 DEF K!Shift, KeyState
  <2>3. CASE K!Repeat
    <3>1. key.binding \in K!Requests
      BY <1>0, KeyTimes DEF KeyState
    <3> QED BY <1>0, <1>2, <1>3, <2>3, <3>1, KeyTimes DEF K!Repeat, KeyState
  <2>4. CASE K!Release
    BY <1>0, <1>2, <1>3, <2>4, KeyTimes DEF K!Release, KeyState
  <2>5. CASE K!CancelBinding
    BY <1>0, <1>2, <1>3, <2>5, KeyTimes DEF K!CancelBinding
  <2>6. CASE K!Tick
    BY <1>0, <2>6 DEF K!Tick, K!keyboard
  <2> QED BY <2>1, <2>2, <2>3, <2>4, <2>5, <2>6 DEF K!Keyboard
<1>5. KeyTypes'
  BY <1>0, <1>1, <1>4 DEF KeyTypes, OwingTypes
<1>6. KeyRest' /\ InOrderOwing'
  BY <1>0, <1>1, <1>5, KeyQuiet DEF RequestsMove
<1>7. Timely'
  BY <1>0, <1>1, <1>6 DEF Timely, KeyTypes
<1> QED BY <1>5, <1>6, <1>7

(* The control thread stamps a request, which it queues or keeps, or queues the
   one it kept. *)
Stamps(r) ==
  /\ \/ stamped = {} /\ stamped' \in {{}, {r}} /\ r.at = now
     \/ r \in stamped /\ stamped' = {}
  /\ channel' = IF stamped' = {} THEN Append(channel, r) ELSE channel
  /\ clients' \subseteq K!Client /\ extras' \subseteq extras
  /\ stamped' # {} => "preempted" \in extras /\ extras' = extras \ {"preempted"}

LEMMA StepControlThread ==
  ASSUME KeyTypes, Timely, KeyRest, K!ControlThread
  PROVE  KeyTypes' /\ Timely' /\ KeyRest'
<1>0. /\ early \in Seq(Stamped) /\ channel \in Seq(Stamped) /\ now \in Nat
      /\ early' = early /\ read' = read /\ now' = now /\ key' = key
      /\ setup' = setup /\ state' = state /\ last' = last /\ released' = released
      /\ clients \subseteq K!Client /\ stamped \subseteq Stamped
  BY DEF KeyTypes, OwingTypes, K!ControlThread, K!Answer, K!Send, K!keyboard, K!loop, K!machine
<1>1. ASSUME NEW r \in Stamped, channel' = Append(channel, r)
      PROVE  channel' \in Seq(Stamped) /\ K!Waiting' = Append(K!Waiting, r)
  <2>1. <<r>> \in Seq(Stamped) /\ channel' = channel \o <<r>> /\ channel' \in Seq(Stamped)
    BY <1>0, <1>1, AppendProperties, AppendIsConcat
  <2>2. K!Waiting' = (early \o channel) \o <<r>>
    BY <1>0, <2>1, ConcatAssociative DEF K!Waiting
  <2>3. early \o channel \in Seq(Stamped)
    BY <1>0, ConcatProperties
  <2> QED BY <2>1, <2>2, <2>3, AppendIsConcat DEF K!Waiting
<1>2. PICK r \in Stamped : Stamps(r)
  <2>1. ASSUME NEW c \in clients, K!Answer(c) PROVE \E r \in Stamped : Stamps(r)
    <3> DEFINE r == K!Stamp(c)
    <3>1. r \in Stamped /\ r.at = now
      BY <1>0 DEF K!Stamp, Stamped, K!Client
    <3>2. stamped = {} /\ clients' = clients \ {c}
      BY <2>1 DEF K!Answer, K!None
    <3>3. \/ channel' = Append(channel, r) /\ stamped' = stamped /\ extras' = extras
          \/ /\ "preempted" \in extras /\ extras' = extras \ {"preempted"}
             /\ stamped' = {r} /\ channel' = channel
      BY <2>1 DEF K!Answer
    <3> HIDE DEF r
    <3>4. Stamps(r)
      BY <1>0, <3>1, <3>2, <3>3 DEF Stamps
    <3> QED BY <3>1, <3>4
  <2>2. ASSUME K!Send PROVE \E r \in Stamped : Stamps(r)
    <3>1. PICK r \in stamped : channel' = Append(channel, r)
      BY <2>2 DEF K!Send
    <3>2. stamped' = {} /\ clients' = clients /\ extras' = extras
      BY <2>2 DEF K!Send, K!None, K!keyboard
    <3>3. Stamps(r)
      BY <1>0, <3>1, <3>2 DEF Stamps
    <3> QED BY <1>0, <3>1, <3>3
  <2> QED BY <2>1, <2>2 DEF K!ControlThread
<1>3. channel' \in Seq(Stamped) /\ RequestsMove
  <2>1. CASE stamped' = {}
    <3>1. channel' \in Seq(Stamped) /\ K!Waiting' = Append(K!Waiting, r)
      BY <1>1, <1>2, <2>1 DEF Stamps
    <3> QED BY <1>2, <2>1, <3>1 DEF RequestsMove, Stamps
  <2>2. CASE stamped' # {}
    <3>1. channel' = channel /\ K!Waiting' = K!Waiting
      BY <1>0, <1>2, <2>2 DEF Stamps, K!Waiting
    <3> QED BY <1>0, <1>2, <2>2, <3>1 DEF RequestsMove, Stamps
  <2> QED BY <2>1, <2>2
<1>4. KeyTypes'
  <2>1. stamped' \subseteq Stamped
    BY <1>0, <1>2 DEF Stamps
  <2> QED BY <1>0, <1>2, <1>3, <2>1 DEF KeyTypes, OwingTypes, Stamps
<1>5. Unpreempted' /\ stamped = {} => stamped' = {}
  BY <1>0, <1>2 DEF Unpreempted, KeyRest, AfterRelease, Stamps
<1>6. KeyRest' /\ InOrderOwing'
  BY <1>0, <1>2, <1>3, <1>4, <1>5, KeyQuiet DEF Stamps
<1>7. Timely'
  BY <1>0, <1>6 DEF Timely
<1> QED BY <1>4, <1>6, <1>7

(* The stamp of the first request that waits: nothing owing is earlier. *)
LEMMA HeadPasses ==
  ASSUME KeyTypes, Timely, K!Waiting # <<>>
  PROVE  /\ Head(K!Waiting) \in Stamped /\ Head(K!Waiting).at \in Nat
         /\ Passed(Head(K!Waiting).at)
         /\ \A t \in Nat : Passed(t) => t <= Head(K!Waiting).at
<1>1. K!Waiting \in Seq(Stamped) /\ \A r \in stamped : r.at \in Nat
  BY OwingTyped DEF KeyTypes
<1>2. Head(K!Waiting) = K!Waiting[1] /\ 1 \in 1..Len(K!Waiting) /\ Head(K!Waiting) \in Stamped
  BY <1>1, HeadTailProperties, EmptySeq
<1>3. Head(K!Waiting).at \in Nat
  BY <1>2 DEF Stamped
<1>4. \A i \in 1..Len(K!Waiting) : K!Waiting[1].at <= K!Waiting[i].at
  <2> SUFFICES ASSUME NEW i \in 1..Len(K!Waiting) PROVE K!Waiting[1].at <= K!Waiting[i].at
    OBVIOUS
  <2>1. CASE i = 1
    BY <1>2, <1>3, <2>1
  <2>2. CASE 1 < i
    BY <1>2, <2>2 DEF Timely, InOrderOwing
  <2> QED BY <2>1, <2>2
<1>5. Passed(Head(K!Waiting).at)
  BY <1>2, <1>4 DEF Passed, Timely, InOrderOwing
<1>6. \A t \in Nat : Passed(t) => t <= Head(K!Waiting).at
  BY <1>2 DEF Passed
<1> QED BY <1>2, <1>3, <1>5, <1>6

(* What the loop leaves alone in every step of it that reaches the machine. *)
LoopKeeps ==
  /\ stamped' = stamped /\ now' = now /\ clients' = clients /\ key' = key /\ setup' = setup
  /\ extras' \subseteq extras /\ read' = {}
  /\ early' \in Seq(Stamped) /\ channel' \in Seq(Stamped)

LEMMA LoopGoesOn ==
  ASSUME KeyTypes, Timely, KeyRest, LoopKeeps, RequestsMove
  PROVE  Onward /\ Timely' /\ OwingTypes'
<1>1. OwingTypes' /\ OwingTypes /\ now \in Nat
  BY DEF KeyTypes, OwingTypes, LoopKeeps
<1>2. InOrderOwing' /\ \A t \in Nat : Passed(t) => Passed(t)'
  BY <1>1, OwingMoves DEF LoopKeeps, Timely
<1>3. OwingTypes' => PassedEarlier'
  BY OwingPasses, PTL
<1> QED BY <1>1, <1>2, <1>3 DEF Onward, PassedEarlier, Timely, LoopKeeps

(* The machine steps on anything but a request: the clock, at a time nothing
   owing is earlier than, or what comes between two drains. *)
LEMMA KeyLeft ==
  ASSUME KeyTypes, Timely, KeyRest, LoopKeeps, K!Waiting' = K!Waiting,
         NEW event, NEW origin, NEW at \in Nat, NEW result,
         K!Took(event, origin, at, result), Leaves(state, result),
         event = "clock" /\ Unpreempted => Passed(at)
  PROVE  KeyTypes' /\ Timely' /\ KeyRest'
<1>1. RequestsMove
  BY DEF RequestsMove, LoopKeeps
<1>2. Onward /\ Timely' /\ OwingTypes'
  BY <1>1, LoopGoesOn
<1>3. event = "clock" /\ Unpreempted => Passed(at)'
  BY <1>2 DEF Onward
<1>4. KeyRest' /\ state' \in States /\ released' \subseteq Nat
  BY <1>2, <1>3, RestLeft
<1> QED BY <1>2, <1>4 DEF KeyTypes, LoopKeeps

LEMMA StepClock ==
  ASSUME KeyTypes, Timely, KeyRest, K!ClockAtHead \/ K!ClockAtNow
  PROVE  KeyTypes' /\ Timely' /\ KeyRest'
<1>0. early \in Seq(Stamped) /\ channel \in Seq(Stamped) /\ state \in States /\ read \subseteq Nat
  BY DEF KeyTypes, OwingTypes
<1>1. ASSUME NEW at \in Nat PROVE Leaves(state, K!OnClock(state, at, setup.silence))
  BY <1>0, LeavesCapture
<1>2. ASSUME K!Waiting # <<>>, read' = {},
             early' = K!Receive[1], channel' = K!Receive[2],
             stamped' = stamped, now' = now, clients' = clients, key' = key, setup' = setup,
             extras' = extras,
             K!Took("clock", "other", Head(K!Waiting).at,
                    K!OnClock(state, Head(K!Waiting).at, setup.silence))
      PROVE  KeyTypes' /\ Timely' /\ KeyRest'
  <2>1. LoopKeeps /\ K!Waiting' = K!Waiting
    <3>1. K!Receive[1] \in Seq(Stamped) /\ K!Receive[2] \in Seq(Stamped)
          /\ K!Receive[1] \o K!Receive[2] = K!Waiting
      BY <1>0, Received
    <3>2. K!Waiting' = early' \o channel'
      BY DEF K!Waiting
    <3> QED BY <1>2, <3>1, <3>2 DEF LoopKeeps
  <2>2. Head(K!Waiting).at \in Nat /\ Passed(Head(K!Waiting).at)
    BY <1>2, HeadPasses
  <2>3. Leaves(state, K!OnClock(state, Head(K!Waiting).at, setup.silence))
    BY <1>1, <2>2
  <2> QED BY <1>2, <2>1, <2>2, <2>3, KeyLeft
<1>3. CASE K!ClockAtHead
  <2>1. /\ K!Waiting # <<>> /\ read' = {} /\ early' = K!Receive[1] /\ channel' = K!Receive[2]
        /\ stamped' = stamped /\ now' = now /\ clients' = clients /\ key' = key /\ setup' = setup
        /\ extras' = extras
        /\ K!Took("clock", "other", Head(K!Waiting).at,
                  K!OnClock(state, Head(K!Waiting).at, setup.silence))
    BY <1>3 DEF K!ClockAtHead, K!None, K!keyboard
  <2> QED BY <1>2, <2>1
<1>4. CASE K!ClockAtNow
  <2>1. PICK at \in read :
          IF channel # <<>>
            THEN /\ early' = <<Head(channel)>> /\ channel' = Tail(channel)
                 /\ K!Took("clock", "other", Head(channel).at,
                           K!OnClock(state, Head(channel).at, setup.silence))
            ELSE /\ K!Took("clock", "other", at, K!OnClock(state, at, setup.silence))
                 /\ early' = early /\ channel' = channel
    BY <1>4 DEF K!ClockAtNow
  <2>2. /\ stamped' = stamped /\ now' = now /\ clients' = clients /\ key' = key /\ setup' = setup
        /\ extras' = extras /\ read' = {}
    BY <1>4 DEF K!ClockAtNow, K!None, K!keyboard
  <2>3. early = <<>> /\ K!Waiting = channel /\ at \in Nat /\ at <= now
    <3>1. early = <<>> /\ at \in Nat /\ at <= now
      BY <1>0, <2>1 DEF Timely
    <3> QED BY <1>0, <3>1, ConcatEmptySeq DEF K!Waiting
  <2>4. CASE channel # <<>>
    <3>1. /\ K!Waiting # <<>> /\ early' = K!Receive[1] /\ channel' = K!Receive[2]
          /\ K!Took("clock", "other", Head(K!Waiting).at,
                    K!OnClock(state, Head(K!Waiting).at, setup.silence))
      BY <2>1, <2>3, <2>4 DEF K!Receive
    <3> QED BY <1>2, <2>2, <3>1
  <2>5. CASE channel = <<>>
    <3>1. LoopKeeps /\ K!Waiting' = K!Waiting
      BY <1>0, <2>1, <2>2, <2>5 DEF LoopKeeps, K!Waiting
    <3>2. Unpreempted => Passed(at)
      <4>1. Len(K!Waiting) = 0
        BY <2>3, <2>5, EmptySeq
      <4> QED BY <2>3, <4>1 DEF Passed, KeyRest, AfterRelease
    <3>3. Leaves(state, K!OnClock(state, at, setup.silence))
      BY <1>1, <2>3
    <3>4. K!Took("clock", "other", at, K!OnClock(state, at, setup.silence))
      BY <2>1, <2>5
    <3> QED BY <2>3, <3>1, <3>2, <3>3, <3>4, KeyLeft
  <2> QED BY <2>4, <2>5
<1> QED BY <1>3, <1>4

LEMMA StepTakeRequest ==
  ASSUME KeyTypes, Timely, KeyRest, K!TakeRequest
  PROVE  KeyTypes' /\ Timely' /\ KeyRest'
<1> DEFINE r == Head(K!Waiting)
<1>0. early \in Seq(Stamped) /\ channel \in Seq(Stamped)
  BY DEF KeyTypes, OwingTypes
<1>1. /\ K!Waiting # <<>> /\ read' = {} /\ early' = Tail(K!Receive[1]) /\ channel' = K!Receive[2]
      /\ stamped' = stamped /\ now' = now /\ clients' = clients /\ key' = key /\ setup' = setup
      /\ extras' = extras
      /\ K!Took(r.request, r.origin, r.at, K!OnRequest(state, r.request, r.at))
  BY DEF K!TakeRequest, K!None, K!keyboard
<1>2. /\ r \in Stamped /\ r.at \in Nat /\ Passed(r.at)
      /\ \A t \in Nat : Passed(t) => t <= r.at
  BY <1>1, HeadPasses
<1>3. LoopKeeps /\ K!Waiting' = Tail(K!Waiting)
  <2>1. /\ Tail(K!Receive[1]) \in Seq(Stamped) /\ K!Receive[2] \in Seq(Stamped)
        /\ Tail(K!Receive[1]) \o K!Receive[2] = Tail(K!Waiting)
    BY <1>0, <1>1, Received
  <2>2. K!Waiting' = early' \o channel'
    BY DEF K!Waiting
  <2> QED BY <1>1, <2>1, <2>2 DEF LoopKeeps
<1> HIDE DEF r
<1>4. RequestsMove
  BY <1>1, <1>3 DEF RequestsMove
<1>5. Onward /\ Timely' /\ OwingTypes'
  BY <1>3, <1>4, LoopGoesOn
<1>6. PICK request \in K!Requests, origin \in K!Origins, at \in Nat :
        /\ request = r.request /\ origin = r.origin /\ at = r.at
  BY <1>2 DEF Stamped
<1>7. /\ K!Took(request, origin, at, K!OnRequest(state, request, at))
      /\ Passed(at)' /\ \A t \in Nat : Passed(t) => t <= at
  BY <1>1, <1>2, <1>5, <1>6 DEF Onward
<1>8. KeyRest' /\ state' \in States /\ released' \subseteq Nat
  BY <1>5, <1>7, RestTaken DEF Timely
<1> QED BY <1>3, <1>5, <1>8 DEF KeyTypes, LoopKeeps

(* What comes between two drains, and a step of the loop that reaches nobody. *)
LEMMA StepBetween ==
  ASSUME KeyTypes, Timely, KeyRest,
         K!Speech \/ K!Ceiling \/ K!Finished \/ \E at \in 0..now : K!WindowClosed(at)
  PROVE  KeyTypes' /\ Timely' /\ KeyRest'
<1>0. now \in Nat /\ state \in States
  BY DEF KeyTypes, OwingTypes
<1>1. LoopKeeps /\ K!Waiting' = K!Waiting
  BY DEF K!Speech, K!Ceiling, K!Finished, K!WindowClosed, K!Between, K!None, K!keyboard, K!control,
         K!loop, K!Waiting, LoopKeeps, KeyTypes, OwingTypes
<1>2. ASSUME NEW at \in Nat
      PROVE  /\ Leaves(state, K!OnSpeech(state, at)) /\ Leaves(state, K!OnExhausted(state, at))
             /\ Leaves(state, K!OnWindowClosed(state, at)) /\ Leaves(state, K!OnFinished(state))
  BY <1>0, LeavesCapture
<1>3. PICK event \in {"speech", "exhausted", "finished", "closed"}, at \in Nat :
        \E result : K!Took(event, "other", at, result) /\ Leaves(state, result)
  BY <1>0, <1>2 DEF K!Speech, K!Ceiling, K!Finished, K!WindowClosed
<1>4. PICK result : K!Took(event, "other", at, result) /\ Leaves(state, result)
  BY <1>3
<1> QED BY <1>1, <1>4, KeyLeft

LEMMA StepIdle ==
  ASSUME KeyTypes, Timely, KeyRest, K!ReadClock \/ K!EndDrain \/ K!Gather
  PROVE  KeyTypes' /\ Timely' /\ KeyRest'
<1>0. early \in Seq(Stamped) /\ channel \in Seq(Stamped) /\ now \in Nat
  BY DEF KeyTypes, OwingTypes
<1>1. /\ stamped' = stamped /\ now' = now /\ clients' = clients /\ key' = key /\ setup' = setup
      /\ extras' = extras /\ state' = state /\ last' = last /\ released' = released
  BY DEF K!ReadClock, K!EndDrain, K!Gather, K!keyboard, K!control, K!machine
<1>2. early' \in Seq(Stamped) /\ channel' \in Seq(Stamped) /\ K!Waiting' = K!Waiting
  <2>1. CASE K!Gather
    <3>1. early' = early \o channel /\ channel' = <<>>
      BY <2>1 DEF K!Gather
    <3>2. early \o channel \in Seq(Stamped)
      BY <1>0, ConcatProperties
    <3> QED BY <3>1, <3>2, ConcatEmptySeq DEF K!Waiting
  <2>2. CASE K!ReadClock \/ K!EndDrain
    BY <1>0, <2>2 DEF K!ReadClock, K!EndDrain, K!control, K!Waiting
  <2> QED BY <2>1, <2>2
<1>3. read' \subseteq Nat /\ (\A t \in read' : t <= now) /\ (read' # {} => early' = <<>>)
  <2>1. CASE K!ReadClock
    <3>1. read' = {now} /\ early' = <<>>
      BY <2>1 DEF K!ReadClock, K!control
    <3> QED BY <1>0, <3>1
  <2>2. CASE K!EndDrain \/ K!Gather
    <3>1. read' = {}
      BY <2>2 DEF K!EndDrain, K!Gather, K!None
    <3> QED BY <3>1
  <2> QED BY <2>1, <2>2
<1>4. KeyTypes'
  BY <1>0, <1>1, <1>2, <1>3 DEF KeyTypes, OwingTypes
<1>5. KeyRest' /\ InOrderOwing'
  <2>1. RequestsMove
    BY <1>1, <1>2 DEF RequestsMove
  <2> QED BY <1>0, <1>1, <1>4, <2>1, KeyQuiet
<1> QED BY <1>1, <1>3, <1>4, <1>5 DEF Timely

LEMMA StepKey == KeyInv /\ [Next]_vars => KeyInv'
<1> SUFFICES ASSUME KeyInv, [Next]_vars, component' = "key" PROVE KeyInv'
  BY DEF KeyInv
<1>1. CASE UNCHANGED vars
  <2>1. component = "key" /\ UNCHANGED keyVars
    BY <1>1 DEF vars
  <2>2. KeyTypes' /\ Timely' /\ KeyRest'
    BY <2>1
    DEF keyVars, KeyInv, KeyTypes, OwingTypes, Timely, InOrderOwing, KeyRest, Pressed, Passed,
        AfterRelease, Unpreempted, K!Waiting, K!LatchIsNoTap, K!PressInWindowContinues
  <2> QED BY <2>2 DEF KeyInv, KeyRest
<1>2. CASE component = "key" /\ K!Next
  <2>1. KeyTypes /\ Timely /\ KeyRest
    BY <1>2 DEF KeyInv, KeyRest
  <2>2. KeyTypes' /\ Timely' /\ KeyRest'
    BY <1>2, <2>1, StepKeyboard, StepControlThread, StepClock, StepTakeRequest, StepBetween, StepIdle
    DEF K!Next, K!Loop
  <2> QED BY <2>2 DEF KeyInv, KeyRest
<1> QED BY <1>1, <1>2 DEF Next

(* A press stamped within the repeat window of a release continues the capture
   (shell/daemon/requests.rs, Requests::next): whatever the keyboard sends and
   however late the loop is, the clock passes no release's window before a
   request stamped in it was taken, unless the control thread was preempted
   with a stamped request. *)
THEOREM PressContinues == Spec => []PressInWindowContinues
<1>1. KeyInv => PressInWindowContinues
  BY DEF KeyInv, PressInWindowContinues
<1> QED BY <1>1, InitKey, StepKey, PTL DEF Spec

(* A latched capture that the key ends is never thrown away as a tap
   (core/state.rs, end and OnPressWhileLatched): what ends it comes later than
   the repeat window after a press that is no earlier than the capture. *)
THEOREM LatchIsKept == Spec => [](component = "key" => K!LatchIsNoTap)
<1>1. KeyInv => (component = "key" => K!LatchIsNoTap)
  BY DEF KeyInv
<1> QED BY <1>1, InitKey, StepKey, PTL DEF Spec
=============================================================================
