------------------------------- MODULE Control -------------------------------
(***************************************************************************)
(* How presses reach a daemon: the clients that key bindings run, the      *)
(* control socket, which systemd's unit or a daemon holds, and the daemons *)
(* that take the per-user lock and serve it (shell/control.rs,             *)
(* shell/daemon/lock.rs, `run` in shell/daemon/mod.rs).                    *)
(*                                                                         *)
(* A listener is the unit's or a daemon's own; `path` names the listener   *)
(* the socket file leads to, alive or not.  A client whose process gave up *)
(* has left its line in the connection, which a server may still read.     *)
(***************************************************************************)
EXTENDS Integers, Sequences, SequencesExt, FiniteSets

CONSTANTS
  Starts, Stops,  \* clients that send a request that may begin a capture, and others
  MaxDaemons,     \* bound: daemons started
  Activations,    \* the unit's start limit
  MaxEnds         \* bound: daemons told to stop, or killed

Clients == Starts \cup Stops
Daemons == 1..MaxDaemons
Nobody == "nobody"
Unit == 0
None == -1
Listeners == {Unit} \cup Daemons

ControlAssumption ==
  /\ Starts \cap Stops = {} /\ Nobody \notin Clients
  /\ MaxDaemons \in Nat /\ Activations \in Nat /\ MaxEnds \in Nat

VARIABLES
  client,  \* each client
  unit,    \* spokenpad.socket: "inactive", "listening", "failed"
  path,    \* what the socket file leads to
  queue,   \* of each listener: connections not accepted yet
  lock,    \* the daemon that holds the lock
  daemon,  \* each daemon
  taken,   \* how often each client's request was forwarded
  ends,    \* daemons told to stop or killed
  robbed   \* whether a daemon removed the socket file of the unit that listens

vars == <<client, unit, path, queue, lock, daemon, taken, ends, robbed>>

NoDaemon == [st |-> "none", unit |-> FALSE, with |-> Nobody, told |-> FALSE]

Init ==
  /\ client = [c \in Clients |-> [at |-> "idle", to |-> None, reply |-> "none"]]
  /\ unit \in {"inactive", "listening"}
  /\ path = IF unit = "listening" THEN Unit ELSE None
  /\ queue = [l \in Listeners |-> <<>>]
  /\ lock = None
  /\ daemon = [d \in Daemons |-> NoDaemon]
  /\ taken = [c \in Clients |-> 0]
  /\ ends = 0
  /\ robbed = FALSE

Running(d) == daemon[d].st \notin {"none", "ended"}
(* The states in which a daemon's own socket is open. *)
Open == {"serving", "answering", "finishing"}
Listens(l) ==
  IF l = Unit THEN unit = "listening" ELSE l \in Daemons /\ daemon[l].st \in Open /\ ~daemon[l].unit
Reached == IF path # None /\ Listens(path) THEN path ELSE None

Fresh == {d \in Daemons : daemon[d].st = "none"}
Next1 == CHOOSE d \in Fresh : \A e \in Fresh : d <= e

Replied(c, reply) ==
  IF c \in Clients /\ client[c].at = "waiting"
    THEN [client EXCEPT ![c].reply = reply] ELSE client

-----------------------------------------------------------------------------
(* A client: `send_recovering`, `send_once` and `exchange`. *)

Presses(c) ==
  /\ client[c].at = "idle"
  /\ client' = [client EXCEPT ![c].at = "connect"]
  /\ UNCHANGED <<unit, path, queue, lock, daemon, taken, ends, robbed>>

Connects(c) ==
  /\ client[c].at \in {"connect", "again"} /\ Reached # None
  /\ client' = [client EXCEPT ![c].at = "waiting", ![c].to = Reached]
  /\ queue' = [queue EXCEPT ![Reached] = Append(@, c)]
  /\ UNCHANGED <<unit, path, lock, daemon, taken, ends, robbed>>

FindsNobody(c) ==
  /\ client[c].at \in {"connect", "again"} /\ Reached = None
  /\ client' = [client EXCEPT ![c].at =
                  IF client[c].at = "connect" /\ c \in Starts THEN "recover" ELSE "done"]
  /\ UNCHANGED <<unit, path, queue, lock, daemon, taken, ends, robbed>>

(* `systemctl --user start spokenpad.socket`: the unit replaces whatever socket
   file is there, or does not start (external: systemd). *)
StartsUnit(c) ==
  /\ client[c].at = "recover"
  /\ \/ /\ unit = "listening"
        /\ client' = [client EXCEPT ![c].at = "again"]
        /\ UNCHANGED <<unit, path, robbed>>
     \/ /\ unit # "listening"
        /\ unit' = "listening" /\ path' = Unit /\ robbed' = FALSE
        /\ client' = [client EXCEPT ![c].at = "again"]
     \/ /\ unit # "listening"
        /\ client' = [client EXCEPT ![c].at = "done"]
        /\ UNCHANGED <<unit, path, robbed>>
  /\ UNCHANGED <<queue, lock, daemon, taken, ends>>

(* A connection that failed after it was made, or was not answered in time. *)
(* Variant: the request is sent again. *)
SentAgain(c) == "connect"

GivenUp(c) == "done"

Fails(c) ==
  /\ client[c].at = "waiting" /\ client[c].reply = "none"
  /\ client' = [client EXCEPT ![c].at = GivenUp(c)]
  /\ UNCHANGED <<unit, path, queue, lock, daemon, taken, ends, robbed>>

HasReply(c) ==
  /\ client[c].at = "waiting" /\ client[c].reply # "none"
  /\ client' = [client EXCEPT ![c].at = "done"]
  /\ UNCHANGED <<unit, path, queue, lock, daemon, taken, ends, robbed>>

-----------------------------------------------------------------------------
(* systemd, as spokenpad.socket and spokenpad.service have it (external): a
   connection starts the service unless it runs; at its start limit the unit
   fails. *)
Activated == {d \in Daemons : daemon[d].unit}

Activates ==
  /\ unit = "listening" /\ queue[Unit] # <<>> /\ Fresh # {}
  /\ \A d \in Activated : ~Running(d)
  /\ IF Cardinality(Activated) < Activations
       THEN /\ daemon' = [daemon EXCEPT ![Next1] = [@ EXCEPT !.st = "waiting", !.unit = TRUE]]
            /\ UNCHANGED <<unit, queue>>
       ELSE /\ unit' = "failed" /\ queue' = [queue EXCEPT ![Unit] = <<>>]
            /\ UNCHANGED daemon
  /\ UNCHANGED <<client, path, lock, taken, ends, robbed>>

-----------------------------------------------------------------------------
(* A daemon started by hand: `daemon_lock`, then `Socket::bind`. *)

StartsByHand ==
  /\ Fresh # {}
  /\ daemon' = [daemon EXCEPT ![Next1].st = "locking"]
  /\ UNCHANGED <<client, unit, path, queue, lock, taken, ends, robbed>>

Locks(d) ==
  /\ daemon[d].st = "locking"
  /\ IF lock = None
       THEN lock' = d /\ daemon' = [daemon EXCEPT ![d].st = "probing"]
       ELSE daemon' = [daemon EXCEPT ![d].st = "ended"] /\ UNCHANGED lock
  /\ UNCHANGED <<client, unit, path, queue, taken, ends, robbed>>

Exits(d) == daemon' = [daemon EXCEPT ![d].st = "ended"] /\ lock' = None

(* Whatever listener the socket file leads to now loses it. *)
RemovesFile ==
  /\ path' = None
  /\ robbed' = (robbed \/ (path = Unit /\ unit = "listening"))

(* `remove_stale` looks for the file and connects to it, as any other
   connection does; a file nobody answers on is removed by the next step, and
   whoever bound the path in between loses it. *)
Probes(d) ==
  /\ daemon[d].st = "probing"
  /\ \/ /\ path = None
        /\ daemon' = [daemon EXCEPT ![d].st = "binding"]
        /\ UNCHANGED <<queue, lock>>
     \/ /\ path # None /\ Reached = None
        /\ daemon' = [daemon EXCEPT ![d].st = "removing"]
        /\ UNCHANGED <<queue, lock>>
     \/ /\ Reached # None
        /\ queue' = [queue EXCEPT ![Reached] = Append(@, Nobody)]
        /\ Exits(d)
  /\ UNCHANGED <<client, unit, path, taken, ends, robbed>>

RemovesStale(d) ==
  /\ daemon[d].st = "removing"
  /\ IF path = None
       THEN Exits(d) /\ UNCHANGED <<path, robbed>>
       ELSE /\ RemovesFile
            /\ daemon' = [daemon EXCEPT ![d].st = "binding"] /\ UNCHANGED lock
  /\ UNCHANGED <<client, unit, queue, taken, ends>>

Binds(d) ==
  /\ daemon[d].st = "binding"
  /\ IF path = None
       THEN path' = d /\ daemon' = [daemon EXCEPT ![d].st = "serving"] /\ UNCHANGED lock
       ELSE Exits(d) /\ UNCHANGED path
  /\ UNCHANGED <<client, unit, queue, taken, ends, robbed>>

(* A daemon systemd started: `lock_under_activation`, `refuse_until`.  The
   lock is tried before each press is answered. *)
Refuses(d) == daemon

Waits(d) ==
  /\ daemon[d].st = "waiting"
  /\ \/ /\ lock = None
        /\ lock' = d /\ daemon' = [daemon EXCEPT ![d].st = "serving"]
        /\ UNCHANGED <<client, queue>>
     \/ /\ lock # None /\ queue[Unit] # <<>>
        /\ client' = Replied(Head(queue[Unit]), "another daemon")
        /\ queue' = [queue EXCEPT ![Unit] = Tail(@)]
        /\ daemon' = Refuses(d)
        /\ UNCHANGED lock
     \/ /\ lock # None /\ queue[Unit] = <<>> /\ daemon[d].told
        /\ daemon' = [daemon EXCEPT ![d].st = "ended"]
        /\ UNCHANGED <<client, queue, lock>>
  /\ UNCHANGED <<unit, path, taken, ends, robbed>>

-----------------------------------------------------------------------------
(* `ControlServer`: the listener's thread, one connection at a time.  Once the
   loop returned, its receiver is gone. *)
ListenerOf(d) == IF daemon[d].unit THEN Unit ELSE d

Accepts(d) ==
  LET l == ListenerOf(d)
  IN  /\ daemon[d].st \in {"serving", "finishing"} /\ queue[l] # <<>>
      /\ queue' = [queue EXCEPT ![l] = Tail(@)]
      /\ IF Head(queue[l]) = Nobody \/ daemon[d].st = "finishing"
           THEN /\ client' = Replied(Head(queue[l]), "shutting down")
                /\ UNCHANGED <<daemon, taken>>
           ELSE /\ daemon' = [daemon EXCEPT ![d].st = "answering", ![d].with = Head(queue[l])]
                /\ taken' = [taken EXCEPT ![Head(queue[l])] = @ + 1]
                /\ UNCHANGED client
      /\ UNCHANGED <<unit, path, lock, ends, robbed>>

Acknowledges(d) ==
  /\ daemon[d].st = "answering"
  /\ client' = Replied(daemon[d].with, "accepted")
  /\ daemon' = [daemon EXCEPT ![d].st = "serving", ![d].with = Nobody]
  /\ UNCHANGED <<unit, path, queue, lock, taken, ends, robbed>>

(* `run` returns: the server is dropped, then the lock. *)
Returns(d) ==
  /\ daemon[d].st = "serving" /\ daemon[d].told
  /\ daemon' = [daemon EXCEPT ![d].st = "finishing"]
  /\ UNCHANGED <<client, unit, path, queue, lock, taken, ends, robbed>>

(* Variant: the lock goes before the server does. *)
LockFirst(d) == None

LockKept(d) == d

Joins(d) ==
  /\ daemon[d].st = "finishing"
  /\ daemon' = [daemon EXCEPT ![d].st = "joined"]
  /\ queue' = IF daemon[d].unit THEN queue ELSE [queue EXCEPT ![d] = <<>>]
  /\ lock' = LockKept(d)
  /\ UNCHANGED <<client, unit, path, taken, ends, robbed>>

(* A path this process bound is removed, whoever has bound it since. *)
RemovesPath(d) ==
  /\ daemon[d].st = "joined"
  /\ daemon' = [daemon EXCEPT ![d].st = "unlocking"]
  /\ IF daemon[d].unit THEN UNCHANGED <<path, robbed>> ELSE RemovesFile
  /\ UNCHANGED <<client, unit, queue, lock, taken, ends>>

Unlocks(d) ==
  /\ daemon[d].st = "unlocking"
  /\ daemon' = [daemon EXCEPT ![d].st = "ended"]
  /\ lock' = IF lock = d THEN None ELSE lock
  /\ UNCHANGED <<client, unit, path, queue, taken, ends, robbed>>

IsTold(d) ==
  /\ daemon[d].st \in {"serving", "waiting"} /\ ~daemon[d].told /\ ends < MaxEnds
  /\ daemon' = [daemon EXCEPT ![d].told = TRUE] /\ ends' = ends + 1
  /\ UNCHANGED <<client, unit, path, queue, lock, taken, robbed>>

(* The socket file stays, the daemon's own queue and its lock go. *)
IsKilled(d) ==
  /\ Running(d) /\ ends < MaxEnds
  /\ daemon' = [daemon EXCEPT ![d] = [@ EXCEPT !.st = "ended", !.told = TRUE]]
  /\ ends' = ends + 1
  /\ lock' = IF lock = d THEN None ELSE lock
  /\ queue' = [queue EXCEPT ![d] = <<>>]
  /\ UNCHANGED <<client, unit, path, taken, robbed>>

Client(c) ==
  Presses(c) \/ Connects(c) \/ FindsNobody(c) \/ StartsUnit(c) \/ Fails(c) \/ HasReply(c)

Daemon(d) ==
  \/ Locks(d) \/ Probes(d) \/ RemovesStale(d) \/ Binds(d) \/ Waits(d) \/ Accepts(d)
  \/ Acknowledges(d) \/ Returns(d) \/ Joins(d) \/ RemovesPath(d) \/ Unlocks(d) \/ IsTold(d) \/ IsKilled(d)

Next ==
  \/ \E c \in Clients : Client(c)
  \/ Activates \/ StartsByHand
  \/ \E d \in Daemons : Daemon(d)

Spec == Init /\ [][Next]_vars

-----------------------------------------------------------------------------
(* A press reaches a loop at most once, however it was answered, and one that
   was told so did (`answer`, `send_recovering`). *)
OncePerPress ==
  \A c \in Clients :
    taken[c] \in (IF client[c].reply = "accepted" THEN {1} ELSE {0, 1})

(* A daemon that serves can be reached: the socket file leads to its listener,
   or to the unit, which keeps the presses it cannot take.  One the unit started
   is not reached once a daemon started by hand removed the file of the unit that
   listens, between the refused connection and the removal in `remove_stale`, or
   for its own in `Drop for ControlServer`; one started by hand always is. *)
ServedWhereConnected ==
  \A d \in Daemons :
    daemon[d].st \in Open =>
      path \in {ListenerOf(d), Unit} \/ (daemon[d].unit /\ robbed)

(* The unit fails over no press: the service starts again only after it was
   stopped or killed, never because another daemon has the lock
   (`lock_under_activation`, `refuse_until`). *)
UnitSurvives ==
  unit = "failed" => \A d \in Activated : daemon[d].told
=============================================================================
