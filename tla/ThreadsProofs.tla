---------------------------- MODULE ThreadsProofs ----------------------------
(***************************************************************************)
(* Proofs about what runs beside the event loop (MCThreads), for every     *)
(* value of the constants of the model files (ModelFiles): whatever        *)
(* daemons and commands overlap, whoever of them is killed and whatever    *)
(* the mirror sends, only verified bytes come to a model file's name.      *)
(***************************************************************************)
EXTENDS MCThreads, SequenceTheorems, TLAPS

-----------------------------------------------------------------------------
(* ModelFiles.  A process between taking the lock and giving it back holds it,
   so a `.part` is the work of one process: what it has of the body, and the
   pinned bytes by the time it renames. *)

Blocks == {"right", "wrong"}
Held == {"checking", "requesting", "body", "renaming"}
AtFile == {"requesting", "body", "renaming"}
Stages == {"off", "sizes", "locking", "loading", "serving", "unavailable"} \cup Held
Goals == {"none", "ensure", "repair", "fetch"}
Process == [pc : Stages, goal : Goals, at : Nat, got : Seq(Blocks), fetched : BOOLEAN,
            why : {"none", "cannot load", "download", "still"}]

FilesTypes ==
  /\ proc \in [F!Procs -> Process]
  /\ DOMAIN disk = 1..Files /\ DOMAIN part = 1..Files
  /\ \A p \in F!Procs : proc[p].pc # "off" => proc[p].goal # "none"

HolderHasIt == \A p \in F!Procs : proc[p].pc \in Held => lock = p

PartIsWhole ==
  \A p \in F!Procs :
    /\ proc[p].pc = "checking" => proc[p].at # 0
    /\ proc[p].pc \in AtFile => proc[p].at \in 1..Files
    /\ proc[p].pc = "body" => part[proc[p].at] = proc[p].got
    /\ proc[p].pc = "renaming" => part[proc[p].at] = F!Good

FilesInv == component = "files" => FilesTypes /\ HolderHasIt /\ PartIsWhole

LEMMA InitFiles == Init => FilesInv
<1> SUFFICES ASSUME component = "files", F!Init PROVE FilesTypes /\ HolderHasIt /\ PartIsWhole
  BY DEF Init, FilesInv
<1>1. F!Off \in Process /\ F!Off.pc = "off"
  BY DEF F!Off, Process, Stages, Goals
<1>2. proc = [p \in F!Procs |-> F!Off] /\ DOMAIN disk = 1..Files /\ DOMAIN part = 1..Files
  BY DEF F!Init
<1>3. \A p \in F!Procs : proc[p] = F!Off
  BY <1>2
<1> QED BY <1>1, <1>2, <1>3 DEF FilesTypes, HolderHasIt, PartIsWhole, Held, AtFile

(* A block is written after those before it, which are all there. *)
LEMMA WrittenIsAppended ==
  ASSUME NEW got \in Seq(Blocks), NEW block \in Blocks
  PROVE  F!WrittenAt(got, Len(Append(got, block)), block) = Append(got, block)
<1>1. got # F!Absent
  <2>1. F!Absent[1] = "absent" /\ 1 \in DOMAIN F!Absent
    BY DEF F!Absent
  <2>2. \A i \in DOMAIN got : got[i] # "absent"
    BY DEF Blocks
  <2> QED BY <2>1, <2>2
<1>2. Len(Append(got, block)) = Len(got) + 1 /\ Len(got) \in Nat
  OBVIOUS
<1>3. F!WrittenAt(got, Len(got) + 1, block) =
        [k \in 1..(Len(got) + 1) |-> IF k = Len(got) + 1 THEN block
                                     ELSE IF k <= Len(got) THEN got[k] ELSE "hole"]
  BY <1>1, <1>2 DEF F!WrittenAt
<1> DEFINE longer == Append(got, block)
<1>4. /\ longer \in Seq(Blocks) /\ DOMAIN longer = 1..(Len(got) + 1)
      /\ \A k \in 1..(Len(got) + 1) :
           longer[k] = IF k = Len(got) + 1 THEN block ELSE IF k <= Len(got) THEN got[k] ELSE "hole"
  OBVIOUS
<1>5. longer \in [1..(Len(got) + 1) -> Blocks]
  BY <1>2, <1>4, LenProperties
<1> HIDE DEF longer
<1>6. longer = [k \in 1..(Len(got) + 1) |-> IF k = Len(got) + 1 THEN block
                                           ELSE IF k <= Len(got) THEN got[k] ELSE "hole"]
  BY <1>4, <1>5
<1> QED BY <1>2, <1>3, <1>6 DEF longer

LEMMA ModelFilesAssumed == F!ModelFilesAssumption
BY ThreadsAssumptions

LEMMA NextFile == \A r \in Process : r.at \in Nat /\ r.at + 1 \in Nat /\ r.at + 1 # 0
<1> SUFFICES ASSUME NEW r \in Process PROVE r.at \in Nat
  OBVIOUS
<1> QED BY Zenon DEF Process

(* What a step owes that changes the process p: it has the lock if p needs it
   now, and touches the lock and the `.part`s only as their holder. *)
Owes(p, r) ==
  /\ r.pc # "off" => r.goal # "none"
  /\ r.pc \in Held => lock' = p
  /\ lock' = lock \/ lock = p \/ lock = F!Nobody
  /\ part' = part \/ lock = p
  /\ DOMAIN part' = 1..Files /\ DOMAIN disk' = 1..Files
  /\ r.pc = "checking" => r.at # 0
  /\ r.pc \in AtFile => r.at \in 1..Files
  /\ r.pc = "body" => part'[r.at] = r.got
  /\ r.pc = "renaming" => part'[r.at] = F!Good

Becomes(p, r) == r \in Process /\ proc' = [proc EXCEPT ![p] = r] /\ Owes(p, r)

Before == FilesTypes /\ HolderHasIt /\ PartIsWhole /\ F!Nobody \notin F!Procs

LEMMA ProcessStep ==
  ASSUME Before, NEW p \in F!Procs, NEW r, Becomes(p, r)
  PROVE  (FilesTypes /\ HolderHasIt /\ PartIsWhole)'
<1>1. /\ proc' \in [F!Procs -> Process] /\ proc'[p] = r
      /\ \A q \in F!Procs : q # p => proc'[q] = proc[q]
  BY DEF Before, FilesTypes, Becomes
<1>2. \A q \in F!Procs : q # p /\ proc[q].pc \in Held => lock = q /\ lock' = q /\ part' = part
  BY DEF Before, HolderHasIt, Owes, Becomes
<1>3. FilesTypes'
  BY <1>1 DEF FilesTypes, Owes, Before, Becomes
<1>4. HolderHasIt'
  BY <1>1, <1>2 DEF HolderHasIt, Owes, Becomes
<1>5. ASSUME NEW q \in F!Procs, q # p
      PROVE  /\ proc'[q].pc = "checking" => proc'[q].at # 0
             /\ proc'[q].pc \in AtFile => proc'[q].at \in 1..Files
             /\ proc'[q].pc = "body" => part'[proc'[q].at] = proc'[q].got
             /\ proc'[q].pc = "renaming" => part'[proc'[q].at] = F!Good
  BY <1>1, <1>2, <1>5 DEF Before, PartIsWhole, Held, AtFile
<1>6. PartIsWhole'
  BY <1>1, <1>5 DEF PartIsWhole, Owes, Becomes
<1> QED BY <1>3, <1>4, <1>6

LEMMA StepFiles == FilesInv /\ [Next]_vars => FilesInv'
<1> SUFFICES ASSUME FilesInv, [Next]_vars, component' = "files"
             PROVE  (FilesTypes /\ HolderHasIt /\ PartIsWhole)'
  BY DEF FilesInv
<1>1. CASE UNCHANGED vars
  BY <1>1 DEF vars, filesVars, FilesInv, FilesTypes, HolderHasIt, PartIsWhole
<1>2. CASE component = "files" /\ F!Next
  <2>0. Before /\ Files \in Nat
    BY <1>2, ModelFilesAssumed DEF FilesInv, Before, F!ModelFilesAssumption
  <2>1. CASE F!PowerLoss
    <3>1. proc' = [p \in F!Procs |-> F!Off] /\ DOMAIN disk' = 1..Files /\ DOMAIN part' = 1..Files
      BY <2>1 DEF F!PowerLoss
    <3>2. F!Off \in Process /\ F!Off.pc = "off"
      BY DEF F!Off, Process, Stages, Goals
    <3>3. \A p \in F!Procs : proc'[p] = F!Off
      BY <3>1
    <3> QED BY <3>1, <3>2, <3>3 DEF FilesTypes, HolderHasIt, PartIsWhole, Held, AtFile
  <2>2. ASSUME NEW p \in F!Procs, F!Starts(p) \/ F!Works(p) \/ F!DownloadFails(p) \/ F!Killed(p)
        PROVE  (FilesTypes /\ HolderHasIt /\ PartIsWhole)'
    <3> DEFINE was == proc[p]
    <3>0. /\ was \in Process /\ DOMAIN disk = 1..Files /\ DOMAIN part = 1..Files
          /\ was.pc # "off" => was.goal # "none"
          /\ was.pc \in Held => lock = p
          /\ was.pc = "checking" => was.at # 0
          /\ was.pc \in AtFile => was.at \in 1..Files
          /\ was.pc = "body" => part[was.at] = was.got
          /\ was.pc = "renaming" => part[was.at] = F!Good
      BY <2>0 DEF Before, FilesTypes, HolderHasIt, PartIsWhole
    <3>1. F!Off \in Process /\ F!Off.pc = "off"
      BY DEF F!Off, Process, Stages, Goals
    <3> USE DEF Held, AtFile, Stages, Goals
    <3>2. CASE F!Starts(p)
      <4> DEFINE daemon == [F!Off EXCEPT !.pc = "sizes", !.goal = "ensure"]
                 command == [F!Off EXCEPT !.pc = "locking", !.goal = "fetch"]
      <4>1. daemon \in Process /\ command \in Process
        BY <3>1 DEF Process
      <4>2. Becomes(p, daemon) \/ Becomes(p, command)
        BY <3>0, <3>1, <3>2, <4>1, ZenonT(40) DEF F!Starts, Becomes, Owes, Process
      <4> QED BY <2>0, <4>2, ProcessStep
    <3>3. CASE F!LooksAtSizes(p)
      <4> DEFINE load == [was EXCEPT !.pc = "loading"]
                 ensure == [was EXCEPT !.pc = "locking"]
      <4>1. Becomes(p, load) \/ Becomes(p, ensure)
        BY <3>0, <3>1, <3>3 DEF F!LooksAtSizes, F!At, F!Goes, Becomes, Owes, Process
      <4> QED BY <2>0, <4>1, ProcessStep
    <3>4. CASE F!Loads(p)
      <4> DEFINE serving == [was EXCEPT !.pc = "serving"]
                 again == [was EXCEPT !.pc = "locking", !.goal = "repair"]
                 never == [was EXCEPT !.pc = "unavailable", !.why = "still"]
      <4>1. Becomes(p, serving) \/ Becomes(p, again) \/ Becomes(p, never)
        BY <3>0, <3>1, <3>4 DEF F!Loads, F!At, Becomes, Owes, Process
      <4> QED BY <2>0, <4>1, ProcessStep
    <3>5. CASE F!Locks(p)
      <4> DEFINE holder == [was EXCEPT !.pc = "checking", !.at = 1, !.fetched = FALSE]
      <4>1. holder \in Process /\ holder.pc = "checking" /\ holder.goal = was.goal /\ holder.at = 1
        BY <3>0 DEF Process
      <4>2. /\ was.pc = "locking" /\ lock = F!Nobody /\ lock' = p /\ part' = part /\ disk' = disk
            /\ proc' = [proc EXCEPT ![p] = holder]
        BY <3>5 DEF F!Locks, F!LockFree, F!At
      <4>3. Becomes(p, holder)
        BY <3>0, <4>1, <4>2 DEF Becomes, Owes
      <4> QED BY <2>0, <4>3, ProcessStep
    <3>6. CASE F!Checks(p)
      <4>1. was.at \in Nat /\ was.at + 1 \in Nat /\ was.at + 1 # 0
        BY <3>0, NextFile
      <4>2. PICK no \in BOOLEAN, yes \in BOOLEAN :
              no = F!FetchedSoFar(p, FALSE) /\ yes = F!FetchedSoFar(p, TRUE)
        BY DEF F!FetchedSoFar
      <4> DEFINE further == was.at + 1
                 next == [was EXCEPT !.at = further, !.fetched = no]
                 download == [was EXCEPT !.pc = "requesting", !.fetched = yes]
      <4>3. CASE F!Verified(was.at)
        <5>1. /\ was.pc = "checking" /\ lock' = lock /\ part' = part /\ disk' = disk
              /\ proc' = [proc EXCEPT ![p] = next]
          BY <3>6, <4>2, <4>3 DEF F!Checks, F!At
        <5> HIDE DEF further
        <5>2. /\ next \in Process /\ next.pc = was.pc /\ next.goal = was.goal
              /\ next.at = further
          BY <3>0, <4>1 DEF Process, further
        <5>3. further # 0
          BY <4>1 DEF further
        <5>4. Becomes(p, next)
          BY <3>0, <5>1, <5>2, <5>3 DEF Becomes, Owes
        <5> QED BY <2>0, <5>4, ProcessStep
      <4>4. CASE ~F!Verified(was.at)
        <5>1. /\ was.pc = "checking" /\ was.at <= Files /\ lock' = lock /\ part' = part
              /\ disk' = disk /\ proc' = [proc EXCEPT ![p] = download]
          BY <3>6, <4>2, <4>4 DEF F!Checks, F!At
        <5>2. /\ download \in Process /\ download.pc = "requesting"
              /\ download.goal = was.goal /\ download.at = was.at
          BY <3>0 DEF Process
        <5>3. was.at \in 1..Files
          BY <2>0, <3>0, <4>1, <5>1
        <5>4. Becomes(p, download)
          BY <3>0, <5>1, <5>2, <5>3 DEF Becomes, Owes
        <5> QED BY <2>0, <5>4, ProcessStep
      <4> QED BY <4>3, <4>4
    <3>7. CASE F!Fetched(p)
      <4> DEFINE load == [was EXCEPT !.pc = "loading"]
                 never == [was EXCEPT !.pc = "unavailable", !.why = "cannot load"]
      <4>1. Becomes(p, F!Off) \/ Becomes(p, load) \/ Becomes(p, never)
        BY <3>0, <3>1, <3>7 DEF F!Fetched, F!At, F!Unlocked, Becomes, Owes, Process
      <4> QED BY <2>0, <4>1, ProcessStep
    <3>8. CASE was.pc \in AtFile /\ F!FailsNow(p)
      <4> DEFINE failed == [was EXCEPT !.pc = "unavailable", !.why = "download"]
      <4>1. Becomes(p, F!Off) \/ Becomes(p, failed)
        BY <3>0, <3>1, <3>8 DEF F!FailsNow, F!Unlocked, Becomes, Owes, Process
      <4> QED BY <2>0, <4>1, ProcessStep
    <3>9. CASE F!Requests(p)
      <4> DEFINE reading == [was EXCEPT !.pc = "body", !.got = <<>>]
      <4>1. <<>> \in Seq(Blocks)
        OBVIOUS
      <4>2. /\ reading \in Process /\ reading.pc = "body" /\ reading.goal = was.goal
            /\ reading.at = was.at /\ reading.got = <<>>
        BY <3>0, <4>1 DEF Process
      <4>3. /\ was.pc = "requesting" /\ part' = [part EXCEPT ![was.at] = <<>>]
            /\ proc' = [proc EXCEPT ![p] = reading] /\ disk' = disk /\ lock' = lock
        BY <3>9 DEF F!Requests, F!At
      <4>4. Becomes(p, reading)
        BY <3>0, <4>2, <4>3 DEF Becomes, Owes
      <4> QED BY <2>0, <4>4, ProcessStep
    <3>10. CASE F!Receives(p)
      <4>1. PICK block \in Blocks :
              /\ part' = [part EXCEPT ![was.at] =
                            F!WrittenAt(@, Len(Append(was.got, block)), block)]
              /\ proc' = [proc EXCEPT ![p].got = Append(was.got, block)]
              /\ disk' = disk /\ lock' = lock /\ was.pc = "body"
        BY <3>10 DEF F!Receives, F!At, Blocks
      <4> DEFINE more == Append(was.got, block)
      <4>2. was.got \in Seq(Blocks)
        BY <3>0 DEF Process
      <4>a. more \in Seq(Blocks)
        BY <4>2, <4>1
      <4>3. part' = [part EXCEPT ![was.at] = more]
        BY <3>0, <4>1, <4>2, WrittenIsAppended
      <4> HIDE DEF more
      <4> DEFINE further == [was EXCEPT !.got = more]
      <4>b. /\ further \in Process /\ further.pc = was.pc /\ further.goal = was.goal
            /\ further.at = was.at /\ further.got = more
        BY <3>0, <4>a DEF Process
      <4>c. proc' = [proc EXCEPT ![p] = further]
        BY <4>1 DEF more
      <4>4. Becomes(p, further)
        BY <3>0, <4>1, <4>3, <4>b, <4>c DEF Becomes, Owes
      <4> QED BY <2>0, <4>4, ProcessStep
    <3>11. CASE F!BodyEnds(p)
      <4> DEFINE verified == [was EXCEPT !.pc = "renaming"]
      <4>1. was.got # F!Good => F!FailsNow(p) /\ was.pc \in AtFile
        BY <3>11 DEF F!BodyEnds, F!At
      <4>2. was.got = F!Good => Becomes(p, verified)
        BY <3>0, <3>1, <3>11 DEF F!BodyEnds, F!At, F!Goes, Becomes, Owes, Process
      <4> QED BY <2>0, <3>8, <4>1, <4>2, ProcessStep
    <3>12. CASE F!Renames(p)
      <4> DEFINE following == was.at + 1
                 placed == [was EXCEPT !.pc = "checking", !.at = following]
      <4>0. following \in Nat /\ following # 0
        BY <3>0, NextFile
      <4> HIDE DEF following
      <4>1. /\ placed \in Process /\ placed.pc = "checking" /\ placed.goal = was.goal
            /\ placed.at # 0
        BY <3>0, <4>0 DEF Process
      <4>2. /\ was.pc = "renaming" /\ part' = [part EXCEPT ![was.at] = F!Absent] /\ lock' = lock
            /\ disk' = [disk EXCEPT ![was.at] = part[was.at]]
            /\ proc' = [proc EXCEPT ![p] = placed]
        BY <3>12 DEF F!Renames, F!At, following
      <4>3. Becomes(p, placed)
        BY <3>0, <4>1, <4>2 DEF Becomes, Owes
      <4> QED BY <2>0, <4>3, ProcessStep
    <3>13. CASE F!Killed(p)
      <4>1. Becomes(p, F!Off)
        BY <3>0, <3>1, <3>13 DEF F!Killed, F!LockGone, F!Unlocked, Becomes, Owes
      <4> QED BY <2>0, <4>1, ProcessStep
    <3>14. CASE F!DownloadFails(p)
      BY <3>8, <3>14 DEF F!DownloadFails
    <3> QED BY <2>2, <3>2, <3>3, <3>4, <3>5, <3>6, <3>7, <3>9, <3>10, <3>11, <3>12, <3>13, <3>14
            DEF F!Works
  <2> QED BY <1>2, <2>1, <2>2 DEF F!Next
<1> QED BY <1>1, <1>2 DEF Next

LEMMA OnlyWholePartsLand ==
  ASSUME FilesInv, component = "files", F!Next
  PROVE  F!LandsVerified
<1>0. FilesTypes /\ PartIsWhole
  BY DEF FilesInv
<1>1. ASSUME NEW p \in F!Procs, F!Renames(p)
      PROVE  F!LandsVerified
  BY <1>0, <1>1 DEF F!Renames, F!At, F!LandsVerified, FilesTypes, PartIsWhole, AtFile
<1>2. CASE F!PowerLoss
  BY <1>2 DEF F!PowerLoss, F!LandsVerified
<1>3. CASE UNCHANGED disk
  BY <1>3 DEF F!LandsVerified
<1> QED
  BY <1>1, <1>2, <1>3
  DEF F!Next, F!Works, F!Starts, F!LooksAtSizes, F!Locks, F!Checks, F!Fetched, F!Requests,
      F!Receives, F!BodyEnds, F!FailsNow, F!Loads, F!DownloadFails, F!Killed

(* Only verified bytes come to a model file's name (shell/models.rs,
   fetch_models): of any number of daemons and commands that download any
   number of files at once, whichever fail, are killed or lose the power, and
   whatever the mirror sends. *)
THEOREM DownloadsLandVerified == Spec => OnlyVerifiedLands
<1>1. FilesInv /\ [Next]_vars => [component = "files" => F!LandsVerified]_vars
  BY OnlyWholePartsLand DEF Next
<1> QED BY <1>1, InitFiles, StepFiles, PTL DEF Spec, OnlyVerifiedLands
=============================================================================
