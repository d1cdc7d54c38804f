---------------------------- MODULE CaptureProofs -----------------------------
(***************************************************************************)
(* Proofs about a capture (MCCapture), for every value of the constants of *)
(* its parts: that its recording is whole, outlives what is pruned, and is *)
(* what memory holds (Recorder, Microphone), that the list of recordings   *)
(* is saved whole (WaitingList), that the window shows what is so          *)
(* (Indicator), and that the settings leave the user who talks alone       *)
(* (Settings).                                                             *)
(***************************************************************************)
EXTENDS MCCapture, SequenceTheorems, WellFoundedInduction, TLAPS

-----------------------------------------------------------------------------
(* Settings.  The daemon runs on a configuration that is valid; a capture it
   follows has a tick due within an interval of the last it heard, and one that
   is asked for is answered within another. *)

ConfigOK ==
  /\ config.interval \in Nat \ {0} /\ config.quiet \in Nat
  /\ S!Valid(config)

Followed ==
  /\ talker.now \in Nat /\ talker.heard \in Nat /\ talker.asked \in Nat /\ talker.due \in Nat
  /\ DOMAIN talker = {"now", "heard", "asked", "due", "pending", "ended"}
  /\ talker.heard <= talker.now /\ talker.due <= talker.heard + config.interval
  /\ talker.pending \in BOOLEAN /\ talker.ended = FALSE
  /\ talker.pending => /\ talker.asked <= talker.due /\ talker.asked <= talker.now
                       /\ talker.now < talker.asked + config.interval
  /\ ~talker.pending => talker.now <= talker.due

SettingsInv ==
  component = "settings" =>
    /\ file \in S!Files
    /\ ConfigOK
    /\ talker = S!NoCapture \/ Followed
    /\ S!StaleIsTold

LEMMA InitSettings == Init => SettingsInv
<1> SUFFICES ASSUME Init, component = "settings" PROVE SettingsInv
  BY DEF SettingsInv
<1>1. config = S!Default /\ talker = S!NoCapture /\ reported = {} /\ file \in S!Files
  BY DEF Init, S!Init
<1> QED BY <1>1 DEF SettingsInv, ConfigOK, S!Default, S!Valid, S!StaleIsTold

LEMMA StepSettings == SettingsInv /\ [Next]_vars => SettingsInv'
<1> SUFFICES ASSUME SettingsInv, [Next]_vars, component' = "settings" PROVE SettingsInv'
  BY DEF SettingsInv
<1>1. CASE UNCHANGED vars
  BY <1>1 DEF vars, settingsVars, SettingsInv, ConfigOK, Followed, S!StaleIsTold
<1>2. CASE component = "settings" /\ S!Next
  <2>0. ConfigOK /\ (talker = S!NoCapture \/ Followed) /\ S!StaleIsTold /\ file \in S!Files
    BY <1>2 DEF SettingsInv
  <2>1. CASE S!Starts
    <3>1. config' = (IF S!Loads(file) THEN file ELSE S!Default) /\ talker' = S!NoCapture
          /\ reported' = {}
      BY <2>1 DEF S!Starts
    <3>2. file.interval \in Nat \ {0} /\ file.quiet \in Nat /\ file' = file
      BY <2>0, <2>1, CaptureAssumptions DEF S!Starts, S!SettingsAssumption, S!Files
    <3>3. ConfigOK'
      BY <3>1, <3>2 DEF ConfigOK, S!Loads, S!Default, S!Valid
    <3> QED BY <2>0, <3>1, <3>2, <3>3 DEF SettingsInv, S!StaleIsTold
  <2>2. CASE S!Edits
    BY <2>0, <2>2 DEF S!Edits, SettingsInv, ConfigOK, Followed, S!StaleIsTold
  <2>3. CASE S!OpensWindow
    <3>1. config' = config /\ talker' = talker
      BY <2>3 DEF S!OpensWindow
    <3>2. S!StaleIsTold' /\ file' = file
      BY <2>0, <2>3 DEF S!OpensWindow, S!StaleIsTold, S!Warns
    <3> QED BY <2>0, <3>1, <3>2 DEF SettingsInv, ConfigOK, Followed
  <2>4. CASE S!Latches
    <3>1. config' = config /\ reported' = reported /\ warned' = warned /\ file' = file
          /\ talker' = S!Began(config)
      BY <2>4 DEF S!Latches
    <3>2. Followed'
      BY <2>0, <3>1 DEF ConfigOK, Followed, S!Began, S!NoCapture
    <3> QED BY <2>0, <3>1, <3>2 DEF SettingsInv, ConfigOK, S!StaleIsTold
  <2>5. CASE S!Ticks
    <3>1. config' = config /\ reported' = reported /\ warned' = warned /\ file' = file
          /\ talker.now >= 0
      BY <2>5 DEF S!Ticks
    <3>2. Followed
      BY <2>0, <3>1 DEF S!NoCapture
    <3>3. CASE ~talker.pending /\ talker.now >= talker.due /\ talker' = S!AsksTick(talker)
      BY <2>0, <3>1, <3>2, <3>3 DEF ConfigOK, Followed, S!AsksTick, SettingsInv, S!StaleIsTold
    <3>4. CASE talker.pending /\ talker' = S!TickDone(talker)
      BY <2>0, <3>1, <3>2, <3>4 DEF ConfigOK, Followed, S!TickDone, SettingsInv, S!StaleIsTold
    <3> QED BY <2>5, <3>3, <3>4 DEF S!Ticks
  <2>6. CASE S!Passes
    <3>1. config' = config /\ reported' = reported /\ warned' = warned /\ file' = file
          /\ talker.now \in 0..(MaxTime - 1)
          /\ (talker.pending => talker.now - talker.asked < config.interval - 1)
          /\ (talker.pending \/ talker.now < talker.due)
          /\ talker' = [talker EXCEPT !.now = @ + 1,
               !.ended = config.quiet # 0 /\ talker.now + 1 - talker.heard >= config.quiet]
      BY <2>6 DEF S!Passes
    <3>2. Followed
      BY <2>0, <3>1 DEF S!NoCapture
    <3>3. config.quiet # 0 => talker.now + 1 - talker.heard < config.quiet
      BY <2>0, <3>1, <3>2 DEF ConfigOK, Followed, S!Valid
    <3>4. (config.quiet # 0 /\ talker.now + 1 - talker.heard >= config.quiet) = FALSE
      BY <2>0, <3>2, <3>3 DEF ConfigOK, Followed
    <3>5. talker' = [talker EXCEPT !.now = @ + 1, !.ended = FALSE]
      BY <3>1, <3>4
    <3>6. /\ talker'.now = talker.now + 1 /\ talker'.ended = FALSE
          /\ talker'.heard = talker.heard /\ talker'.asked = talker.asked
          /\ talker'.due = talker.due /\ talker'.pending = talker.pending
          /\ DOMAIN talker' = DOMAIN talker
      BY <3>2, <3>5 DEF Followed
    <3>7. Followed'
      BY <2>0, <3>1, <3>2, <3>6 DEF ConfigOK, Followed
    <3> QED BY <2>0, <3>1, <3>7 DEF SettingsInv, ConfigOK, S!StaleIsTold
  <2> QED BY <1>2, <2>1, <2>2, <2>3, <2>4, <2>5, <2>6 DEF S!Next
<1> QED BY <1>1, <1>2 DEF Next

(* The silence timeout ends no capture of somebody who talks (config.rs,
   validate), and the last warning named what a restart would change
   (daemon/mod.rs, reconfigure), for any settings. *)
THEOREM SettingsKeepSound == Spec => []SettingsAreSound
<1>1. SettingsInv => SettingsAreSound
  BY DEF SettingsInv, SettingsAreSound, Followed, S!NoCapture, S!TalkerIsHeard
<1> QED BY <1>1, InitSettings, StepSettings, PTL DEF Spec

-----------------------------------------------------------------------------
(* Notices.  Each has a rank of its own; the one kept is no less than any that
   was raised since the key was pressed. *)

Notices == {I!Priority[i] : i \in 1..20}

LEMMA Ranks ==
  /\ \A n \in Notices : I!Rank(n) \in 1..20 /\ I!Priority[I!Rank(n)] = n /\ n # I!NoNotice
  /\ I!Rank(I!NoNotice) = 0
<1>1. DOMAIN I!Priority = 1..20
  BY DEF I!Priority
<1>2. I!NoNotice \notin Notices
  BY DEF Notices, I!Priority, I!NoNotice
<1>3. ASSUME NEW n \in Notices PROVE I!Rank(n) \in 1..20 /\ I!Priority[I!Rank(n)] = n
  <2>1. \E i \in DOMAIN I!Priority : I!Priority[i] = n
    BY <1>1 DEF Notices
  <2>2. I!Rank(n) = CHOOSE i \in DOMAIN I!Priority : I!Priority[i] = n
    BY <1>2 DEF I!Rank
  <2> HIDE DEF Notices
  <2> QED BY <1>1, <2>1, <2>2
<1> QED BY <1>2, <1>3 DEF I!Rank

LEMMA NoticesAre ==
  /\ {"PreviewPaused", "Cancelled", "TranscribingRecordings", "ModelLoading",
      "ModelDownloading", "HeldTooBriefly", "NearlySilent", "SilenceTimeout",
      "KeptTooLong", "LengthLimit", "MicrophoneGap", "ModelUnavailable", "NotKept",
      "MicrophoneUnavailable", "CaptureIncomplete", "MemoryCap"} \subseteq Notices
  /\ I!Rank("PreviewPaused") = 1
  /\ Reported \subseteq Notices
<1>1. /\ I!Priority[1] = "PreviewPaused" /\ I!Priority[2] = "Cancelled"
      /\ I!Priority[3] = "TranscribingRecordings" /\ I!Priority[4] = "ModelLoading"
      /\ I!Priority[5] = "ModelDownloading" /\ I!Priority[6] = "HeldTooBriefly"
      /\ I!Priority[7] = "NearlySilent" /\ I!Priority[9] = "SilenceTimeout"
      /\ I!Priority[10] = "KeptTooLong" /\ I!Priority[11] = "LengthLimit"
      /\ I!Priority[12] = "MicrophoneGap" /\ I!Priority[13] = "ModelUnavailable"
      /\ I!Priority[17] = "NotKept" /\ I!Priority[18] = "MicrophoneUnavailable"
      /\ I!Priority[19] = "CaptureIncomplete" /\ I!Priority[20] = "MemoryCap"
  BY DEF I!Priority
<1>2. \A i \in 2..20 : I!Priority[i] # "PreviewPaused"
  BY DEF I!Priority
<1>3. "PreviewPaused" \in Notices
  BY <1>1 DEF Notices
<1>4. I!Rank("PreviewPaused") = 1
  BY <1>2, <1>3, Ranks
<1>5. Reported \subseteq Notices
  BY CaptureAssumptions DEF I!IndicatorAssumption, I!ToSet, Notices, I!Priority
<1> QED BY <1>1, <1>4, <1>5 DEF Notices

(* Of a few notices one is the worst. *)
HasWorst(ns) == ns = {} \/ \E n \in ns : \A m \in ns : I!Rank(m) <= I!Rank(n)

LEMMA WorstOfBoth ==
  ASSUME NEW ns \in SUBSET Notices, NEW ms \in SUBSET Notices, HasWorst(ns), HasWorst(ms)
  PROVE  HasWorst(ns \cup ms)
<1>1. \A n \in Notices : I!Rank(n) \in Int
  BY Ranks
<1>2. CASE ns = {} \/ ms = {}
  BY <1>2 DEF HasWorst
<1>3. CASE ns # {} /\ ms # {}
  <2>1. PICK n \in ns : \A m \in ns : I!Rank(m) <= I!Rank(n)
    BY <1>3 DEF HasWorst
  <2>2. PICK k \in ms : \A m \in ms : I!Rank(m) <= I!Rank(k)
    BY <1>3 DEF HasWorst
  <2>3. I!Rank(n) \in Int /\ I!Rank(k) \in Int /\ \A m \in ns \cup ms : I!Rank(m) \in Int
    BY <1>1
  <2> DEFINE w == IF I!Rank(n) <= I!Rank(k) THEN k ELSE n
  <2>4. w \in ns \cup ms /\ \A m \in ns \cup ms : I!Rank(m) <= I!Rank(w)
    BY <2>1, <2>2, <2>3
  <2> QED BY <2>4 DEF HasWorst
<1> QED BY <1>2, <1>3

Kept(s, ns) ==
  /\ s.notice \in Notices \cup {I!NoNotice} /\ ns \subseteq Notices
  /\ \A n \in ns : I!Rank(n) <= I!Rank(s.notice)

LEMMA NotifyKeeps ==
  ASSUME NEW s, "notice" \in DOMAIN s, NEW ns, Kept(s, ns), NEW n \in Notices
  PROVE  Kept(I!Notify(s, n), ns \cup {n})
<1>1. I!Rank(s.notice) \in Int /\ I!Rank(n) \in Int /\ \A m \in ns : I!Rank(m) \in Int
  BY Ranks DEF Kept
<1>2. CASE I!Rank(n) >= I!Rank(s.notice)
  <2>1. I!Notify(s, n).notice = n
    BY <1>2 DEF I!Notify
  <2> QED BY <1>1, <1>2, <2>1 DEF Kept
<1>3. CASE ~(I!Rank(n) >= I!Rank(s.notice))
  <2>1. I!Notify(s, n) = s
    BY <1>3 DEF I!Notify
  <2> QED BY <1>1, <1>3, <2>1 DEF Kept
<1> QED BY <1>2, <1>3

LEMMA NotifyAllKeeps ==
  ASSUME NEW s, "notice" \in DOMAIN s, NEW ns, Kept(s, ns), NEW ms \in SUBSET Notices,
         HasWorst(ms)
  PROVE  Kept(I!NotifyAll(s, ms), ns \cup ms)
<1>1. CASE ms = {}
  BY <1>1 DEF I!NotifyAll
<1>2. CASE ms # {}
  <2> DEFINE w == CHOOSE n \in ms : \A m \in ms : I!Rank(m) <= I!Rank(n)
  <2>1. w \in ms /\ \A m \in ms : I!Rank(m) <= I!Rank(w)
    BY <1>2 DEF HasWorst
  <2>2. I!NotifyAll(s, ms) = I!Notify(s, w)
    BY <1>2 DEF I!NotifyAll
  <2> HIDE DEF w
  <2>3. Kept(I!Notify(s, w), ns \cup {w})
    BY <2>1, NotifyKeeps
  <2>4. \A m \in ms : I!Rank(m) \in Int
    BY Ranks
  <2>5. I!Rank(I!Notify(s, w).notice) \in Int
    BY <2>3, Ranks DEF Kept
  <2> QED BY <2>1, <2>2, <2>3, <2>4, <2>5 DEF Kept
<1> QED BY <1>1, <1>2

(* The indicator.  What is decoded of a capture, and what of that was heard,
   only grows, in the order of the two queues. *)

SessionFields ==
  {"state", "current", "hint", "epoch", "preview", "notice", "previews", "tick"}
SessionOK(s) ==
  /\ DOMAIN s = SessionFields
  /\ s.current \in 0..MaxCaptures /\ (s.state # "idle" => s.current \in I!Captures)
  /\ s.hint \in Nat /\ s.epoch \in Nat /\ s.hint <= s.epoch
  /\ s.preview \cap 1..s.epoch = {}

Jobs == [kind : {"tick", "finish"}, c : I!Captures, end : Nat, previewed : BOOLEAN]
Results ==
  [kind : {"commit"}, c : I!Captures, through : Nat]
  \cup [kind : {"tick"}, c : I!Captures, previewed : BOOLEAN, words : SUBSET Nat, through : Nat]
  \cup [kind : {"finished"}, c : I!Captures]
OfText(r) == r.kind \in {"commit", "tick"}

WrittenOK ==
  /\ written \in [I!Captures -> Nat] /\ frames \in Nat
  /\ \A c \in I!Captures : session.current < c => written[c] = 0
  /\ session.current \in I!Captures =>
       session.epoch <= written[session.current] /\ written[session.current] <= frames

WorkOK ==
  /\ work \in Seq(Jobs)
  /\ \A k \in DOMAIN work :
       /\ work[k].c <= session.current /\ written[work[k].c] <= work[k].end
       /\ work[k].c = session.current => work[k].end <= frames
  /\ \A j, k \in DOMAIN work : j < k /\ work[j].c = work[k].c => work[j].end <= work[k].end

Told(rs, w) ==
  /\ rs \in Seq(Results)
  /\ \A k \in DOMAIN rs :
       /\ rs[k].c <= session.current
       /\ OfText(rs[k]) =>
            /\ rs[k].through <= w[rs[k].c]
            /\ rs[k].c = session.current => session.epoch <= rs[k].through
       /\ rs[k].kind = "tick" => rs[k].words \cap 1..rs[k].through = {}
  /\ \A j, k \in DOMAIN rs :
       /\ j < k /\ rs[j].c = rs[k].c /\ OfText(rs[j]) /\ OfText(rs[k])
       => rs[j].through <= rs[k].through

ResultsOK == Told(results, written)

Models == [model : {"downloading", "loading", "ready", "unavailable"}, waiting : BOOLEAN]

IndicatorState ==
  SessionOK(session) /\ Kept(session, raised) /\ WrittenOK /\ WorkOK /\ ResultsOK
  /\ status \in Models

IndicatorInv == component = "indicator" => IndicatorState

LEMMA InitIndicator == Init => IndicatorInv
<1> SUFFICES ASSUME Init, component = "indicator" PROVE IndicatorState
  BY DEF IndicatorInv
<1>1. I!Init
  BY DEF Init
<1>2. SessionOK(session)
  BY <1>1, CaptureAssumptions DEF I!Init, SessionOK, SessionFields, I!IndicatorAssumption
<1>3. Kept(session, raised)
  BY <1>1 DEF I!Init, Kept
<1>4. WrittenOK /\ WorkOK /\ ResultsOK
  BY <1>1 DEF I!Init, WrittenOK, WorkOK, ResultsOK, Told, I!Captures
<1>5. status \in Models
  BY <1>1 DEF I!Init, Models
<1> QED BY <1>2, <1>3, <1>4, <1>5 DEF IndicatorState

(* A session that is of the same capture, and shows no more of it. *)
Alike(s, s2) ==
  /\ DOMAIN s2 = DOMAIN s /\ s2.current = s.current /\ s2.hint = s.hint /\ s2.epoch = s.epoch
  /\ s2.preview \subseteq s.preview /\ (s2.state = "idle" \/ s2.state = s.state \/ s.state # "idle")

LEMMA AlikeOK ==
  ASSUME NEW s, NEW s2, SessionOK(s), Alike(s, s2) PROVE SessionOK(s2)
BY DEF SessionOK, Alike

LEMMA NotifyAlike ==
  ASSUME NEW s, DOMAIN s = SessionFields, NEW n
  PROVE  Alike(s, I!Notify(s, n)) /\ I!Notify(s, n).state = s.state
BY DEF I!Notify, Alike, SessionFields

LEMMA NotifyAllAlike ==
  ASSUME NEW s, DOMAIN s = SessionFields, NEW ns
  PROVE  Alike(s, I!NotifyAll(s, ns)) /\ I!NotifyAll(s, ns).state = s.state
<1>1. CASE ns = {}
  BY <1>1 DEF I!NotifyAll, Alike
<1>2. CASE ns # {}
  BY <1>2, NotifyAlike DEF I!NotifyAll
<1> QED BY <1>1, <1>2

LEMMA AlikeTwice ==
  ASSUME NEW s, NEW s2, NEW s3, Alike(s, s2), Alike(s2, s3) PROVE Alike(s, s3)
BY DEF Alike

(* Where the queues stay and the session is alike, the rest is undisturbed. *)
LEMMA QueuesStay ==
  ASSUME IndicatorState, Alike(session, session'),
         UNCHANGED <<frames, results, written>>,
         work' = work \/ \E j \in Jobs : /\ work' = Append(work, j)
                                        /\ j.c = session.current /\ j.end = frames
  PROVE  SessionOK(session)' /\ (WrittenOK /\ WorkOK /\ ResultsOK)'
<1>1. SessionOK(session') /\ session'.current = session.current /\ session'.epoch = session.epoch
  BY AlikeOK DEF IndicatorState, Alike
<1>2. WrittenOK' /\ ResultsOK'
  BY <1>1 DEF IndicatorState, WrittenOK, ResultsOK, Told
<1>3. CASE work' = work
  BY <1>1, <1>2, <1>3 DEF IndicatorState, WorkOK
<1>4. CASE work' # work
  <2>1. PICK j \in Jobs : work' = Append(work, j) /\ j.c = session.current /\ j.end = frames
    BY <1>4
  <2>2. /\ work' \in Seq(Jobs) /\ Len(work) \in Nat /\ DOMAIN work = 1..Len(work)
        /\ DOMAIN work' = 1..(Len(work) + 1) /\ work'[Len(work) + 1] = j
        /\ \A k \in DOMAIN work : work'[k] = work[k]
    BY <2>1, AppendProperties, LenProperties DEF IndicatorState, WorkOK
  <2>3. j.c \in I!Captures /\ frames \in Nat /\ written[j.c] <= frames
    BY <2>1 DEF IndicatorState, WrittenOK, Jobs
  <2>4. j.c <= session.current
    BY <2>1, <2>3, CaptureAssumptions DEF I!Captures, I!IndicatorAssumption
  <2>5. \A k \in DOMAIN work' :
          (k \in DOMAIN work /\ work'[k] = work[k] /\ k < Len(work) + 1)
          \/ (k = Len(work) + 1 /\ work'[k] = j)
    BY <2>2
  <2>6. /\ session'.current = session.current /\ written' = written /\ frames' = frames
        /\ frames \in Nat /\ j.end = frames /\ j.c = session.current
    BY <1>1, <2>1, <2>3
  <2>7. ASSUME NEW k \in DOMAIN work'
        PROVE  /\ work'[k].c <= session.current /\ written[work'[k].c] <= work'[k].end
               /\ work'[k].c = session.current => work'[k].end <= frames
    <3>1. CASE k \in DOMAIN work /\ work'[k] = work[k]
      BY <3>1 DEF IndicatorState, WorkOK
    <3>2. CASE work'[k] = j
      BY <3>2, <2>3, <2>4, <2>6
    <3> QED BY <3>1, <3>2, <2>5, <2>7
  <2>8. ASSUME NEW i \in DOMAIN work', NEW k \in DOMAIN work', i < k, work'[i].c = work'[k].c
        PROVE  work'[i].end <= work'[k].end
    <3>1. i \in DOMAIN work /\ work'[i] = work[i]
      BY <2>2, <2>5, <2>8
    <3>2. CASE k \in DOMAIN work /\ work'[k] = work[k]
      BY <3>1, <3>2, <2>8 DEF IndicatorState, WorkOK
    <3>3. CASE work'[k] = j
      <4>1. work[i].c = session.current
        BY <3>1, <3>3, <2>6, <2>8
      <4> QED BY <3>1, <3>3, <4>1, <2>6 DEF IndicatorState, WorkOK
    <3> QED BY <3>2, <3>3, <2>5, <2>8
  <2>9. WorkOK'
    BY <2>2, <2>6, <2>7, <2>8 DEF WorkOK
  <2> QED BY <1>1, <1>2, <2>9
<1> QED BY <1>3, <1>4

(* A result that tells what is written by then. *)
Fits(r, w) ==
  /\ r \in Results /\ r.c <= session.current
  /\ OfText(r) => /\ r.through = w[r.c]
                  /\ r.c = session.current => session.epoch <= r.through
  /\ r.kind = "tick" => r.words \cap 1..r.through = {}

LEMMA TextIsTyped ==
  ASSUME NEW r \in Results
  PROVE  r.c \in I!Captures /\ (OfText(r) => r.through \in Nat)
BY DEF Results, OfText

LEMMA ToldMore ==
  ASSUME NEW rs, NEW w \in [I!Captures -> Nat], NEW w2 \in [I!Captures -> Nat], Told(rs, w),
         \A c \in I!Captures : w[c] <= w2[c]
  PROVE  Told(rs, w2)
<1>1. rs \in Seq(Results) /\ \A k \in DOMAIN rs : rs[k] \in Results
  BY ElementOfSeq, LenProperties DEF Told
<1>2. ASSUME NEW k \in DOMAIN rs, OfText(rs[k]) PROVE rs[k].through <= w2[rs[k].c]
  <2>1. rs[k].c \in I!Captures /\ rs[k].through \in Nat
    BY <1>1, <1>2, TextIsTyped
  <2>2. rs[k].through <= w[rs[k].c]
    BY <1>2 DEF Told
  <2>3. w[rs[k].c] <= w2[rs[k].c] /\ w[rs[k].c] \in Nat /\ w2[rs[k].c] \in Nat
    BY <2>1
  <2> QED BY <2>1, <2>2, <2>3
<1> QED BY <1>2 DEF Told

LEMMA AppendIsSeen ==
  ASSUME NEW T, NEW s \in Seq(T), NEW x \in T
  PROVE  /\ Append(s, x) \in Seq(T)
         /\ \A k \in DOMAIN Append(s, x) :
              (k \in DOMAIN s /\ Append(s, x)[k] = s[k] /\ k < Len(s) + 1)
              \/ (k = Len(s) + 1 /\ Append(s, x)[k] = x)
BY AppendProperties, LenProperties

LEMMA ToldOne ==
  ASSUME NEW rs, NEW w \in [I!Captures -> Nat], Told(rs, w), NEW r, Fits(r, w)
  PROVE  Told(Append(rs, r), w)
<1> DEFINE rs2 == Append(rs, r)
<1>1. rs \in Seq(Results) /\ r \in Results /\ \A k \in DOMAIN rs : rs[k] \in Results
  BY ElementOfSeq, LenProperties DEF Told, Fits
<1>2. /\ rs2 \in Seq(Results)
      /\ \A k \in DOMAIN rs2 : (k \in DOMAIN rs /\ rs2[k] = rs[k] /\ k < Len(rs) + 1)
                               \/ (k = Len(rs) + 1 /\ rs2[k] = r)
  BY <1>1, AppendIsSeen
<1>3. DOMAIN rs = 1..Len(rs) /\ Len(rs) \in Nat
  BY <1>1, LenProperties
<1> HIDE DEF rs2
<1>4. ASSUME NEW k \in DOMAIN rs2
      PROVE  /\ rs2[k].c <= session.current
             /\ OfText(rs2[k]) =>
                  /\ rs2[k].through <= w[rs2[k].c]
                  /\ rs2[k].c = session.current => session.epoch <= rs2[k].through
             /\ rs2[k].kind = "tick" => rs2[k].words \cap 1..rs2[k].through = {}
  <2>1. CASE k \in DOMAIN rs /\ rs2[k] = rs[k]
    BY <2>1 DEF Told
  <2>2. CASE rs2[k] = r
    <3>1. OfText(r) => r.through <= w[r.c]
      BY <1>1, TextIsTyped DEF Fits
    <3> QED BY <2>2, <3>1 DEF Fits
  <2> QED BY <1>2, <2>1, <2>2
<1>5. ASSUME NEW i \in DOMAIN rs2, NEW k \in DOMAIN rs2, i < k, rs2[i].c = rs2[k].c,
             OfText(rs2[i]), OfText(rs2[k])
      PROVE  rs2[i].through <= rs2[k].through
  <2>1. i \in DOMAIN rs /\ rs2[i] = rs[i]
    BY <1>2, <1>3, <1>5
  <2>2. CASE k \in DOMAIN rs /\ rs2[k] = rs[k]
    BY <2>1, <2>2, <1>5 DEF Told
  <2>3. CASE rs2[k] = r
    BY <2>1, <2>3, <1>5 DEF Told, Fits
  <2> QED BY <1>2, <2>2, <2>3
<1> QED BY <1>2, <1>4, <1>5 DEF Told, rs2

LEMMA IndicatorStart == ASSUME IndicatorState, I!Start PROVE IndicatorState'
<1> DEFINE started == [state |-> "recording", current |-> session.current + 1, hint |-> 0,
                       epoch |-> 0, preview |-> {}, notice |-> I!NoNotice,
                       previews |-> "running",
                       tick |-> IF status.model = "ready" THEN "due" ELSE "idle"]
           stopped == [started EXCEPT !.state = "idle", !.tick = "idle"]
           cancelled == I!Notify(stopped, "Cancelled")
<1>1. /\ UNCHANGED <<status, work, results, written>> /\ frames' = 0
      /\ session.current \in Nat /\ session.current + 1 \in I!Captures
  BY CaptureAssumptions
     DEF I!Start, IndicatorState, SessionOK, I!Captures, I!IndicatorAssumption
<1>2. SessionOK(started) /\ SessionOK(stopped) /\ Kept(started, {}) /\ Kept(stopped, {})
  BY <1>1, CaptureAssumptions
     DEF SessionOK, SessionFields, Kept, I!Captures, I!IndicatorAssumption, I!NoNotice
<1>3. \/ session' = started /\ raised' = {}
      \/ /\ session' = I!Notify(cancelled, "MicrophoneUnavailable")
         /\ raised' = {"Cancelled", "MicrophoneUnavailable"}
  BY DEF I!Start
<1>4. started.current = session.current + 1 /\ started.epoch = 0
      /\ stopped.current = session.current + 1 /\ stopped.epoch = 0
      /\ "notice" \in DOMAIN stopped
  OBVIOUS
<1> HIDE DEF started, stopped
<1>5. Alike(stopped, cancelled) /\ Kept(cancelled, {} \cup {"Cancelled"})
  BY <1>2, <1>4, NotifyAlike, NotifyKeeps, NoticesAre DEF SessionOK
<1> HIDE DEF cancelled
<1>6. SessionOK(cancelled) /\ "notice" \in DOMAIN cancelled
  BY <1>2, <1>4, <1>5, AlikeOK DEF Alike
<1>7. /\ Alike(cancelled, I!Notify(cancelled, "MicrophoneUnavailable"))
      /\ Kept(I!Notify(cancelled, "MicrophoneUnavailable"),
              ({} \cup {"Cancelled"}) \cup {"MicrophoneUnavailable"})
  BY <1>5, <1>6, NotifyAlike, NotifyKeeps, NoticesAre DEF SessionOK
<1>8. SessionOK(session)' /\ session'.current = session.current + 1 /\ session'.epoch = 0
  BY <1>2, <1>3, <1>4, <1>5, <1>6, <1>7, AlikeOK DEF Alike
<1>9. Kept(session, raised)'
  <2>1. ({} \cup {"Cancelled"}) \cup {"MicrophoneUnavailable"}
        = {"Cancelled", "MicrophoneUnavailable"}
    OBVIOUS
  <2> QED BY <1>2, <1>3, <1>7, <2>1
<1>10. WrittenOK'
  BY <1>1, <1>8 DEF IndicatorState, WrittenOK, I!Captures
<1>11. WorkOK'
  <2>1. work \in Seq(Jobs) /\ \A k \in DOMAIN work : work[k] \in Jobs
    BY ElementOfSeq, LenProperties DEF IndicatorState, WorkOK
  <2>2. \A k \in DOMAIN work : work[k].c \in Nat
    BY <2>1 DEF Jobs, I!Captures
  <2>3. \A k \in DOMAIN work : work[k].c <= session.current /\ written[work[k].c] <= work[k].end
    BY DEF IndicatorState, WorkOK
  <2>4. \A k \in DOMAIN work : work[k].c <= session'.current /\ work[k].c # session'.current
    BY <1>1, <1>8, <2>2, <2>3
  <2> QED BY <1>1, <2>3, <2>4 DEF IndicatorState, WorkOK
<1>12. ResultsOK'
  <2>1. results \in Seq(Results) /\ \A k \in DOMAIN results : results[k] \in Results
    BY ElementOfSeq, LenProperties DEF IndicatorState, ResultsOK, Told
  <2>2. \A k \in DOMAIN results : results[k].c \in Nat
    BY <2>1, TextIsTyped DEF I!Captures
  <2>3. \A k \in DOMAIN results : results[k].c <= session.current
    BY DEF IndicatorState, ResultsOK, Told
  <2>4. \A k \in DOMAIN results :
          results[k].c <= session'.current /\ results[k].c # session'.current
    BY <1>1, <1>8, <2>2, <2>3
  <2> QED BY <1>1, <2>3, <2>4 DEF IndicatorState, ResultsOK, Told
<1> QED BY <1>1, <1>8, <1>9, <1>10, <1>11, <1>12 DEF IndicatorState

LEMMA IndicatorSpeak == ASSUME IndicatorState, I!Speak PROVE IndicatorState'
<1>1. UNCHANGED <<session, status, work, results, written, raised>> /\ frames' = frames + 1
  BY DEF I!Speak
<1>2. frames \in Nat /\ frames' \in Nat
  BY <1>1 DEF IndicatorState, WrittenOK
<1>3. WrittenOK'
  BY <1>1, <1>2, CaptureAssumptions
     DEF IndicatorState, WrittenOK, SessionOK, I!Captures, I!IndicatorAssumption
<1>4. WorkOK'
  <2>1. \A k \in DOMAIN work : work[k] \in Jobs
    BY ElementOfSeq, LenProperties DEF IndicatorState, WorkOK
  <2>2. \A k \in DOMAIN work : work[k].end \in Nat
    BY <2>1 DEF Jobs
  <2> QED BY <1>1, <1>2, <2>2 DEF IndicatorState, WorkOK
<1> QED BY <1>1, <1>3, <1>4 DEF IndicatorState, ResultsOK, Told

(* A capture that ends is decoded, unless what is kept of it is not there. *)
LEMMA IndicatorReleases ==
  ASSUME IndicatorState, session.state = "recording", NEW ended, NEW reasons \in SUBSET Notices,
         HasWorst(reasons), Alike(session, ended), ended.notice = session.notice,
         I!Releases(ended, reasons), UNCHANGED <<status, frames, results, written>>
  PROVE  IndicatorState'
<1>1. PICK postroll \in I!NotePostroll, measured \in I!Release, unkept \in I!Keep :
        /\ I!RaisesAll(IF I!KeptOnDisk THEN [ended EXCEPT !.state = "idle", !.preview = {}]
                       ELSE ended, reasons \cup postroll \cup measured \cup unkept)
        /\ work' = IF unkept = {} THEN Append(work, I!FinishWork) ELSE work
  BY DEF I!Releases
<1> DEFINE s == IF I!KeptOnDisk THEN [ended EXCEPT !.state = "idle", !.preview = {}] ELSE ended
           ns == ((reasons \cup postroll) \cup measured) \cup unkept
<1>2. session' = I!NotifyAll(s, ns) /\ raised' = raised \cup ns
  BY <1>1 DEF I!RaisesAll
<1>3. DOMAIN session = SessionFields /\ DOMAIN ended = SessionFields
  BY DEF IndicatorState, SessionOK, Alike
<1>4. Alike(session, s) /\ s.notice = session.notice /\ "notice" \in DOMAIN s
      /\ DOMAIN s = SessionFields
  BY <1>3 DEF Alike, SessionFields
<1>5. ns \in SUBSET Notices /\ HasWorst(ns)
  <2>1. /\ postroll \in SUBSET Notices /\ HasWorst(postroll)
        /\ measured \in SUBSET Notices /\ HasWorst(measured)
        /\ unkept \in SUBSET Notices /\ HasWorst(unkept)
    <3>1. \A n \in Notices : HasWorst({n}) /\ I!Rank(n) \in Int
      BY Ranks DEF HasWorst
    <3> QED BY <3>1, NoticesAre DEF I!NotePostroll, I!Release, I!Keep, HasWorst
  <2>2. reasons \cup postroll \in SUBSET Notices /\ HasWorst(reasons \cup postroll)
    BY <2>1, WorstOfBoth
  <2>3. (reasons \cup postroll) \cup measured \in SUBSET Notices
        /\ HasWorst((reasons \cup postroll) \cup measured)
    BY <2>1, <2>2, WorstOfBoth
  <2> QED BY <2>1, <2>3, WorstOfBoth
<1>6. Kept(s, raised)
  BY <1>4 DEF IndicatorState, Kept
<1> HIDE DEF s, ns
<1>7. Kept(session, raised)'
  BY <1>2, <1>4, <1>5, <1>6, NotifyAllKeeps
<1>8. Alike(session, session')
  BY <1>2, <1>4, NotifyAllAlike, AlikeTwice
<1>9. I!FinishWork \in Jobs /\ I!FinishWork.c = session.current /\ I!FinishWork.end = frames
  BY DEF I!FinishWork, Jobs, IndicatorState, SessionOK, WrittenOK
<1>10. SessionOK(session)' /\ (WrittenOK /\ WorkOK /\ ResultsOK)'
  BY <1>1, <1>8, <1>9, QueuesStay
<1> QED BY <1>7, <1>10 DEF IndicatorState

LEMMA IndicatorEnd == ASSUME IndicatorState, I!End \/ I!CapKept PROVE IndicatorState'
<1>1. session.state = "recording" /\ UNCHANGED <<status, frames, results, written>>
  BY DEF I!End, I!CapKept
<1>2. DOMAIN session = SessionFields
  BY DEF IndicatorState, SessionOK
<1> DEFINE capped == [I!Ended(session) EXCEPT !.previews = "capped"]
<1>3. /\ Alike(session, I!Ended(session)) /\ I!Ended(session).notice = session.notice
      /\ Alike(session, capped) /\ capped.notice = session.notice
  BY <1>1, <1>2 DEF I!Ended, Alike, SessionFields
<1>4. HasWorst({}) /\ \A n \in Notices : HasWorst({n})
  BY Ranks DEF HasWorst
<1>5. \/ \E reasons \in {{}, {"SilenceTimeout"}, {"LengthLimit"}, {"KeptTooLong"}} :
           I!Releases(I!Ended(session), reasons)
      \/ I!Releases(capped, {"MemoryCap"})
  BY DEF I!End, I!CapKept
<1> HIDE DEF capped
<1>6. \A reasons \in {{}, {"SilenceTimeout"}, {"LengthLimit"}, {"KeptTooLong"}, {"MemoryCap"}} :
        reasons \in SUBSET Notices /\ HasWorst(reasons)
  BY <1>4, NoticesAre
<1>7. CASE I!Releases(capped, {"MemoryCap"})
  BY <1>1, <1>3, <1>6, <1>7, IndicatorReleases
<1>8. ASSUME NEW reasons \in {{}, {"SilenceTimeout"}, {"LengthLimit"}, {"KeptTooLong"}},
             I!Releases(I!Ended(session), reasons)
      PROVE  IndicatorState'
  <2>1. reasons \in SUBSET Notices /\ HasWorst(reasons)
    BY <1>6
  <2> QED BY <1>1, <1>3, <1>8, <2>1, IndicatorReleases
<1> QED BY <1>5, <1>7, <1>8

LEMMA IndicatorDiscard == ASSUME IndicatorState, I!Discard PROVE IndicatorState'
<1> DEFINE s == [session EXCEPT !.state = "idle", !.tick = "idle", !.preview = {}]
<1>1. DOMAIN session = SessionFields /\ UNCHANGED <<status, frames, work, results, written>>
  BY DEF IndicatorState, SessionOK, I!Discard
<1>2. /\ Alike(session, s) /\ s.notice = session.notice /\ "notice" \in DOMAIN s
      /\ DOMAIN s = SessionFields
  BY <1>1 DEF Alike, SessionFields
<1>3. Kept(s, raised)
  BY <1>2 DEF IndicatorState, Kept
<1>4. \/ \E n \in {"HeldTooBriefly", "Cancelled"} :
           session' = I!Notify(s, n) /\ raised' = raised \cup {n}
      \/ session' = s /\ raised' = raised
  BY DEF I!Discard, I!Raises
<1> HIDE DEF s
<1>5. Alike(session, session') /\ Kept(session, raised)'
  <2>1. CASE session' = s /\ raised' = raised
    BY <2>1, <1>2, <1>3
  <2>2. ASSUME NEW n \in {"HeldTooBriefly", "Cancelled"},
               session' = I!Notify(s, n), raised' = raised \cup {n}
        PROVE  Alike(session, session') /\ Kept(session, raised)'
    <3>1. Alike(s, session')
      BY <1>2, <2>2, NotifyAlike
    <3>2. n \in Notices
      BY NoticesAre
    <3> QED BY <1>2, <1>3, <2>2, <3>1, <3>2, AlikeTwice, NotifyKeeps
  <2> QED BY <1>4, <2>1, <2>2
<1>6. SessionOK(session)' /\ (WrittenOK /\ WorkOK /\ ResultsOK)'
  BY <1>1, <1>5, QueuesStay
<1> QED BY <1>1, <1>5, <1>6 DEF IndicatorState

LEMMA IndicatorReport ==
  ASSUME IndicatorState, NEW n \in Reported, I!Report(n) PROVE IndicatorState'
<1>1. DOMAIN session = SessionFields /\ "notice" \in DOMAIN session /\ n \in Notices
  BY NoticesAre DEF IndicatorState, SessionOK, SessionFields
<1>2. /\ session' = I!Notify(session, n) /\ raised' = raised \cup {n}
      /\ UNCHANGED <<status, frames, work, results, written>>
  BY DEF I!Report, I!Raises
<1>3. Kept(session, raised)'
  BY <1>1, <1>2, NotifyKeeps DEF IndicatorState
<1>4. SessionOK(session)' /\ (WrittenOK /\ WorkOK /\ ResultsOK)'
  BY <1>1, <1>2, NotifyAlike, QueuesStay
<1> QED BY <1>2, <1>3, <1>4 DEF IndicatorState

(* A pause of the previews that is over is no longer of the notices raised. *)
LEMMA IndicatorTick == ASSUME IndicatorState, I!TickRequested PROVE IndicatorState'
<1> DEFINE asked == [session EXCEPT !.tick = "pending"]
           paused == [asked EXCEPT !.previews = "paused"]
           resumed == [asked EXCEPT !.previews = "running",
                         !.notice = IF @ = "PreviewPaused" THEN I!NoNotice ELSE @]
           job == [kind |-> "tick", c |-> session.current, end |-> frames,
                   previewed |-> frames - session.hint <= Window]
<1>1. DOMAIN session = SessionFields /\ UNCHANGED <<status, frames, results, written>>
      /\ session.state = "recording" /\ work' = Append(work, job)
  BY DEF IndicatorState, SessionOK, I!TickRequested
<1>2. /\ Alike(session, asked) /\ asked.notice = session.notice
      /\ Alike(session, paused) /\ paused.notice = session.notice /\ DOMAIN paused = SessionFields
      /\ Alike(session, resumed) /\ "notice" \in DOMAIN paused
      /\ resumed.notice = IF session.notice = "PreviewPaused" THEN I!NoNotice ELSE session.notice
  BY <1>1 DEF Alike, SessionFields
<1>3. \/ session' = I!Notify(paused, "PreviewPaused") /\ raised' = raised \cup {"PreviewPaused"}
      \/ session' = resumed /\ raised' = raised \ {"PreviewPaused"}
      \/ session' = asked /\ raised' = raised
  BY DEF I!TickRequested, I!DeferPreviews, I!ResumePreviews, I!Raises
<1>4. job \in Jobs /\ job.c = session.current /\ job.end = frames
  <2>1. frames \in Nat /\ session.current \in I!Captures
    BY <1>1 DEF IndicatorState, SessionOK, WrittenOK
  <2> QED BY <2>1 DEF Jobs
<1> HIDE DEF asked, paused, resumed, job
<1>5. Alike(session, session')
  BY <1>2, <1>3, NotifyAlike, AlikeTwice
<1>6. Kept(session, raised)'
  <2>1. CASE session' = asked /\ raised' = raised
    BY <2>1, <1>2 DEF IndicatorState, Kept
  <2>2. CASE session' = I!Notify(paused, "PreviewPaused") /\ raised' = raised \cup {"PreviewPaused"}
    <3>1. Kept(paused, raised)
      BY <1>2 DEF IndicatorState, Kept
    <3> QED BY <2>2, <1>2, <3>1, NotifyKeeps, NoticesAre
  <2>3. CASE session' = resumed /\ raised' = raised \ {"PreviewPaused"}
    <3>1. CASE session.notice # "PreviewPaused"
      BY <2>3, <3>1, <1>2 DEF IndicatorState, Kept
    <3>2. CASE session.notice = "PreviewPaused"
      <4>1. \A n \in raised : n \in Notices /\ I!Rank(n) <= 1
        BY <3>2, NoticesAre DEF IndicatorState, Kept
      <4>2. \A n \in raised : n = "PreviewPaused"
        <5> SUFFICES ASSUME NEW n \in raised PROVE n = "PreviewPaused"
          OBVIOUS
        <5>1. I!Rank(n) \in 1..20 /\ I!Priority[I!Rank(n)] = n
              /\ I!Priority[I!Rank("PreviewPaused")] = "PreviewPaused"
          BY <4>1, Ranks, NoticesAre
        <5>2. I!Rank(n) = 1
          BY <4>1, <5>1
        <5> QED BY <5>1, <5>2, NoticesAre
      <4>3. raised' = {}
        BY <2>3, <4>2
      <4> QED BY <2>3, <3>2, <4>3, <1>2 DEF Kept
    <3> QED BY <3>1, <3>2
  <2> QED BY <1>3, <2>1, <2>2, <2>3
<1>7. SessionOK(session)' /\ (WrittenOK /\ WorkOK /\ ResultsOK)'
  BY <1>1, <1>4, <1>5, QueuesStay
<1> QED BY <1>1, <1>6, <1>7 DEF IndicatorState

LEMMA IndicatorModel == ASSUME IndicatorState, I!ModelChanges PROVE IndicatorState'
<1>1. UNCHANGED <<session, frames, work, results, written, raised>> /\ status' \in Models
  BY DEF I!ModelChanges, Models
<1> QED BY <1>1 DEF IndicatorState, WrittenOK, WorkOK, ResultsOK, Told

LEMMA TailIsSeen ==
  ASSUME NEW T, NEW s \in Seq(T), s # <<>>
  PROVE  /\ Head(s) \in T /\ Head(s) = s[1] /\ 1 \in DOMAIN s
         /\ Tail(s) \in Seq(T)
         /\ \A k \in DOMAIN Tail(s) : k + 1 \in DOMAIN s /\ 1 < k + 1 /\ Tail(s)[k] = s[k + 1]
         /\ \A j, k \in DOMAIN Tail(s) : j < k => j + 1 < k + 1
BY HeadTailProperties, LenProperties, EmptySeq

LEMMA IndicatorDecode == ASSUME IndicatorState, I!Decode PROVE IndicatorState'
<1> DEFINE job == Head(work)
           c == job.c
           from == written[c]
<1>1. work # <<>> /\ work' = Tail(work) /\ UNCHANGED <<session, status, frames, raised>>
  BY Zenon DEF I!Decode
<1>2. /\ job \in Jobs /\ job = work[1] /\ 1 \in DOMAIN work /\ work' \in Seq(Jobs)
      /\ \A k \in DOMAIN work' : k + 1 \in DOMAIN work /\ 1 < k + 1 /\ work'[k] = work[k + 1]
      /\ \A i, k \in DOMAIN work' : i < k => i + 1 < k + 1
      /\ \A k \in DOMAIN work : work[k] \in Jobs
  BY <1>1, TailIsSeen, ElementOfSeq, LenProperties DEF IndicatorState, WorkOK
<1>3. /\ c \in I!Captures /\ job.end \in Nat /\ from \in Nat /\ c <= session.current
      /\ from <= job.end /\ (c = session.current => job.end <= frames)
      /\ written \in [I!Captures -> Nat] /\ frames \in Nat
      /\ c \in Nat /\ session.current \in Nat /\ session.epoch \in Nat
      /\ (c = session.current => session.epoch <= from)
  <2>1. c \in I!Captures /\ job.end \in Nat
    BY <1>2 DEF Jobs
  <2>2. /\ written \in [I!Captures -> Nat] /\ frames \in Nat
        /\ session.current \in I!Captures => session.epoch <= written[session.current]
    BY DEF IndicatorState, WrittenOK
  <2>3. job.c <= session.current /\ written[job.c] <= job.end
        /\ (job.c = session.current => job.end <= frames)
    BY <1>2 DEF IndicatorState, WorkOK
  <2>4. session.current \in Nat /\ session.epoch \in Nat /\ c \in Nat
    BY <2>1, CaptureAssumptions DEF IndicatorState, SessionOK, I!Captures, I!IndicatorAssumption
  <2>5. from \in Nat
    BY <2>1, <2>2
  <2> QED BY <2>1, <2>2, <2>3, <2>4, <2>5
<1>4. \E t \in from..job.end, r \in Results :
        /\ written' = [written EXCEPT ![c] = t]
        /\ \/ results' = (results \o <<I!Commit(c, t)>>) \o <<r>>
           \/ results' = (results \o <<>>) \o <<r>>
        /\ r.c = c /\ (OfText(r) => r.through = t)
        /\ r.kind = "tick" => r.words \cap 1..t = {}
  <2>0. \/ /\ job.kind = "tick"
           /\ \E t \in from..job.end : \E words \in SUBSET ((t + 1)..job.end) :
                /\ ~job.previewed => words = {}
                /\ results' = results
                     \o (IF t > from THEN <<I!Commit(c, t)>> ELSE <<>>)
                     \o <<[kind |-> "tick", c |-> c, previewed |-> job.previewed,
                           words |-> words, through |-> t]>>
                /\ written' = [written EXCEPT ![c] = t]
        \/ /\ job.kind = "finish"
           /\ results' = results
                \o (IF job.end > from THEN <<I!Commit(c, job.end)>> ELSE <<>>)
                \o <<[kind |-> "finished", c |-> c]>>
           /\ written' = [written EXCEPT ![c] = job.end]
    BY Zenon DEF I!Decode
  <2>1. CASE job.kind = "tick"
    <3> HIDE DEF job, c, from
    <3>1. PICK t \in from..job.end : \E words \in SUBSET ((t + 1)..job.end) :
            /\ results' = (results \o (IF t > from THEN <<I!Commit(c, t)>> ELSE <<>>))
                 \o <<[kind |-> "tick", c |-> c, previewed |-> job.previewed,
                       words |-> words, through |-> t]>>
            /\ written' = [written EXCEPT ![c] = t]
      BY <2>0, <2>1
    <3>2. PICK words \in SUBSET ((t + 1)..job.end) :
            /\ results' = (results \o (IF t > from THEN <<I!Commit(c, t)>> ELSE <<>>))
                 \o <<[kind |-> "tick", c |-> c, previewed |-> job.previewed,
                       words |-> words, through |-> t]>>
            /\ written' = [written EXCEPT ![c] = t]
      BY <3>1
    <3> DEFINE r == [kind |-> "tick", c |-> c, previewed |-> job.previewed,
                     words |-> words, through |-> t]
    <3>3. t \in Nat /\ words \in SUBSET Nat /\ words \cap 1..t = {} /\ job.previewed \in BOOLEAN
      BY <1>2, <1>3 DEF Jobs
    <3>4. r \in Results /\ r.c = c /\ r.through = t /\ r.words \cap 1..t = {}
      BY <1>3, <3>3 DEF Results
    <3> HIDE DEF r
    <3>5. \/ results' = (results \o <<I!Commit(c, t)>>) \o <<r>>
          \/ results' = (results \o <<>>) \o <<r>>
      BY <3>2 DEF r
    <3> QED BY <3>2, <3>4, <3>5
  <2>2. CASE job.kind = "finish"
    <3> HIDE DEF job, c, from
    <3>1. /\ results' = (results \o (IF job.end > from THEN <<I!Commit(c, job.end)>> ELSE <<>>))
                          \o <<[kind |-> "finished", c |-> c]>>
          /\ written' = [written EXCEPT ![c] = job.end]
      BY <2>0, <2>2
    <3> DEFINE r == [kind |-> "finished", c |-> c]
    <3>2. r \in Results /\ r.c = c /\ ~OfText(r) /\ r.kind # "tick" /\ job.end \in from..job.end
      BY <1>3 DEF Results, OfText
    <3>3. \/ results' = (results \o <<I!Commit(c, job.end)>>) \o <<r>>
          \/ results' = (results \o <<>>) \o <<r>>
      BY <3>1
    <3> HIDE DEF r
    <3> QED BY <3>1, <3>2, <3>3
  <2> QED BY <1>2, <2>1, <2>2 DEF Jobs
<1> HIDE DEF job, c, from
<1>5. PICK t \in from..job.end, r \in Results :
        /\ written' = [written EXCEPT ![c] = t]
        /\ \/ results' = (results \o <<I!Commit(c, t)>>) \o <<r>>
           \/ results' = (results \o <<>>) \o <<r>>
        /\ r.c = c /\ (OfText(r) => r.through = t)
        /\ r.kind = "tick" => r.words \cap 1..t = {}
  BY <1>4
<1>6. /\ t \in Nat /\ from <= t /\ t <= job.end /\ written' \in [I!Captures -> Nat]
      /\ written'[c] = t /\ \A d \in I!Captures : d # c => written'[d] = written[d]
      /\ \A d \in I!Captures : written[d] <= written'[d]
  <2>1. t \in Nat /\ from <= t /\ t <= job.end
    BY <1>3
  <2>2. /\ written' \in [I!Captures -> Nat] /\ written'[c] = t
        /\ \A d \in I!Captures : d # c => written'[d] = written[d]
    BY <1>3, <1>5, <2>1
  <2>3. \A d \in I!Captures : written[d] \in Nat /\ (d = c => written[d] = from)
    BY <1>3 DEF from
  <2> QED BY <2>1, <2>2, <2>3
<1>7. I!Commit(c, t) \in Results /\ Fits(I!Commit(c, t), written')
  <2>1. I!Commit(c, t) \in Results /\ I!Commit(c, t).c = c /\ I!Commit(c, t).through = t
        /\ I!Commit(c, t).kind = "commit"
    BY <1>3, <1>6 DEF I!Commit, Results
  <2> QED BY <1>3, <1>6, <2>1 DEF Fits
<1>8. Fits(r, written')
  BY <1>3, <1>5, <1>6 DEF Fits, OfText
<1>9. Told(results, written') /\ results \in Seq(Results)
  BY <1>3, <1>6, ToldMore DEF IndicatorState, ResultsOK, Told
<1>10. Told(Append(results, I!Commit(c, t)), written')
       /\ Append(results, I!Commit(c, t)) \in Seq(Results)
  BY <1>6, <1>7, <1>9, ToldOne DEF Told
<1>11. ResultsOK'
  <2>1. \/ results' = Append(Append(results, I!Commit(c, t)), r)
        \/ results' = Append(results, r)
    <3>1. results \o <<I!Commit(c, t)>> = Append(results, I!Commit(c, t))
          /\ results \o <<>> = results
      BY <1>7, <1>9, AppendIsConcat, ConcatEmptySeq
    <3>2. /\ Append(results, I!Commit(c, t)) \o <<r>> = Append(Append(results, I!Commit(c, t)), r)
          /\ results \o <<r>> = Append(results, r)
      BY <1>9, <1>10, AppendIsConcat
    <3> QED BY <1>5, <3>1, <3>2
  <2>2. Told(results', written')
    BY <1>6, <1>8, <1>9, <1>10, <2>1, ToldOne
  <2> QED BY <1>1, <2>2 DEF ResultsOK, Told
<1>12. WrittenOK'
  <2>1. \A d \in I!Captures : session.current < d => written[d] = 0 /\ d # c
    BY <1>3 DEF IndicatorState, WrittenOK, I!Captures
  <2>2. session.current \in I!Captures =>
          session.epoch <= written'[session.current] /\ written'[session.current] <= frames
    <3>1. CASE session.current = c
      BY <1>3, <1>6, <3>1
    <3>2. CASE session.current # c
      BY <1>6, <3>2 DEF IndicatorState, WrittenOK
    <3> QED BY <3>1, <3>2
  <2> QED BY <1>1, <1>3, <1>6, <2>1, <2>2 DEF WrittenOK
<1>13. WorkOK'
  <2>1. ASSUME NEW k \in DOMAIN work'
        PROVE  /\ work'[k].c <= session.current /\ written'[work'[k].c] <= work'[k].end
               /\ work'[k].c = session.current => work'[k].end <= frames
    <3>1. k + 1 \in DOMAIN work /\ 1 < k + 1 /\ work'[k] = work[k + 1] /\ work[k + 1] \in Jobs
      BY <1>2, <2>1
    <3>2. work[k + 1].c \in I!Captures /\ work[k + 1].end \in Nat
      BY <3>1 DEF Jobs
    <3>3. /\ work[k + 1].c <= session.current
          /\ written[work[k + 1].c] <= work[k + 1].end
          /\ work[k + 1].c = session.current => work[k + 1].end <= frames
      BY <3>1 DEF IndicatorState, WorkOK
    <3>4. written'[work[k + 1].c] <= work[k + 1].end
      <4>1. CASE work[k + 1].c = c
        <5>1. job.end <= work[k + 1].end
          BY <1>2, <3>1, <4>1 DEF IndicatorState, WorkOK, c
        <5> QED BY <1>3, <1>6, <3>2, <4>1, <5>1
      <4>2. CASE work[k + 1].c # c
        BY <1>6, <3>2, <3>3, <4>2
      <4> QED BY <4>1, <4>2
    <3> QED BY <3>1, <3>3, <3>4
  <2>2. ASSUME NEW i \in DOMAIN work', NEW k \in DOMAIN work', i < k, work'[i].c = work'[k].c
        PROVE  work'[i].end <= work'[k].end
    <3>1. i + 1 \in DOMAIN work /\ k + 1 \in DOMAIN work /\ i + 1 < k + 1
          /\ work'[i] = work[i + 1] /\ work'[k] = work[k + 1]
      BY <1>2, <2>2
    <3> QED BY <2>2, <3>1 DEF IndicatorState, WorkOK
  <2> QED BY <1>1, <1>2, <2>1, <2>2 DEF WorkOK
<1> QED BY <1>1, <1>11, <1>12, <1>13 DEF IndicatorState

LEMMA IndicatorHear == ASSUME IndicatorState, I!Hear PROVE IndicatorState'
<1> DEFINE r == Head(results)
<1>1. results # <<>> /\ results' = Tail(results)
      /\ UNCHANGED <<status, frames, work, written, raised>>
  BY DEF I!Hear
<1>2. /\ r \in Results /\ r = results[1] /\ 1 \in DOMAIN results /\ results' \in Seq(Results)
      /\ \A k \in DOMAIN results' :
           k + 1 \in DOMAIN results /\ 1 < k + 1 /\ results'[k] = results[k + 1]
      /\ \A i, k \in DOMAIN results' : i < k => i + 1 < k + 1
  BY <1>1, TailIsSeen DEF IndicatorState, ResultsOK, Told
<1>3. /\ \/ r.c # session.current /\ UNCHANGED session
         \/ r.c = session.current /\ r.kind = "commit" /\ session' = I!NoteCommit(session, r.through)
         \/ r.c = session.current /\ r.kind = "tick" /\ session' = I!TickFinished(session, r)
         \/ r.c = session.current /\ r.kind = "finished" /\ session' = I!Finish(session)
      /\ SessionOK(session) /\ Kept(session, raised) /\ WrittenOK /\ WorkOK
  BY DEF I!Hear, IndicatorState
<1>4. /\ r.c = session.current /\ OfText(r) =>
           /\ r.through \in Nat /\ session.epoch <= r.through
           /\ r.through <= written[session.current]
      /\ r.kind = "tick" => r.words \cap 1..r.through = {}
  BY <1>2, TextIsTyped DEF IndicatorState, ResultsOK, Told
<1>5. \A k \in DOMAIN results' :
        /\ results'[k].c <= session.current
        /\ OfText(results'[k]) =>
             /\ results'[k].through <= written[results'[k].c]
             /\ results'[k].c = session.current =>
                  /\ session.epoch <= results'[k].through
                  /\ results'[k].c = r.c /\ OfText(r) => r.through <= results'[k].through
        /\ results'[k].kind = "tick" => results'[k].words \cap 1..results'[k].through = {}
  BY <1>2 DEF IndicatorState, ResultsOK, Told
<1>6. \A i, k \in DOMAIN results' :
        i < k /\ results'[i].c = results'[k].c /\ OfText(results'[i]) /\ OfText(results'[k])
        => results'[i].through <= results'[k].through
  BY <1>2 DEF IndicatorState, ResultsOK, Told
<1> HIDE DEF r
<1>7. ASSUME session'.current = session.current, SessionOK(session'),
             session'.notice = session.notice,
             \/ session'.epoch = session.epoch
             \/ OfText(r) /\ r.c = session.current /\ session'.epoch = r.through
      PROVE  IndicatorState'
  <2>1. Kept(session, raised)'
    BY <1>1, <1>3, <1>7 DEF Kept
  <2>2. WrittenOK'
    BY <1>1, <1>3, <1>4, <1>7 DEF WrittenOK
  <2>3. WorkOK'
    BY <1>1, <1>3, <1>7 DEF WorkOK
  <2>4. ResultsOK'
    BY <1>1, <1>2, <1>5, <1>6, <1>7 DEF ResultsOK, Told
  <2> QED BY <1>1, <1>7, <2>1, <2>2, <2>3, <2>4 DEF IndicatorState
<1>8. CASE r.c # session.current /\ UNCHANGED session
  BY <1>3, <1>7, <1>8
<1>9. CASE r.c = session.current /\ r.kind = "commit"
           /\ session' = I!NoteCommit(session, r.through)
  <2>1. OfText(r) /\ r.through \in Nat /\ session.epoch <= r.through
    BY <1>4, <1>9 DEF OfText
  <2>2. /\ DOMAIN session' = DOMAIN session /\ session'.current = session.current
        /\ session'.state = session.state /\ session'.notice = session.notice
        /\ session'.hint = IF r.through > session.hint THEN r.through ELSE session.hint
        /\ session'.epoch = IF r.through > session.epoch THEN r.through ELSE session.epoch
        /\ session'.preview = IF r.through > session.epoch THEN {} ELSE session.preview
    BY <1>3, <1>9 DEF I!NoteCommit, SessionOK, SessionFields
  <2>3. session'.epoch = r.through /\ session'.hint <= session'.epoch /\ session'.hint \in Nat
        /\ session'.preview \cap 1..session'.epoch = {}
    BY <1>3, <2>1, <2>2 DEF SessionOK
  <2>4. SessionOK(session')
    BY <1>3, <2>1, <2>2, <2>3 DEF SessionOK
  <2> QED BY <1>7, <1>9, <2>1, <2>2, <2>3, <2>4
<1>10. CASE r.c = session.current /\ r.kind = "tick" /\ session' = I!TickFinished(session, r)
  <2>1. OfText(r) /\ r.through \in Nat /\ session.epoch <= r.through
        /\ r.words \cap 1..r.through = {}
    BY <1>4, <1>10 DEF OfText
  <2> DEFINE armed == [session EXCEPT !.tick = IF session.previews = "capped" THEN "idle" ELSE "due"]
             moved == [armed EXCEPT
               !.epoch = IF r.through > armed.epoch THEN r.through ELSE armed.epoch,
               !.preview = IF r.through > session.epoch THEN {} ELSE armed.preview]
             shown == [moved EXCEPT !.preview = r.words]
  <2>2. session' \in {session, armed, moved, shown}
    BY <1>10 DEF I!TickFinished
  <2>3. CASE session' \in {session, armed}
    <3>1. DOMAIN session' = DOMAIN session /\ session'.current = session.current
          /\ session'.state = session.state /\ session'.notice = session.notice
          /\ session'.hint = session.hint /\ session'.epoch = session.epoch
          /\ session'.preview = session.preview
      BY <1>3, <2>3 DEF SessionOK, SessionFields
    <3> QED BY <1>3, <1>7, <3>1 DEF SessionOK
  <2>4. CASE session' \in {moved, shown}
    <3>1. /\ DOMAIN session' = DOMAIN session /\ session'.current = session.current
          /\ session'.state = session.state /\ session'.notice = session.notice
          /\ session'.hint = session.hint
          /\ session'.epoch = IF r.through > session.epoch THEN r.through ELSE session.epoch
          /\ \/ session'.preview = IF r.through > session.epoch THEN {} ELSE session.preview
             \/ session'.preview = r.words
      BY <1>3, <2>4 DEF SessionOK, SessionFields
    <3>2. session'.epoch = r.through /\ session'.hint <= session'.epoch
          /\ session'.preview \cap 1..session'.epoch = {}
      BY <1>3, <2>1, <3>1 DEF SessionOK
    <3>3. SessionOK(session')
      BY <1>3, <2>1, <3>1, <3>2 DEF SessionOK
    <3> QED BY <1>7, <1>10, <2>1, <3>1, <3>2, <3>3
  <2> QED BY <2>2, <2>3, <2>4
<1>11. CASE r.c = session.current /\ r.kind = "finished" /\ session' = I!Finish(session)
  <2>1. /\ DOMAIN session' = DOMAIN session /\ session'.current = session.current
        /\ session'.state = (IF session.state = "transcribing" THEN "idle" ELSE session.state)
        /\ session'.notice = session.notice /\ session'.hint = session.hint
        /\ session'.epoch = session.epoch /\ session'.preview = {}
    BY <1>3, <1>11 DEF I!Finish, SessionOK, SessionFields
  <2>2. SessionOK(session')
    BY <1>3, <2>1 DEF SessionOK
  <2> QED BY <1>7, <2>1, <2>2
<1> QED BY <1>3, <1>8, <1>9, <1>10, <1>11

LEMMA StepIndicator == IndicatorInv /\ [Next]_vars => IndicatorInv'
<1> SUFFICES ASSUME IndicatorInv, [Next]_vars, component' = "indicator" PROVE IndicatorState'
  BY DEF IndicatorInv
<1>1. CASE UNCHANGED vars
  BY <1>1 DEF vars, indicatorVars, IndicatorInv, IndicatorState, WrittenOK, WorkOK, ResultsOK, Told
<1>2. CASE component = "indicator" /\ I!Next
  <2>1. IndicatorState
    BY <1>2 DEF IndicatorInv
  <2> QED BY <1>2, <2>1, IndicatorStart, IndicatorSpeak, IndicatorEnd, IndicatorDiscard,
             IndicatorReport, IndicatorTick, IndicatorDecode, IndicatorHear, IndicatorModel
          DEF I!Next
<1> QED BY <1>1, <1>2 DEF Next

(* What of a capture is in the window as text is not in it as a preview too,
   however commits and previews arrive (`note_commit`, `tick_finished`), and the
   notice shown is the worst raised since the key was pressed, whatever was
   raised with it and in whichever order (`notify`, `shown_notice`). *)
THEOREM WindowShowsWhatIs == Spec => []ShowsWhatIs
<1>1. IndicatorInv => ShowsWhatIs
  <2> SUFFICES ASSUME IndicatorInv, component = "indicator"
               PROVE  I!PreviewIsUnwritten /\ I!WorstIsShown
    BY DEF ShowsWhatIs
  <2>1. SessionOK(session) /\ Kept(session, raised) /\ status \in Models
    BY DEF IndicatorInv, IndicatorState
  <2>2. I!PreviewIsUnwritten
    BY <2>1 DEF I!PreviewIsUnwritten, SessionOK
  <2>3. I!StatusNotice \in Notices \cup {I!NoNotice}
    BY <2>1, NoticesAre DEF I!StatusNotice, Models
  <2>4. \A n \in Notices \cup {I!NoNotice} : I!Rank(n) \in Nat
    BY Ranks
  <2>5. \A n \in raised : I!Rank(n) <= I!Rank(session.notice) /\ n \in Notices
    BY <2>1 DEF Kept
  <2>6. session.notice \in Notices \cup {I!NoNotice}
    BY <2>1 DEF Kept
  <2>7. I!Rank(I!NoNotice) = 0
    BY Ranks
  <2> QED BY <2>2, <2>3, <2>4, <2>5, <2>6, <2>7 DEF I!WorstIsShown, I!ShownNotice
<1> QED BY <1>1, InitIndicator, StepIndicator, PTL DEF Spec

-----------------------------------------------------------------------------
(* The microphone.  What was delivered to the capture is what its writer has
   written and then what is queued for it: the `i`-th buffer in the queue ends
   where the capture had `ends[i]` samples. *)
Chain(w, q, a) ==
  /\ w \in Seq(Nat) /\ q \in Seq(Seq(Nat)) /\ a \in Seq(Nat)
  /\ \E ends \in [0..Len(q) -> 0..Len(a)] :
       /\ ends[0] = Len(w) /\ ends[Len(q)] = Len(a)
       /\ \A j \in 1..Len(w) : w[j] = a[j]
       /\ \A i \in 1..Len(q) :
            /\ ends[i] = ends[i - 1] + Len(q[i])
            /\ \A j \in 1..Len(q[i]) : q[i][j] = a[ends[i - 1] + j]

LEMMA ChainBegins == Chain(<<>>, <<>>, <<>>)
<1> DEFINE ends == [i \in 0..0 |-> 0]
<1>1. <<>> \in Seq(Nat) /\ <<>> \in Seq(Seq(Nat)) /\ Len(<<>>) = 0
  OBVIOUS
<1>2. ends \in [0..0 -> 0..0] /\ ends[0] = 0
  OBVIOUS
<1> HIDE DEF ends
<1>3. /\ ends \in [0..Len(<<>>) -> 0..Len(<<>>)] /\ ends[0] = Len(<<>>) /\ ends[Len(<<>>)] = Len(<<>>)
      /\ 1..Len(<<>>) = {}
  BY <1>1, <1>2
<1> QED BY <1>1, <1>3 DEF Chain

LEMMA ChainGrows ==
  ASSUME NEW w, NEW q, NEW a, Chain(w, q, a), NEW s \in Seq(Nat)
  PROVE  Chain(w, Append(q, s), a \o s)
<1> DEFINE q2 == Append(q, s)
           a2 == a \o s
<1>1. /\ w \in Seq(Nat) /\ q \in Seq(Seq(Nat)) /\ a \in Seq(Nat)
      /\ Len(w) \in Nat /\ Len(q) \in Nat /\ Len(a) \in Nat /\ Len(s) \in Nat
  BY LenProperties DEF Chain
<1>2. PICK ends \in [0..Len(q) -> 0..Len(a)] :
        /\ ends[0] = Len(w) /\ ends[Len(q)] = Len(a)
        /\ \A j \in 1..Len(w) : w[j] = a[j]
        /\ \A i \in 1..Len(q) :
             /\ ends[i] = ends[i - 1] + Len(q[i])
             /\ \A j \in 1..Len(q[i]) : q[i][j] = a[ends[i - 1] + j]
  BY DEF Chain
<1>3. /\ q2 \in Seq(Seq(Nat)) /\ Len(q2) = Len(q) + 1 /\ q2[Len(q) + 1] = s
      /\ \A i \in 1..Len(q) : q2[i] = q[i]
  BY <1>1, AppendProperties
<1>4. /\ a2 \in Seq(Nat) /\ Len(a2) = Len(a) + Len(s)
      /\ \A j \in 1..Len(a) : a2[j] = a[j]
      /\ \A j \in 1..Len(s) : a2[Len(a) + j] = s[j]
  <2>1. a2 \in Seq(Nat) /\ Len(a2) = Len(a) + Len(s)
        /\ \A i \in 1..Len(a) + Len(s) : a2[i] = IF i <= Len(a) THEN a[i] ELSE s[i - Len(a)]
    BY <1>1, ConcatProperties
  <2>2. ASSUME NEW j \in 1..Len(s) PROVE a2[Len(a) + j] = s[j]
    <3>1. Len(a) + j \in 1..Len(a) + Len(s) /\ ~(Len(a) + j <= Len(a)) /\ (Len(a) + j) - Len(a) = j
      BY <1>1
    <3> QED BY <2>1, <3>1
  <2> QED BY <1>1, <2>1, <2>2
<1> HIDE DEF q2, a2
<1> DEFINE ends2 == [i \in 0..Len(q2) |-> IF i = Len(q) + 1 THEN Len(a2) ELSE ends[i]]
<1>5. ends2 \in [0..Len(q2) -> 0..Len(a2)]
  <2> SUFFICES ASSUME NEW i \in 0..Len(q2)
               PROVE  (IF i = Len(q) + 1 THEN Len(a2) ELSE ends[i]) \in 0..Len(a2)
    OBVIOUS
  <2>1. CASE i = Len(q) + 1
    BY <1>1, <1>4, <2>1
  <2>2. CASE i # Len(q) + 1
    <3>1. i \in 0..Len(q)
      BY <1>1, <1>3, <2>2
    <3>2. ends[i] \in 0..Len(a)
      BY <3>1
    <3> QED BY <1>1, <1>4, <2>2, <3>2
  <2> QED BY <2>1, <2>2
<1>6. ends2[Len(q2)] = Len(a2) /\ \A i \in 0..Len(q) : ends2[i] = ends[i]
  BY <1>1, <1>3
<1> HIDE DEF ends2
<1>7. ends2[0] = Len(w) /\ \A j \in 1..Len(w) : w[j] = a2[j]
  <2>1. Len(w) <= Len(a)
    <3>1. 0 \in 0..Len(q)
      BY <1>1
    <3>2. ends[0] \in 0..Len(a)
      BY <3>1
    <3> QED BY <1>1, <1>2, <3>2
  <2> QED BY <1>1, <1>2, <1>4, <1>6, <2>1
<1>8. ASSUME NEW i \in 1..Len(q2)
      PROVE  /\ ends2[i] = ends2[i - 1] + Len(q2[i])
             /\ \A j \in 1..Len(q2[i]) : q2[i][j] = a2[ends2[i - 1] + j]
  <2>1. CASE i = Len(q) + 1
    <3>1. /\ i - 1 = Len(q) /\ q2[i] = s /\ ends2[i - 1] = Len(a) /\ ends2[i] = Len(a2)
      BY <1>1, <1>2, <1>3, <1>6, <2>1
    <3> QED BY <1>4, <3>1
  <2>2. CASE i # Len(q) + 1
    <3>1. i \in 1..Len(q) /\ i - 1 \in 0..Len(q) /\ i \in 0..Len(q)
      BY <1>1, <1>3, <2>2
    <3>2. /\ q2[i] = q[i] /\ ends2[i] = ends[i] /\ ends2[i - 1] = ends[i - 1]
          /\ ends[i] \in 0..Len(a) /\ ends[i - 1] \in 0..Len(a)
      BY <1>3, <1>6, <3>1
    <3>3. Len(q[i]) \in Nat
      BY <1>1, <3>1, ElementOfSeq, LenProperties
    <3>4. /\ ends[i] = ends[i - 1] + Len(q[i])
          /\ \A j \in 1..Len(q[i]) : q[i][j] = a[ends[i - 1] + j]
      BY <1>2, <3>1
    <3>5. \A j \in 1..Len(q[i]) : ends[i - 1] + j \in 1..Len(a)
      <4>1. \A x, y, n, m \in Nat : x = y + n /\ x <= m => \A j \in 1..n : y + j \in 1..m
        OBVIOUS
      <4>2. ends[i] \in Nat /\ ends[i - 1] \in Nat /\ ends[i] <= Len(a)
        BY <1>1, <3>2
      <4> QED BY <1>1, <3>3, <3>4, <4>1, <4>2
    <3>6. ASSUME NEW j \in 1..Len(q2[i]) PROVE q2[i][j] = a2[ends2[i - 1] + j]
      BY <1>4, <3>2, <3>4, <3>5, <3>6
    <3> QED BY <3>2, <3>4, <3>6
  <2> QED BY <2>1, <2>2
<1>9. Chain(w, q2, a2)
  BY <1>1, <1>3, <1>4, <1>5, <1>6, <1>7, <1>8 DEF Chain
<1> QED BY <1>9 DEF q2, a2

LEMMA ChainMoves ==
  ASSUME NEW w, NEW q, NEW a, Chain(w, q, a), q # <<>>
  PROVE  Chain(w \o Head(q), Tail(q), a)
<1> DEFINE h == Head(q)
           q2 == Tail(q)
           w2 == w \o h
<1>1. /\ w \in Seq(Nat) /\ q \in Seq(Seq(Nat)) /\ a \in Seq(Nat)
      /\ Len(w) \in Nat /\ Len(q) \in Nat /\ Len(a) \in Nat
  BY LenProperties DEF Chain
<1>2. PICK ends \in [0..Len(q) -> 0..Len(a)] :
        /\ ends[0] = Len(w) /\ ends[Len(q)] = Len(a)
        /\ \A j \in 1..Len(w) : w[j] = a[j]
        /\ \A i \in 1..Len(q) :
             /\ ends[i] = ends[i - 1] + Len(q[i])
             /\ \A j \in 1..Len(q[i]) : q[i][j] = a[ends[i - 1] + j]
  BY DEF Chain
<1>3. /\ h \in Seq(Nat) /\ h = q[1] /\ q2 \in Seq(Seq(Nat)) /\ Len(q2) = Len(q) - 1
      /\ Len(q2) \in Nat /\ \A i \in 1..Len(q2) : q2[i] = q[i + 1]
  BY <1>1, HeadTailProperties, LenProperties, EmptySeq
<1>4. Len(h) \in Nat /\ w2 \in Seq(Nat) /\ Len(w2) = Len(w) + Len(h)
      /\ \A j \in 1..Len(w) + Len(h) : w2[j] = IF j <= Len(w) THEN w[j] ELSE h[j - Len(w)]
  BY <1>1, <1>3, ConcatProperties, LenProperties
<1> HIDE DEF h, q2, w2
<1>5. 1 \in 1..Len(q) /\ ends[1] = Len(w) + Len(h)
      /\ \A j \in 1..Len(h) : h[j] = a[Len(w) + j]
  <2>1. 1 \in 1..Len(q) /\ 1 - 1 = 0
    BY <1>1, <1>3
  <2>2. /\ ends[1] = ends[1 - 1] + Len(q[1])
        /\ \A j \in 1..Len(q[1]) : q[1][j] = a[ends[1 - 1] + j]
    BY <1>2, <2>1
  <2>3. ends[1 - 1] = Len(w)
    BY <1>2, <2>1
  <2> QED BY <1>3, <2>1, <2>2, <2>3
<1> DEFINE ends2 == [i \in 0..Len(q2) |-> ends[i + 1]]
<1>6. ends2 \in [0..Len(q2) -> 0..Len(a)]
  <2>1. \A i \in 0..Len(q2) : i + 1 \in 0..Len(q)
    BY <1>1, <1>3
  <2> QED BY <2>1
<1>7. ends2[0] = Len(w2) /\ ends2[Len(q2)] = Len(a) /\ \A i \in 0..Len(q2) : ends2[i] = ends[i + 1]
  <2>1. 0 \in 0..Len(q2) /\ Len(q2) \in 0..Len(q2) /\ Len(q2) + 1 = Len(q) /\ 0 + 1 = 1
    BY <1>1, <1>3
  <2> QED BY <1>2, <1>4, <1>5, <2>1
<1> HIDE DEF ends2
<1>8. \A j \in 1..Len(w2) : w2[j] = a[j]
  <2> SUFFICES ASSUME NEW j \in 1..Len(w2) PROVE w2[j] = a[j]
    OBVIOUS
  <2>1. CASE j <= Len(w)
    BY <1>1, <1>2, <1>4, <2>1
  <2>2. CASE ~(j <= Len(w))
    <3>1. j - Len(w) \in 1..Len(h) /\ Len(w) + (j - Len(w)) = j
      BY <1>1, <1>4, <2>2
    <3>2. w2[j] = h[j - Len(w)]
      BY <1>4, <2>2
    <3> QED BY <1>5, <3>1, <3>2
  <2> QED BY <2>1, <2>2
<1>9. ASSUME NEW i \in 1..Len(q2)
      PROVE  /\ ends2[i] = ends2[i - 1] + Len(q2[i])
             /\ \A j \in 1..Len(q2[i]) : q2[i][j] = a[ends2[i - 1] + j]
  <2>1. /\ i + 1 \in 1..Len(q) /\ i \in 0..Len(q2) /\ i - 1 \in 0..Len(q2)
        /\ (i + 1) - 1 = i /\ (i - 1) + 1 = i
    BY <1>1, <1>3
  <2>2. q2[i] = q[i + 1] /\ ends2[i] = ends[i + 1] /\ ends2[i - 1] = ends[i]
    BY <1>3, <1>7, <2>1
  <2> QED BY <1>2, <2>1, <2>2
<1>10. Chain(w2, q2, a)
  BY <1>1, <1>3, <1>4, <1>6, <1>7, <1>8, <1>9 DEF Chain
<1> QED BY <1>10 DEF w2, q2, h

LEMMA ChainWhole == ASSUME NEW w, NEW a, Chain(w, <<>>, a) PROVE w = a
<1>1. w \in Seq(Nat) /\ a \in Seq(Nat) /\ Len(w) = Len(a) /\ \A j \in 1..Len(w) : w[j] = a[j]
  BY LenProperties DEF Chain
<1> QED BY <1>1, SeqEqual

(* The recorder, its writers, and where the event loop's thread is. *)
WavFields ==
  {"writer", "exists", "written", "queue", "stopping", "broken", "dropped", "listing"}
Stages == {"none", "starting", "pruning", "writing", "ending", "done"}
WavOK(wav) ==
  /\ DOMAIN wav = WavFields /\ wav.writer \in Stages
  /\ wav.written \in Seq(Nat) /\ wav.queue \in Seq(Seq(Nat))
  /\ wav.exists \in BOOLEAN /\ wav.stopping \in BOOLEAN
  /\ wav.broken \in BOOLEAN /\ wav.dropped \in BOOLEAN

Wav(c) == recorder.wavs[c]
Active(wav) == wav.writer \in {"starting", "pruning", "writing", "ending"}
Failed == \E c \in M!Captures : Wav(c).broken

RecorderOK ==
  /\ DOMAIN recorder = {"current", "last", "kept", "wavs"}
  /\ captures \in 0..MaxCaptures
  /\ recorder.last \in 0..captures /\ recorder.current \in {0, recorder.last}
  /\ recorder.kept \subseteq M!Captures
  /\ DOMAIN recorder.wavs = M!Captures /\ \A c \in M!Captures : WavOK(Wav(c))

MicrophoneOK ==
  /\ all \in Seq(Nat) /\ ring \in Seq(Nat) /\ heard \in Nat
  /\ DOMAIN capture = {"on", "chunks", "start", "frames", "capped"} /\ capture.on \in BOOLEAN
  /\ DOMAIN loop = {"at", "writer"}
  /\ loop.at \in {"rest", "starting", "ending", "joining", "taken", "down"}
  /\ loop.at = "ending" => capture.on
  /\ loop.at \in {"starting", "joining", "taken", "down"} => ~capture.on

(* No capture is begun, running or being ended. *)
Between == loop.at = "taken" \/ (loop.at = "rest" /\ ~capture.on)

Unopened ==
  \A c \in M!Captures : c > captures =>
    /\ Wav(c).writer = "none" /\ Wav(c).written = <<>> /\ Wav(c).queue = <<>>
    /\ ~Wav(c).stopping /\ ~Wav(c).broken /\ ~Wav(c).dropped

(* The writer that is fed is of the last recording and was not told to stop. *)
Fed ==
  recorder.current # 0 =>
    /\ ~Wav(recorder.current).stopping
    /\ loop.at \in {"starting", "ending", "joining"} \/ capture.on
    /\ loop.at = "joining" => loop.writer = recorder.current

(* A recording that did not fail is fed until its capture ends, its end is
   waited for, and then its writer is done. *)
Attended ==
  recorder.last # 0 /\ ~Wav(recorder.last).broken =>
    /\ Wav(recorder.last).writer # "none"
    /\ capture.on \/ loop.at = "starting" => recorder.current = recorder.last
    /\ loop.at = "joining" => loop.writer = recorder.last
    /\ Between => Wav(recorder.last).writer = "done"
Joins == loop.at = "joining" => loop.writer \in {0, recorder.last}

Drained ==
  \A c \in M!Captures : ~Wav(c).broken /\ Wav(c).writer \in {"ending", "done"} =>
    Wav(c).queue = <<>> /\ Wav(c).stopping

Delivered ==
  recorder.last # 0 =>
    /\ loop.at = "starting" => Wav(recorder.last).written = <<>> /\ Wav(recorder.last).queue = <<>>
    /\ loop.at # "starting" /\ ~Wav(recorder.last).broken /\ ~Wav(recorder.last).dropped
         => Chain(Wav(recorder.last).written, Wav(recorder.last).queue, all)

(* While none failed, the last is the only writer, and its file is there. *)
OneWriter ==
  ~Failed /\ loop.at # "down" =>
    /\ \A c \in M!Captures : Active(Wav(c)) => c = recorder.last
    /\ recorder.last # 0 => Wav(recorder.last).exists

MicrophoneState ==
  /\ RecorderOK /\ MicrophoneOK /\ Unopened /\ Fed /\ Attended /\ Joins /\ Drained
  /\ Delivered /\ OneWriter /\ M!KeptIsThere

MicrophoneInv == component = "microphone" => MicrophoneState

(* What a writer may do to a recording, its own or one that it prunes. *)
Undisturbed(wav, wav2) ==
  /\ DOMAIN wav2 = WavFields
  /\ wav2.writer = wav.writer /\ wav2.written = wav.written /\ wav2.queue = wav.queue
  /\ wav2.stopping = wav.stopping /\ wav2.broken = wav.broken /\ wav2.dropped = wav.dropped

Advanced(wav, wav2) ==
  /\ WavOK(wav2) /\ wav2.writer # "none"
  /\ wav2.exists = wav.exists /\ wav2.stopping = wav.stopping /\ wav2.dropped = wav.dropped
  /\ wav.broken => wav2.broken
  /\ \/ wav2.written = wav.written /\ wav2.queue = wav.queue
     \/ /\ wav.queue # <<>> /\ wav2.queue = Tail(wav.queue)
        /\ wav2.broken \/ wav2.written = wav.written \o Head(wav.queue)
  /\ ~wav2.broken /\ wav2.writer \in {"ending", "done"} => wav2.queue = <<>> /\ wav2.stopping

Steps(c) ==
  /\ Active(Wav(c)) /\ Advanced(Wav(c), Wav(c)')
  /\ DOMAIN recorder' = {"current", "last", "kept", "wavs"}
  /\ recorder'.current = recorder.current /\ recorder'.last = recorder.last
  /\ recorder'.kept = recorder.kept /\ DOMAIN recorder'.wavs = M!Captures
  /\ \A d \in M!Captures \ {c} :
       /\ Undisturbed(Wav(d), Wav(d)')
       /\ \/ Wav(d)'.exists = Wav(d).exists
          \/ Wav(d)'.exists = FALSE /\ d \notin recorder.kept /\ ~Active(Wav(d))

LEMMA StepsKeep ==
  ASSUME MicrophoneState, NEW c \in M!Captures, Steps(c),
         UNCHANGED <<captures, all, ring, heard, capture, loop>>
  PROVE  MicrophoneState'
<1>1. /\ recorder'.current = recorder.current /\ recorder'.last = recorder.last
      /\ recorder'.kept = recorder.kept /\ Between' = Between
      /\ \A d \in M!Captures : d # c => Undisturbed(Wav(d), Wav(d)')
      /\ Advanced(Wav(c), Wav(c)') /\ Active(Wav(c))
      /\ UNCHANGED <<captures, all, ring, heard, capture, loop>>
  BY DEF Steps, Between
<1>2. /\ RecorderOK /\ MicrophoneOK /\ Unopened /\ Fed /\ Attended /\ Joins /\ Drained
      /\ Delivered /\ OneWriter /\ M!KeptIsThere
  BY DEF MicrophoneState
<1>3. RecorderOK'
  <2>1. ASSUME NEW d \in M!Captures PROVE WavOK(Wav(d))'
    <3>1. CASE d = c
      BY <1>1, <3>1 DEF Advanced
    <3>2. CASE d # c
      <4>1. d \in M!Captures \ {c} /\ WavOK(Wav(d))
        BY <1>2, <3>2 DEF RecorderOK
      <4>2. Undisturbed(Wav(d), Wav(d)') /\ Wav(d)'.exists \in BOOLEAN
        BY <4>1 DEF Steps, WavOK
      <4> QED BY <4>1, <4>2 DEF Undisturbed, WavOK
    <3> QED BY <3>1, <3>2
  <2> QED BY <1>1, <1>2, <2>1 DEF RecorderOK, Steps
<1>4. MicrophoneOK'
  BY <1>1, <1>2 DEF MicrophoneOK
<1>5. c <= captures /\ recorder.last \in 0..captures /\ captures \in 0..MaxCaptures
      /\ MaxCaptures \in Nat
  BY <1>1, <1>2, CaptureAssumptions
     DEF Unopened, RecorderOK, Active, M!Captures, M!RecorderAssumption
<1>6. Unopened'
  <2>1. \A d \in M!Captures : d > captures => d # c
    BY <1>5 DEF M!Captures
  <2> QED BY <1>1, <1>2, <2>1 DEF Unopened, Undisturbed
<1>7. recorder.current # 0 => recorder.current \in M!Captures
  BY <1>2, <1>5 DEF RecorderOK, M!Captures
<1>8. recorder.last # 0 => recorder.last \in M!Captures
  BY <1>5 DEF M!Captures
<1>9. Fed'
  BY <1>1, <1>2, <1>7 DEF Fed, Undisturbed, Advanced
<1>10. Attended'
  <2>1. CASE recorder.last # c
    BY <1>1, <1>2, <1>8, <2>1 DEF Attended, Undisturbed
  <2>2. CASE recorder.last = c
    <3>1. Wav(c)'.writer # "none" /\ (~Wav(c)'.broken => ~Wav(c).broken)
      BY <1>1 DEF Advanced
    <3>2. ~Wav(c).broken => ~Between
      BY <1>1, <1>2, <1>8, <2>2 DEF Attended, Active, M!Captures
    <3> QED BY <1>1, <1>2, <2>2, <3>1, <3>2 DEF Attended
  <2> QED BY <2>1, <2>2
<1>11. Joins'
  BY <1>1, <1>2 DEF Joins
<1>12. Drained'
  <2>1. ASSUME NEW d \in M!Captures, ~Wav(d)'.broken, Wav(d)'.writer \in {"ending", "done"}
        PROVE  Wav(d)'.queue = <<>> /\ Wav(d)'.stopping
    <3>1. CASE d = c
      BY <1>1, <2>1, <3>1 DEF Advanced
    <3>2. CASE d # c
      BY <1>1, <1>2, <2>1, <3>2 DEF Drained, Undisturbed
    <3> QED BY <3>1, <3>2
  <2> QED BY <2>1 DEF Drained
<1>13. Delivered'
  <2>1. CASE recorder.last # c
    BY <1>1, <1>2, <1>8, <2>1 DEF Delivered, Undisturbed
  <2>2. CASE recorder.last = c
    <3>1. CASE Wav(c)'.written = Wav(c).written /\ Wav(c)'.queue = Wav(c).queue
      BY <1>1, <1>2, <2>2, <3>1 DEF Delivered, Advanced
    <3>2. CASE /\ Wav(c).queue # <<>> /\ Wav(c)'.queue = Tail(Wav(c).queue)
               /\ Wav(c)'.broken \/ Wav(c)'.written = Wav(c).written \o Head(Wav(c).queue)
      <4>1. recorder.last # 0 /\ loop.at # "starting"
        BY <1>1, <1>2, <2>2, <3>2 DEF Delivered, M!Captures
      <4>2. ASSUME ~Wav(c)'.broken, ~Wav(c)'.dropped
            PROVE  Chain(Wav(c)'.written, Wav(c)'.queue, all)
        <5>1. Chain(Wav(c).written, Wav(c).queue, all)
          BY <1>1, <1>2, <2>2, <4>1, <4>2 DEF Delivered, Advanced
        <5> QED BY <3>2, <4>2, <5>1, ChainMoves
      <4> QED BY <1>1, <2>2, <4>1, <4>2 DEF Delivered
    <3> QED BY <1>1, <3>1, <3>2 DEF Advanced
  <2> QED BY <2>1, <2>2
<1>14. Failed => Failed'
  BY <1>1 DEF Failed, Undisturbed, Advanced
<1>15. OneWriter'
  <2> SUFFICES ASSUME ~Failed', loop.at # "down"
               PROVE  /\ \A d \in M!Captures : Active(Wav(d)') => d = recorder.last
                      /\ recorder.last # 0 => Wav(recorder.last)'.exists
    BY <1>1 DEF OneWriter, Active
  <2>1. /\ \A d \in M!Captures : Active(Wav(d)) => d = recorder.last
        /\ recorder.last # 0 => Wav(recorder.last).exists
    BY <1>2, <1>14 DEF OneWriter
  <2>2. c = recorder.last
    BY <1>1, <2>1
  <2>3. \A d \in M!Captures : Active(Wav(d)') => d = recorder.last
    BY <1>1, <2>1, <2>2 DEF Undisturbed, Active
  <2>4. Wav(c)'.exists = Wav(c).exists
    BY <1>1 DEF Advanced
  <2> QED BY <1>1, <2>1, <2>2, <2>3, <2>4 DEF Wav
<1>16. M!KeptIsThere'
  <2>1. ASSUME NEW d \in recorder.kept, ~Wav(d)'.exists PROVE ~Wav(d).exists
    <3>1. d \in M!Captures
      BY <1>2 DEF RecorderOK
    <3>2. CASE d = c
      BY <1>1, <2>1, <3>2 DEF Advanced
    <3>3. CASE d # c
      BY <2>1, <3>1, <3>3 DEF Steps
    <3> QED BY <3>2, <3>3
  <2>2. \A d \in recorder.kept : Wav(d).exists \/ Failed
    BY <1>2 DEF M!KeptIsThere, Failed, Wav
  <2>3. \A d \in recorder.kept : Wav(d)'.exists \/ Failed'
    BY <1>14, <2>1, <2>2
  <2> QED BY <1>1, <2>3 DEF M!KeptIsThere, Failed, Wav
<1> QED BY <1>3, <1>4, <1>6, <1>9, <1>10, <1>11, <1>12, <1>13, <1>15, <1>16 DEF MicrophoneState

LEMMA WriterSteps ==
  ASSUME MicrophoneState, NEW c \in M!Captures, M!Writer(c) PROVE Steps(c)
<1> DEFINE wav == Wav(c)
<1>1. /\ DOMAIN recorder = {"current", "last", "kept", "wavs"}
      /\ DOMAIN recorder.wavs = M!Captures /\ \A d \in M!Captures : WavOK(Wav(d))
      /\ Drained
  BY DEF MicrophoneState, RecorderOK
<1>2. \A d \in M!Captures : Undisturbed(Wav(d), Wav(d))
  BY <1>1 DEF Undisturbed, WavOK
<1>3. WavOK(wav)
  BY <1>1
<1>4. CASE M!List(c)
  <2>0. /\ \E l : recorder' = [recorder EXCEPT !.wavs[c].writer = "pruning",
                                              !.wavs[c].listing = l]
        /\ wav.writer = "starting"
    BY <1>4 DEF M!List, Wav
  <2>1. PICK l : recorder' = [recorder EXCEPT !.wavs[c].writer = "pruning", !.wavs[c].listing = l]
    BY <2>0
  <2>2. /\ DOMAIN Wav(c)' = WavFields /\ Wav(c)'.writer = "pruning"
        /\ Wav(c)'.written = wav.written /\ Wav(c)'.queue = wav.queue
        /\ Wav(c)'.exists = wav.exists /\ Wav(c)'.stopping = wav.stopping
        /\ Wav(c)'.broken = wav.broken /\ Wav(c)'.dropped = wav.dropped
    BY <1>1, <1>3, <2>1 DEF Wav, WavOK, WavFields
  <2>3. /\ DOMAIN recorder' = {"current", "last", "kept", "wavs"}
        /\ recorder'.current = recorder.current /\ recorder'.last = recorder.last
        /\ recorder'.kept = recorder.kept /\ DOMAIN recorder'.wavs = M!Captures
        /\ \A d \in M!Captures \ {c} : Wav(d)' = Wav(d)
    BY <1>1, <2>1 DEF Wav
  <2>4. Advanced(wav, Wav(c)') /\ Active(wav)
    BY <1>3, <2>0, <2>2 DEF Advanced, WavOK, Stages, Active
  <2> QED BY <1>2, <2>3, <2>4 DEF Steps
<1>5. CASE M!PruneNext(c)
  <2>1. /\ wav.writer = "pruning"
        /\ \/ recorder' = [recorder EXCEPT !.wavs[c].writer = "writing", !.wavs[c].listing = <<>>]
           \/ \E f \in M!Captures : \E l :
                /\ M!Prunable(f)
                /\ recorder' = [recorder EXCEPT !.wavs[f].exists = FALSE, !.wavs[c].listing = l]
           \/ \E l : recorder' = [recorder EXCEPT !.wavs[c].listing = l]
    BY <1>5 DEF M!PruneNext, Wav
  <2>2. Active(wav)
    BY <2>1 DEF Active
  <2>3. CASE recorder' = [recorder EXCEPT !.wavs[c].writer = "writing", !.wavs[c].listing = <<>>]
    <3>1. /\ DOMAIN Wav(c)' = WavFields /\ Wav(c)'.writer = "writing"
          /\ Wav(c)'.written = wav.written /\ Wav(c)'.queue = wav.queue
          /\ Wav(c)'.exists = wav.exists /\ Wav(c)'.stopping = wav.stopping
          /\ Wav(c)'.broken = wav.broken /\ Wav(c)'.dropped = wav.dropped
      BY <1>1, <1>3, <2>3 DEF Wav, WavOK, WavFields
    <3>2. /\ DOMAIN recorder' = {"current", "last", "kept", "wavs"}
          /\ recorder'.current = recorder.current /\ recorder'.last = recorder.last
          /\ recorder'.kept = recorder.kept /\ DOMAIN recorder'.wavs = M!Captures
          /\ \A d \in M!Captures \ {c} : Wav(d)' = Wav(d)
      BY <1>1, <2>3 DEF Wav
    <3>3. Advanced(wav, Wav(c)')
      BY <1>3, <3>1 DEF Advanced, WavOK, Stages
    <3> QED BY <1>2, <2>2, <3>2, <3>3 DEF Steps
  <2>4. ASSUME NEW f \in M!Captures, NEW l, M!Prunable(f),
               recorder' = [recorder EXCEPT !.wavs[f].exists = FALSE, !.wavs[c].listing = l]
        PROVE  Steps(c)
    <3>1. f # c /\ f \notin recorder.kept /\ ~Active(Wav(f))
      BY <2>2, <2>4 DEF M!Prunable, M!Open, Active, Wav
    <3>2. /\ DOMAIN Wav(c)' = WavFields /\ Wav(c)'.writer = wav.writer
          /\ Wav(c)'.written = wav.written /\ Wav(c)'.queue = wav.queue
          /\ Wav(c)'.exists = wav.exists /\ Wav(c)'.stopping = wav.stopping
          /\ Wav(c)'.broken = wav.broken /\ Wav(c)'.dropped = wav.dropped
      BY <1>1, <1>3, <2>4, <3>1 DEF Wav, WavOK, WavFields
    <3>3. /\ DOMAIN recorder' = {"current", "last", "kept", "wavs"}
          /\ recorder'.current = recorder.current /\ recorder'.last = recorder.last
          /\ recorder'.kept = recorder.kept /\ DOMAIN recorder'.wavs = M!Captures
          /\ \A d \in M!Captures \ {c, f} : Wav(d)' = Wav(d)
          /\ Wav(f)' = [Wav(f) EXCEPT !.exists = FALSE]
      BY <1>1, <2>4, <3>1 DEF Wav
    <3>4. Undisturbed(Wav(f), Wav(f)') /\ Wav(f)'.exists = FALSE
      BY <1>1, <3>3 DEF Undisturbed, WavOK, WavFields
    <3>5. Advanced(wav, Wav(c)')
      BY <1>3, <2>1, <3>2 DEF Advanced, WavOK, Stages
    <3> QED BY <1>2, <2>2, <3>1, <3>3, <3>4, <3>5 DEF Steps
  <2>5. ASSUME NEW l, recorder' = [recorder EXCEPT !.wavs[c].listing = l]
        PROVE  Steps(c)
    <3>1. /\ DOMAIN Wav(c)' = WavFields /\ Wav(c)'.writer = wav.writer
          /\ Wav(c)'.written = wav.written /\ Wav(c)'.queue = wav.queue
          /\ Wav(c)'.exists = wav.exists /\ Wav(c)'.stopping = wav.stopping
          /\ Wav(c)'.broken = wav.broken /\ Wav(c)'.dropped = wav.dropped
      BY <1>1, <1>3, <2>5 DEF Wav, WavOK, WavFields
    <3>2. /\ DOMAIN recorder' = {"current", "last", "kept", "wavs"}
          /\ recorder'.current = recorder.current /\ recorder'.last = recorder.last
          /\ recorder'.kept = recorder.kept /\ DOMAIN recorder'.wavs = M!Captures
          /\ \A d \in M!Captures \ {c} : Wav(d)' = Wav(d)
      BY <1>1, <2>5 DEF Wav
    <3>3. Advanced(wav, Wav(c)')
      BY <1>3, <2>1, <3>1 DEF Advanced, WavOK, Stages
    <3> QED BY <1>2, <2>2, <3>2, <3>3 DEF Steps
  <2> QED BY <2>1, <2>3, <2>4, <2>5
<1>6. CASE M!WriteNext(c)
  <2>1. wav.writer = "writing" /\ wav.queue # <<>>
    BY <1>6 DEF M!WriteNext, Wav
  <2>2. /\ Tail(wav.queue) \in Seq(Seq(Nat)) /\ wav.written \o Head(wav.queue) \in Seq(Nat)
    BY <1>3, <2>1, HeadTailProperties, ConcatProperties DEF WavOK
  <2>3. Active(wav)
    BY <2>1 DEF Active
  <2>4. CASE recorder' = [recorder EXCEPT !.wavs[c].queue = Tail(@),
                            !.wavs[c].written = @ \o Head(recorder.wavs[c].queue)]
    <3>1. /\ DOMAIN Wav(c)' = WavFields /\ Wav(c)'.writer = wav.writer
          /\ Wav(c)'.written = wav.written \o Head(wav.queue) /\ Wav(c)'.queue = Tail(wav.queue)
          /\ Wav(c)'.exists = wav.exists /\ Wav(c)'.stopping = wav.stopping
          /\ Wav(c)'.broken = wav.broken /\ Wav(c)'.dropped = wav.dropped
      BY <1>1, <1>3, <2>4 DEF Wav, WavOK, WavFields
    <3>2. /\ DOMAIN recorder' = {"current", "last", "kept", "wavs"}
          /\ recorder'.current = recorder.current /\ recorder'.last = recorder.last
          /\ recorder'.kept = recorder.kept /\ DOMAIN recorder'.wavs = M!Captures
          /\ \A d \in M!Captures \ {c} : Wav(d)' = Wav(d)
      BY <1>1, <2>4 DEF Wav
    <3>3. Advanced(wav, Wav(c)')
      BY <1>3, <2>1, <2>2, <3>1 DEF Advanced, WavOK, Stages
    <3> QED BY <1>2, <2>3, <3>2, <3>3 DEF Steps
  <2>5. CASE recorder' = [recorder EXCEPT !.wavs[c].queue = Tail(@),
                            !.wavs[c].broken = TRUE, !.wavs[c].writer = "ending"]
    <3>1. /\ DOMAIN Wav(c)' = WavFields /\ Wav(c)'.writer = "ending"
          /\ Wav(c)'.written = wav.written /\ Wav(c)'.queue = Tail(wav.queue)
          /\ Wav(c)'.exists = wav.exists /\ Wav(c)'.stopping = wav.stopping
          /\ Wav(c)'.broken = TRUE /\ Wav(c)'.dropped = wav.dropped
      BY <1>1, <1>3, <2>5 DEF Wav, WavOK, WavFields
    <3>2. /\ DOMAIN recorder' = {"current", "last", "kept", "wavs"}
          /\ recorder'.current = recorder.current /\ recorder'.last = recorder.last
          /\ recorder'.kept = recorder.kept /\ DOMAIN recorder'.wavs = M!Captures
          /\ \A d \in M!Captures \ {c} : Wav(d)' = Wav(d)
      BY <1>1, <2>5 DEF Wav
    <3>3. Advanced(wav, Wav(c)')
      BY <1>3, <2>1, <2>2, <3>1 DEF Advanced, WavOK, Stages
    <3> QED BY <1>2, <2>3, <3>2, <3>3 DEF Steps
  <2> QED BY <1>6, <2>4, <2>5 DEF M!WriteNext
<1>7. CASE M!StopWriting(c)
  <2>1. /\ wav.writer = "writing" /\ wav.stopping /\ wav.queue = <<>>
        /\ recorder' = [recorder EXCEPT !.wavs[c].writer = "ending"]
    BY <1>7 DEF M!StopWriting, M!Ends, Wav
  <2>2. Active(wav)
    BY <2>1 DEF Active
  <2>3. /\ DOMAIN Wav(c)' = WavFields /\ Wav(c)'.writer = "ending"
        /\ Wav(c)'.written = wav.written /\ Wav(c)'.queue = wav.queue
        /\ Wav(c)'.exists = wav.exists /\ Wav(c)'.stopping = wav.stopping
        /\ Wav(c)'.broken = wav.broken /\ Wav(c)'.dropped = wav.dropped
    BY <1>1, <1>3, <2>1 DEF Wav, WavOK, WavFields
  <2>4. /\ DOMAIN recorder' = {"current", "last", "kept", "wavs"}
        /\ recorder'.current = recorder.current /\ recorder'.last = recorder.last
        /\ recorder'.kept = recorder.kept /\ DOMAIN recorder'.wavs = M!Captures
        /\ \A d \in M!Captures \ {c} : Wav(d)' = Wav(d)
    BY <1>1, <2>1 DEF Wav
  <2>5. Advanced(wav, Wav(c)')
    BY <1>3, <2>1, <2>3 DEF Advanced, WavOK, Stages
  <2> QED BY <1>2, <2>2, <2>4, <2>5 DEF Steps
<1>8. CASE M!Finalize(c)
  <2>1. PICK fails \in BOOLEAN :
          recorder' = [recorder EXCEPT !.wavs[c].writer = "done", !.wavs[c].broken = @ \/ fails]
    BY <1>8 DEF M!Finalize
  <2>2. wav.writer = "ending" /\ Active(wav)
    BY <1>8 DEF M!Finalize, Wav, Active
  <2>3. /\ DOMAIN Wav(c)' = WavFields /\ Wav(c)'.writer = "done"
        /\ Wav(c)'.written = wav.written /\ Wav(c)'.queue = wav.queue
        /\ Wav(c)'.exists = wav.exists /\ Wav(c)'.stopping = wav.stopping
        /\ Wav(c)'.broken = (wav.broken \/ fails) /\ Wav(c)'.dropped = wav.dropped
    BY <1>1, <1>3, <2>1 DEF Wav, WavOK, WavFields
  <2>4. /\ DOMAIN recorder' = {"current", "last", "kept", "wavs"}
        /\ recorder'.current = recorder.current /\ recorder'.last = recorder.last
        /\ recorder'.kept = recorder.kept /\ DOMAIN recorder'.wavs = M!Captures
        /\ \A d \in M!Captures \ {c} : Wav(d)' = Wav(d)
    BY <1>1, <2>1 DEF Wav
  <2>5. ~wav.broken => wav.queue = <<>> /\ wav.stopping
    BY <1>1, <2>2 DEF Drained
  <2>6. Advanced(wav, Wav(c)')
    BY <1>3, <2>3, <2>5 DEF Advanced, WavOK, Stages
  <2> QED BY <1>2, <2>2, <2>4, <2>6 DEF Steps
<1> QED BY <1>4, <1>5, <1>6, <1>7, <1>8 DEF M!Writer

(* Where no recording is opened, told to stop or given up. *)
LEMMA RecordingsStay ==
  ASSUME MicrophoneState, captures' = captures,
         DOMAIN recorder' = {"current", "last", "kept", "wavs"},
         recorder'.current = recorder.current, recorder'.last = recorder.last,
         recorder'.kept \subseteq recorder.kept, DOMAIN recorder'.wavs = M!Captures,
         \A d \in M!Captures :
           \/ Wav(d)' = Wav(d)
           \/ /\ d = recorder.current /\ WavOK(Wav(d)')
              /\ Wav(d)'.writer = Wav(d).writer /\ Wav(d)'.exists = Wav(d).exists
              /\ Wav(d)'.stopping = Wav(d).stopping /\ Wav(d)'.broken = Wav(d).broken,
         loop.at = "down" => loop'.at = "down",
         MicrophoneOK', Fed', Attended', Joins', Delivered'
  PROVE  MicrophoneState'
<1>1. RecorderOK /\ Unopened /\ Fed /\ Drained /\ OneWriter /\ M!KeptIsThere
  BY DEF MicrophoneState
<1>2. /\ captures \in Nat /\ MaxCaptures \in Nat /\ recorder.current <= captures
      /\ recorder.current \in Nat /\ recorder.last \in 0..captures /\ captures <= MaxCaptures
  BY <1>1, CaptureAssumptions DEF RecorderOK, M!RecorderAssumption
<1>3. RecorderOK'
  BY <1>1 DEF RecorderOK
<1>4. Unopened'
  <2>1. \A d \in M!Captures : d > captures => d # recorder.current
    BY <1>2 DEF M!Captures
  <2> QED BY <1>1, <2>1 DEF Unopened
<1>5. Drained'
  <2>1. ASSUME NEW d \in M!Captures, ~Wav(d)'.broken, Wav(d)'.writer \in {"ending", "done"}
        PROVE  Wav(d)'.queue = <<>> /\ Wav(d)'.stopping
    <3>1. CASE Wav(d)' = Wav(d)
      BY <1>1, <2>1, <3>1 DEF Drained
    <3>2. CASE Wav(d)' # Wav(d)
      <4>1. d = recorder.current /\ d # 0 /\ ~Wav(d).broken /\ Wav(d).writer \in {"ending", "done"}
        BY <2>1, <3>2 DEF M!Captures
      <4> QED BY <1>1, <4>1 DEF Drained, Fed
    <3> QED BY <3>1, <3>2
  <2> QED BY <2>1 DEF Drained
<1>6. \A d \in M!Captures :
        /\ Wav(d)'.writer = Wav(d).writer /\ Wav(d)'.exists = Wav(d).exists
        /\ Wav(d)'.broken = Wav(d).broken
  OBVIOUS
<1>7. Failed' = Failed
  BY <1>6 DEF Failed
<1>8. OneWriter'
  <2> SUFFICES ASSUME ~Failed', loop'.at # "down"
               PROVE  /\ \A d \in M!Captures : Active(Wav(d)') => d = recorder.last
                      /\ recorder.last # 0 => recorder'.wavs[recorder.last].exists
    BY DEF OneWriter, Wav
  <2>1. /\ \A d \in M!Captures : Active(Wav(d)) => d = recorder.last
        /\ recorder.last # 0 => recorder.wavs[recorder.last].exists
    BY <1>1, <1>7 DEF OneWriter, Wav
  <2>2. recorder.last # 0 => recorder.last \in M!Captures
    BY <1>2 DEF M!Captures
  <2>3. \A d \in M!Captures : Active(Wav(d)') => d = recorder.last
    BY <1>6, <2>1 DEF Active
  <2> QED BY <1>6, <2>1, <2>2, <2>3 DEF Wav
<1>9. M!KeptIsThere'
  <2>1. \A d \in recorder.kept : d \in M!Captures /\ (Wav(d).exists \/ Failed)
    BY <1>1 DEF M!KeptIsThere, Failed, Wav, RecorderOK
  <2>2. \A d \in recorder'.kept : Wav(d)'.exists \/ Failed'
    BY <1>6, <1>7, <2>1
  <2> QED BY <2>2 DEF M!KeptIsThere, Failed, Wav
<1> QED BY <1>3, <1>4, <1>5, <1>8, <1>9 DEF MicrophoneState

(* Where the recordings and the event loop's thread stay as they are. *)
LEMMA OnlyHeard ==
  ASSUME MicrophoneState, UNCHANGED <<recorder, loop, captures, all>>,
         capture'.on = capture.on, MicrophoneOK'
  PROVE  MicrophoneState'
<1>1. /\ RecorderOK /\ Unopened /\ Fed /\ Attended /\ Joins /\ Drained /\ Delivered /\ OneWriter
      /\ M!KeptIsThere
  BY DEF MicrophoneState
<1>2. RecorderOK' /\ Unopened' /\ Drained' /\ OneWriter' /\ M!KeptIsThere'
  BY <1>1 DEF RecorderOK, Unopened, Drained, OneWriter, Failed, Active, M!KeptIsThere, Wav
<1>3. Fed' /\ Attended' /\ Joins'
  BY <1>1 DEF Fed, Attended, Joins, Between, Wav
<1>4. Delivered'
  BY <1>1 DEF Delivered, Wav
<1> QED BY <1>2, <1>3, <1>4 DEF MicrophoneState

(* `write_shared` queues what it is given, drops it, or has none to write it. *)
LEMMA Shared ==
  ASSUME RecorderOK, NEW s \in Seq(Nat), recorder' = M!WriteShared(recorder, s)
  PROVE  /\ DOMAIN recorder' = {"current", "last", "kept", "wavs"}
         /\ recorder'.current = recorder.current /\ recorder'.last = recorder.last
         /\ recorder'.kept = recorder.kept /\ DOMAIN recorder'.wavs = M!Captures
         /\ \A d \in M!Captures :
              \/ Wav(d)' = Wav(d)
              \/ /\ d = recorder.current /\ WavOK(Wav(d)')
                 /\ Wav(d)'.writer = Wav(d).writer /\ Wav(d)'.exists = Wav(d).exists
                 /\ Wav(d)'.stopping = Wav(d).stopping /\ Wav(d)'.broken = Wav(d).broken
         /\ \A d \in M!Captures : d = recorder.current =>
              /\ Wav(d)'.written = Wav(d).written /\ Wav(d)'.broken = Wav(d).broken
              /\ Wav(d).dropped => Wav(d)'.dropped
              /\ \/ Wav(d)'.dropped \/ Wav(d)'.broken
                 \/ s = <<>> /\ Wav(d)'.queue = Wav(d).queue
                 \/ Wav(d)'.queue = Append(Wav(d).queue, s)
<1> DEFINE c == recorder.current
<1>1. /\ DOMAIN recorder = {"current", "last", "kept", "wavs"}
      /\ DOMAIN recorder.wavs = M!Captures /\ \A d \in M!Captures : WavOK(Wav(d))
      /\ (c # 0 => c \in M!Captures)
  BY CaptureAssumptions DEF RecorderOK, M!Captures, M!RecorderAssumption
<1>2. CASE recorder' = recorder /\ (s = <<>> \/ c = 0 \/ Wav(c).broken)
  <2>1. \A d \in M!Captures : d # 0
    BY DEF M!Captures
  <2>2. \A d \in M!Captures : Wav(d)' = Wav(d)
    BY <1>2 DEF Wav
  <2> QED BY <1>1, <1>2, <2>1, <2>2
<1>3. CASE c # 0 /\ recorder' = [recorder EXCEPT !.wavs[recorder.current].dropped = TRUE]
  <2>1. c \in M!Captures /\ WavOK(Wav(c))
    BY <1>1, <1>3
  <2>2. /\ DOMAIN Wav(c) = WavFields /\ recorder'.wavs[c] = [Wav(c) EXCEPT !.dropped = TRUE]
        /\ DOMAIN recorder' = {"current", "last", "kept", "wavs"}
        /\ recorder'.current = recorder.current /\ recorder'.last = recorder.last
        /\ recorder'.kept = recorder.kept /\ DOMAIN recorder'.wavs = M!Captures
        /\ \A d \in M!Captures \ {c} : recorder'.wavs[d] = Wav(d)
    BY <1>1, <1>3, <2>1 DEF Wav, WavOK
  <2>3. /\ DOMAIN recorder'.wavs[c] = WavFields /\ recorder'.wavs[c].writer = Wav(c).writer
        /\ recorder'.wavs[c].exists = Wav(c).exists /\ recorder'.wavs[c].written = Wav(c).written
        /\ recorder'.wavs[c].stopping = Wav(c).stopping /\ recorder'.wavs[c].broken = Wav(c).broken
        /\ recorder'.wavs[c].queue = Wav(c).queue /\ recorder'.wavs[c].dropped = TRUE
    BY <2>2 DEF WavFields
  <2>4. WavOK(recorder'.wavs[c])
    BY <2>1, <2>3 DEF WavOK
  <2> QED BY <2>2, <2>3, <2>4 DEF Wav
<1>4. CASE c # 0 /\ recorder' = [recorder EXCEPT !.wavs[recorder.current].queue = Append(@, s)]
  <2>1. c \in M!Captures /\ WavOK(Wav(c))
    BY <1>1, <1>4
  <2>2. /\ DOMAIN Wav(c) = WavFields
        /\ recorder'.wavs[c] = [Wav(c) EXCEPT !.queue = Append(Wav(c).queue, s)]
        /\ DOMAIN recorder' = {"current", "last", "kept", "wavs"}
        /\ recorder'.current = recorder.current /\ recorder'.last = recorder.last
        /\ recorder'.kept = recorder.kept /\ DOMAIN recorder'.wavs = M!Captures
        /\ \A d \in M!Captures \ {c} : recorder'.wavs[d] = Wav(d)
    BY <1>1, <1>4, <2>1 DEF Wav, WavOK
  <2>3. /\ DOMAIN recorder'.wavs[c] = WavFields /\ recorder'.wavs[c].writer = Wav(c).writer
        /\ recorder'.wavs[c].exists = Wav(c).exists /\ recorder'.wavs[c].written = Wav(c).written
        /\ recorder'.wavs[c].stopping = Wav(c).stopping /\ recorder'.wavs[c].broken = Wav(c).broken
        /\ recorder'.wavs[c].queue = Append(Wav(c).queue, s)
        /\ recorder'.wavs[c].dropped = Wav(c).dropped
    BY <2>2 DEF WavFields
  <2>4. WavOK(recorder'.wavs[c])
    BY <2>1, <2>3, AppendProperties DEF WavOK
  <2> QED BY <2>2, <2>3, <2>4 DEF Wav
<1> QED BY <1>2, <1>3, <1>4 DEF M!WriteShared, Wav

LEMMA MicrophoneTyped ==
  /\ Preroll \in Nat /\ Buffers \subseteq Nat \ {0} /\ MaxCaptures \in Nat /\ MaxHeard \in Nat
BY CaptureAssumptions DEF M!MicrophoneAssumption, M!RecorderAssumption

LEMMA RingTyped ==
  ASSUME NEW s \in Seq(Nat), NEW t \in Seq(Nat), NEW n \in Nat
  PROVE  M!LastOf(s \o t, n) \in Seq(Nat)
<1> DEFINE u == s \o t
           m == Len(u) - (IF n < Len(u) THEN n ELSE Len(u)) + 1
<1>1. u \in Seq(Nat) /\ Len(u) \in Nat
  BY ConcatProperties, LenProperties
<1> HIDE DEF u
<1>2. m \in Int /\ 1 <= m /\ Len(u) \in Int
  <2>1. CASE n < Len(u)
    BY <1>1, <2>1
  <2>2. CASE ~(n < Len(u))
    BY <1>1, <2>2
  <2> QED BY <2>1, <2>2
<1> HIDE DEF m
<1>3. ASSUME NEW i \in m..Len(u) PROVE u[i] \in Nat
  <2>1. i \in 1..Len(u)
    BY <1>1, <1>2
  <2> QED BY <1>1, <2>1, ElementOfSeq
<1>4. SubSeq(u, m, Len(u)) \in Seq(Nat)
  BY <1>2, <1>3, SubSeqProperties
<1> QED BY <1>4 DEF M!LastOf, u, m

LEMMA SamplesTyped ==
  ASSUME NEW h \in Nat, NEW n \in Nat \ {0}
  PROVE  [i \in 1..n |-> h + i] \in Seq(Nat) /\ [i \in 1..n |-> h + i] # <<>>
<1>1. [i \in 1..n |-> h + i] \in [1..n -> Nat]
  OBVIOUS
<1>2. DOMAIN [i \in 1..n |-> h + i] = 1..n /\ 1 \in 1..n
  OBVIOUS
<1>3. DOMAIN <<>> = {}
  OBVIOUS
<1> QED BY <1>1, <1>2, <1>3, SeqDef

LEMMA MicrophoneHears ==
  ASSUME MicrophoneState, NEW n \in Buffers, M!Process(n) PROVE MicrophoneState'
<1> DEFINE samples == [i \in 1..n |-> heard + i]
           c == recorder.last
<1>1. /\ RecorderOK /\ MicrophoneOK /\ Fed /\ Attended /\ Joins /\ Delivered
      /\ all \in Seq(Nat) /\ ring \in Seq(Nat) /\ heard \in Nat /\ n \in Nat \ {0}
  BY MicrophoneTyped DEF MicrophoneState, MicrophoneOK
<1>2. samples \in Seq(Nat) /\ samples # <<>> /\ heard' \in Nat /\ all \o samples \in Seq(Nat)
      /\ UNCHANGED <<loop, captures>>
  <2>1. samples \in Seq(Nat) /\ samples # <<>>
    BY <1>1, SamplesTyped
  <2>2. heard' = heard + n /\ UNCHANGED <<loop, captures>>
    BY DEF M!Process
  <2> HIDE DEF samples
  <2>3. all \o samples \in Seq(Nat)
    BY <1>1, <2>1, ConcatProperties
  <2> QED BY <1>1, <2>1, <2>2, <2>3
<1> HIDE DEF samples
<1>3. CASE ~capture.on /\ ring' = M!WriteRing(samples) /\ UNCHANGED <<recorder, capture, all>>
  <2>1. ring' \in Seq(Nat)
    BY <1>1, <1>2, <1>3, RingTyped, MicrophoneTyped DEF M!WriteRing
  <2>2. MicrophoneOK'
    BY <1>1, <1>2, <1>3, <2>1 DEF MicrophoneOK
  <2> QED BY <1>2, <1>3, <2>2, OnlyHeard
<1>4. CASE /\ capture.on /\ recorder' = M!WriteShared(recorder, samples)
           /\ capture'.on = capture.on /\ DOMAIN capture' = DOMAIN capture
           /\ all' = all \o samples /\ ring' = ring
  <2>1. /\ DOMAIN recorder' = {"current", "last", "kept", "wavs"}
        /\ recorder'.current = recorder.current /\ recorder'.last = c
        /\ recorder'.kept = recorder.kept /\ DOMAIN recorder'.wavs = M!Captures
        /\ \A d \in M!Captures :
             \/ Wav(d)' = Wav(d)
             \/ /\ d = recorder.current /\ WavOK(Wav(d)')
                /\ Wav(d)'.writer = Wav(d).writer /\ Wav(d)'.exists = Wav(d).exists
                /\ Wav(d)'.stopping = Wav(d).stopping /\ Wav(d)'.broken = Wav(d).broken
    BY <1>1, <1>2, <1>4, Shared
  <2>2. \A d \in M!Captures : d = recorder.current =>
          /\ Wav(d)'.written = Wav(d).written /\ Wav(d)'.broken = Wav(d).broken
          /\ Wav(d).dropped => Wav(d)'.dropped
          /\ \/ Wav(d)'.dropped \/ Wav(d)'.broken
             \/ Wav(d)'.queue = Append(Wav(d).queue, samples)
    BY <1>1, <1>2, <1>4, Shared
  <2>3. /\ c # 0 => c \in M!Captures
        /\ recorder.current # 0 => recorder.current \in M!Captures
        /\ \A d \in M!Captures : Wav(d)'.writer = Wav(d).writer
             /\ Wav(d)'.stopping = Wav(d).stopping /\ Wav(d)'.broken = Wav(d).broken
    <3>1. recorder.last \in 0..captures /\ captures \in 0..MaxCaptures
          /\ recorder.current \in {0, recorder.last} /\ MaxCaptures \in Nat
      BY <1>1, MicrophoneTyped DEF RecorderOK
    <3>2. /\ c # 0 => c \in M!Captures
          /\ recorder.current # 0 => recorder.current \in M!Captures
      BY <3>1 DEF M!Captures
    <3> QED BY <2>1, <3>2
  <2>4. MicrophoneOK'
    BY <1>1, <1>2, <1>4 DEF MicrophoneOK
  <2>5. Fed' /\ Attended' /\ Joins'
    BY <1>1, <1>2, <1>4, <2>1, <2>3 DEF Fed, Attended, Joins, Between, Wav
  <2>6. loop.at # "starting"
    BY <1>1, <1>4 DEF MicrophoneOK
  <2>7. ASSUME c # 0, ~Wav(c)'.broken, ~Wav(c)'.dropped
        PROVE  Chain(recorder'.wavs[c].written, recorder'.wavs[c].queue, all')
    <3>1. c \in M!Captures /\ Wav(c)'.broken = Wav(c).broken
      BY <2>3, <2>7, <2>1 DEF Wav
    <3>2. recorder.current = c
      BY <1>1, <1>4, <2>1, <2>7, <3>1 DEF Attended, Wav
    <3>3. /\ recorder'.wavs[c].written = Wav(c).written
          /\ recorder'.wavs[c].queue = Append(Wav(c).queue, samples)
          /\ ~Wav(c).broken /\ ~Wav(c).dropped
      BY <2>1, <2>2, <2>7, <3>1, <3>2 DEF Wav
    <3>4. Chain(Wav(c).written, Wav(c).queue, all)
      BY <1>1, <2>6, <2>7, <3>3 DEF Delivered
    <3> QED BY <1>2, <1>4, <3>3, <3>4, ChainGrows
  <2>8. Delivered'
    BY <1>2, <2>1, <2>6, <2>7 DEF Delivered, Wav
  <2> QED BY <1>2, <2>1, <2>4, <2>5, <2>8, RecordingsStay
<1>5. /\ capture.on => /\ recorder' = M!WriteShared(recorder, samples)
                       /\ capture'.on = capture.on /\ DOMAIN capture' = DOMAIN capture
                       /\ all' = all \o samples /\ ring' = ring
      /\ ~capture.on => ring' = M!WriteRing(samples) /\ UNCHANGED <<recorder, capture, all>>
  BY <1>1 DEF M!Process, MicrophoneOK, samples
<1> QED BY <1>3, <1>4, <1>5

LEMMA MicrophonePolls ==
  ASSUME MicrophoneState, M!GoStale \/ M!Poll \/ \E through \in 1..MaxHeard : M!DiscardBefore(through)
  PROVE  MicrophoneState'
<1>1. MicrophoneOK
  BY DEF MicrophoneState
<1>2. CASE M!GoStale
  BY <1>1, <1>2, OnlyHeard DEF M!GoStale, M!captureVars, MicrophoneOK
<1>3. CASE M!Poll
  <2>1. UNCHANGED <<recorder, capture, all, loop, captures>>
        /\ (heard' = heard \/ heard' = heard + 1) /\ (ring' = ring \/ ring' = <<>>)
    BY <1>3 DEF M!Poll, M!Reopen, M!Cleared
  <2>2. heard' \in Nat /\ ring' \in Seq(Nat)
    <3>1. heard \in Nat /\ ring \in Seq(Nat) /\ <<>> \in Seq(Nat)
      BY <1>1 DEF MicrophoneOK
    <3>2. heard' = heard \/ heard' = heard + 1
      BY <2>1
    <3>3. ring' = ring \/ ring' = <<>>
      BY <2>1
    <3>4. heard' \in Nat
      BY <3>1, <3>2
    <3> QED BY <3>1, <3>3, <3>4
  <2>3. MicrophoneOK'
    BY <1>1, <2>1, <2>2 DEF MicrophoneOK
  <2> QED BY <2>1, <2>3, OnlyHeard
<1>4. CASE \E through \in 1..MaxHeard : M!DiscardBefore(through)
  <2>1. /\ UNCHANGED <<recorder, ring, all, loop, captures, heard>>
        /\ \E x, y : capture' = [capture EXCEPT !.chunks = x, !.start = y]
    BY <1>4 DEF M!DiscardBefore, M!deviceVars
  <2>2. MicrophoneOK' /\ capture'.on = capture.on
    BY <1>1, <2>1 DEF MicrophoneOK
  <2> QED BY <2>1, <2>2, OnlyHeard
<1> QED BY <1>2, <1>3, <1>4

LEMMA MicrophoneStarts == ASSUME MicrophoneState, M!StartCapture PROVE MicrophoneState'
<1> DEFINE c == captures + 1
<1>1. /\ RecorderOK /\ MicrophoneOK /\ Unopened /\ Fed /\ Attended /\ Joins /\ Drained
      /\ Delivered /\ OneWriter /\ M!KeptIsThere
  BY DEF MicrophoneState
<1>2. /\ loop.at = "rest" /\ ~capture.on /\ captures < MaxCaptures
      /\ UNCHANGED <<capture, all>> /\ (heard' = heard \/ heard' = heard + 1)
      /\ (ring' = ring \/ ring' = <<>>)
      /\ \/ UNCHANGED <<recorder, loop, captures>>
         \/ /\ captures' = c /\ recorder' \in M!StartRecording(recorder, c)
            /\ loop' = [loop EXCEPT !.at = "starting"]
  BY DEF M!StartCapture, M!Reopen, M!Cleared, M!deviceVars
<1>3. /\ heard' \in Nat /\ ring' \in Seq(Nat) /\ all' \in Seq(Nat)
  <2>1. heard \in Nat /\ ring \in Seq(Nat) /\ <<>> \in Seq(Nat) /\ all \in Seq(Nat)
    BY <1>1 DEF MicrophoneOK
  <2>2. heard' \in Nat
    BY <1>2, <2>1
  <2> QED BY <1>2, <2>1, <2>2
<1>4. CASE UNCHANGED <<recorder, loop, captures>>
  <2>1. MicrophoneOK'
    BY <1>1, <1>2, <1>3, <1>4 DEF MicrophoneOK
  <2> QED BY <1>2, <1>4, <2>1, OnlyHeard
<1>5. CASE /\ captures' = c /\ recorder' \in M!StartRecording(recorder, c)
           /\ loop' = [loop EXCEPT !.at = "starting"]
  <2>1. recorder.current = 0 /\ M!Detach(recorder) = recorder
    BY <1>1, <1>2 DEF Fed, M!Detach
  <2>2. /\ captures \in Nat /\ c \in M!Captures /\ c # 0 /\ c # recorder.last /\ c \in 0..MaxCaptures
        /\ recorder.last \in 0..captures /\ (recorder.last # 0 => recorder.last \in M!Captures)
    <3>1. captures \in 0..MaxCaptures /\ recorder.last \in 0..captures /\ MaxCaptures \in Nat
      BY <1>1, MicrophoneTyped DEF RecorderOK
    <3> QED BY <1>2, <3>1 DEF M!Captures
  <2>3. /\ DOMAIN recorder = {"current", "last", "kept", "wavs"}
        /\ DOMAIN recorder.wavs = M!Captures /\ \A d \in M!Captures : WavOK(Wav(d))
        /\ recorder.kept \subseteq M!Captures
    BY <1>1 DEF RecorderOK
  <2>4. /\ Wav(c).writer = "none" /\ Wav(c).written = <<>> /\ Wav(c).queue = <<>>
        /\ ~Wav(c).stopping /\ ~Wav(c).broken /\ ~Wav(c).dropped /\ WavOK(Wav(c))
    <3>1. c > captures
      BY <2>2
    <3> QED BY <1>1, <2>2, <2>3, <3>1 DEF Unopened
  <2> HIDE DEF c
  <2>5. /\ DOMAIN recorder' = {"current", "last", "kept", "wavs"}
        /\ DOMAIN recorder'.wavs = M!Captures /\ recorder'.kept = recorder.kept
        /\ \A d \in M!Captures \ {c} : Wav(d)' = Wav(d)
        /\ DOMAIN recorder'.wavs[c] = WavFields
        /\ recorder'.wavs[c].written = <<>> /\ recorder'.wavs[c].queue = <<>>
        /\ ~recorder'.wavs[c].stopping /\ ~recorder'.wavs[c].dropped
        /\ recorder'.wavs[c].stopping \in BOOLEAN /\ recorder'.wavs[c].dropped \in BOOLEAN
        /\ \/ /\ recorder'.current = c /\ recorder'.last = c /\ recorder'.wavs[c].exists = TRUE
              /\ recorder'.wavs[c].writer = "starting" /\ recorder'.wavs[c].broken = FALSE
           \/ /\ recorder'.current = 0 /\ recorder'.last = c /\ recorder'.wavs[c].exists = TRUE
              /\ recorder'.wavs[c].writer = "none" /\ recorder'.wavs[c].broken = TRUE
           \/ /\ recorder'.current = 0 /\ recorder'.last = 0
              /\ recorder'.wavs[c].exists = Wav(c).exists
              /\ recorder'.wavs[c].writer = "none" /\ recorder'.wavs[c].broken = FALSE
    <3>0. /\ DOMAIN Wav(c) = WavFields /\ Wav(c).stopping \in BOOLEAN /\ Wav(c).dropped \in BOOLEAN
          /\ Wav(c).broken \in BOOLEAN
      BY <2>4 DEF WavOK
    <3>1. CASE recorder' = [[recorder EXCEPT !.last = c, !.wavs[c].exists = TRUE]
                              EXCEPT !.current = c, !.wavs[c].writer = "starting"]
      BY <2>2, <2>3, <2>4, <3>0, <3>1 DEF Wav, WavFields
    <3>2. CASE recorder' = [[recorder EXCEPT !.last = c, !.wavs[c].exists = TRUE]
                              EXCEPT !.wavs[c].broken = TRUE]
      BY <2>1, <2>2, <2>3, <2>4, <3>0, <3>2 DEF Wav, WavFields
    <3>3. CASE recorder' = [recorder EXCEPT !.last = 0]
      BY <2>1, <2>2, <2>3, <2>4, <3>0, <3>3 DEF Wav, WavFields
    <3> QED BY <1>5, <2>1, <3>1, <3>2, <3>3 DEF M!StartRecording
  <2>6. /\ loop'.at = "starting" /\ DOMAIN loop' = {"at", "writer"} /\ capture' = capture
        /\ captures' = c /\ all' = all /\ c = captures + 1
    BY <1>1, <1>2, <1>5 DEF MicrophoneOK, c
  <2>7. MicrophoneOK'
    BY <1>1, <1>2, <1>3, <2>6 DEF MicrophoneOK
  <2>8. WavOK(recorder'.wavs[c])
    BY <2>4, <2>5 DEF WavOK, Stages
  <2>9. RecorderOK'
    <3>1. ASSUME NEW d \in M!Captures PROVE WavOK(Wav(d))'
      <4>1. CASE d = c
        BY <2>8, <4>1 DEF Wav
      <4>2. CASE d # c
        <5>1. Wav(d)' = Wav(d)
          BY <2>5, <4>2
        <5> QED BY <2>3, <5>1
      <4> QED BY <4>1, <4>2
    <3>2. recorder'.last \in 0..c /\ recorder'.current \in {0, recorder'.last} /\ c \in 0..MaxCaptures
      BY <2>2, <2>5, <2>6
    <3> QED BY <2>3, <2>5, <2>6, <3>1, <3>2 DEF RecorderOK
  <2>10. Unopened'
    <3>1. \A d \in M!Captures : d > captures' => d # c /\ d > captures
      BY <2>2, <2>6 DEF M!Captures
    <3> QED BY <1>1, <2>5, <3>1 DEF Unopened, Wav
  <2>11. Fed' /\ Joins'
    BY <2>5, <2>6 DEF Fed, Joins, Wav
  <2>12. Attended'
    BY <2>5, <2>6, <2>7 DEF Attended, Between, Wav
  <2>13. Drained'
    <3>1. ASSUME NEW d \in M!Captures, ~Wav(d)'.broken, Wav(d)'.writer \in {"ending", "done"}
          PROVE  Wav(d)'.queue = <<>> /\ Wav(d)'.stopping
      <4>1. CASE d = c
        BY <2>5, <3>1, <4>1 DEF Wav
      <4>2. CASE d # c
        BY <1>1, <2>5, <3>1, <4>2 DEF Drained
      <4> QED BY <4>1, <4>2
    <3> QED BY <3>1 DEF Drained
  <2>14. Delivered'
    BY <2>5, <2>6 DEF Delivered, Wav
  <2>15. Failed => Failed'
    BY <2>4, <2>5 DEF Failed
  <2>16. OneWriter'
    <3> SUFFICES ASSUME ~Failed'
                 PROVE  /\ \A d \in M!Captures : Active(Wav(d)') => d = recorder'.last
                        /\ recorder'.last # 0 => recorder'.wavs[recorder'.last].exists
      BY DEF OneWriter, Wav
    <3>1. \A d \in M!Captures : Active(Wav(d)) => d = recorder.last
      BY <1>1, <1>2, <2>15 DEF OneWriter
    <3>2. recorder.last # 0 => Wav(recorder.last).writer = "done"
      BY <1>1, <1>2, <2>2, <2>15 DEF Attended, Between, Failed
    <3>3. \A d \in M!Captures : ~Active(Wav(d))
      BY <3>1, <3>2 DEF Active, M!Captures
    <3>4. ASSUME NEW d \in M!Captures, Active(Wav(d)') PROVE d = recorder'.last
      <4>1. d = c
        BY <2>5, <3>3, <3>4
      <4>2. recorder'.wavs[c].writer # "none"
        BY <3>4, <4>1 DEF Active, Wav
      <4> QED BY <2>5, <4>1, <4>2
    <3> QED BY <2>5, <3>4
  <2>17. M!KeptIsThere'
    <3>1. \A d \in recorder.kept : d \in M!Captures /\ (Wav(d).exists \/ Failed)
      BY <1>1, <2>3 DEF M!KeptIsThere, Failed, Wav
    <3>2. \A d \in recorder.kept : Wav(d).exists => Wav(d)'.exists
      <4>1. \A d \in M!Captures \ {c} : Wav(d).exists => Wav(d)'.exists
        BY <2>5
      <4>2. Wav(c).exists => recorder'.wavs[c].exists
        BY <2>5
      <4> QED BY <3>1, <4>1, <4>2 DEF Wav
    <3>3. \A d \in recorder.kept : Wav(d)'.exists \/ Failed'
      BY <2>15, <3>1, <3>2
    <3> QED BY <2>5, <3>3 DEF M!KeptIsThere, Failed, Wav
  <2> QED BY <2>7, <2>9, <2>10, <2>11, <2>12, <2>13, <2>14, <2>16, <2>17 DEF MicrophoneState
<1> QED BY <1>2, <1>4, <1>5

(* The ring becomes the capture's pre-roll, and the first that is queued. *)
LEMMA MicrophoneBegins == ASSUME MicrophoneState, M!BeginCapture PROVE MicrophoneState'
<1> DEFINE c == recorder.last
<1>1. /\ RecorderOK /\ MicrophoneOK /\ Fed /\ Attended /\ Joins /\ Delivered /\ ring \in Seq(Nat)
  BY DEF MicrophoneState, MicrophoneOK
<1>2. /\ loop.at = "starting" /\ loop' = M!AtRest /\ captures' = captures /\ heard' = heard
      /\ recorder' = M!WriteShared(recorder, ring)
      /\ capture' = M!Capturing(ring) /\ all' = ring /\ ring' = <<>>
  BY DEF M!BeginCapture, M!deviceVars
<1>3. /\ loop'.at = "rest" /\ DOMAIN loop' = {"at", "writer"} /\ capture'.on = TRUE
      /\ DOMAIN capture' = {"on", "chunks", "start", "frames", "capped"}
  BY <1>2 DEF M!AtRest, M!Capturing
<1>4. /\ DOMAIN recorder' = {"current", "last", "kept", "wavs"}
      /\ recorder'.current = recorder.current /\ recorder'.last = c
      /\ recorder'.kept = recorder.kept /\ DOMAIN recorder'.wavs = M!Captures
      /\ \A d \in M!Captures :
           \/ Wav(d)' = Wav(d)
           \/ /\ d = recorder.current /\ WavOK(Wav(d)')
              /\ Wav(d)'.writer = Wav(d).writer /\ Wav(d)'.exists = Wav(d).exists
              /\ Wav(d)'.stopping = Wav(d).stopping /\ Wav(d)'.broken = Wav(d).broken
  BY <1>1, <1>2, Shared
<1>5. \A d \in M!Captures : d = recorder.current =>
        /\ Wav(d)'.written = Wav(d).written /\ Wav(d)'.broken = Wav(d).broken
        /\ Wav(d).dropped => Wav(d)'.dropped
        /\ \/ Wav(d)'.dropped \/ Wav(d)'.broken
           \/ ring = <<>> /\ Wav(d)'.queue = Wav(d).queue
           \/ Wav(d)'.queue = Append(Wav(d).queue, ring)
  BY <1>1, <1>2, Shared
<1>6. /\ c # 0 => c \in M!Captures
      /\ recorder.current # 0 => recorder.current \in M!Captures
      /\ \A d \in M!Captures : Wav(d)'.writer = Wav(d).writer
           /\ Wav(d)'.stopping = Wav(d).stopping /\ Wav(d)'.broken = Wav(d).broken
  <2>1. recorder.last \in 0..captures /\ captures \in 0..MaxCaptures
        /\ recorder.current \in {0, recorder.last} /\ MaxCaptures \in Nat
    BY <1>1, MicrophoneTyped DEF RecorderOK
  <2>2. /\ c # 0 => c \in M!Captures
        /\ recorder.current # 0 => recorder.current \in M!Captures
    BY <2>1 DEF M!Captures
  <2> QED BY <1>4, <2>2
<1>7. MicrophoneOK'
  <2>1. <<>> \in Seq(Nat)
    OBVIOUS
  <2> QED BY <1>1, <1>2, <1>3, <2>1 DEF MicrophoneOK
<1>8. Fed' /\ Attended' /\ Joins'
  BY <1>1, <1>2, <1>3, <1>4, <1>6 DEF Fed, Attended, Joins, Between, Wav
<1>9. ASSUME c # 0, ~recorder'.wavs[c].broken, ~recorder'.wavs[c].dropped
      PROVE  Chain(recorder'.wavs[c].written, recorder'.wavs[c].queue, ring)
  <2>1. c \in M!Captures /\ ~Wav(c).broken
    BY <1>6, <1>9 DEF Wav
  <2>2. recorder.current = c
    BY <1>1, <1>2, <1>9, <2>1 DEF Attended
  <2>3. Wav(c).written = <<>> /\ Wav(c).queue = <<>>
    BY <1>1, <1>2, <1>9 DEF Delivered
  <2>4. /\ recorder'.wavs[c].written = <<>>
        /\ \/ ring = <<>> /\ recorder'.wavs[c].queue = <<>>
           \/ recorder'.wavs[c].queue = Append(<<>>, ring)
    BY <1>4, <1>5, <1>9, <2>1, <2>2, <2>3 DEF Wav
  <2>5. <<>> \o ring = ring
    BY <1>1, ConcatEmptySeq
  <2>6. Chain(<<>>, Append(<<>>, ring), ring)
    BY <1>1, <2>5, ChainBegins, ChainGrows
  <2> QED BY <2>4, <2>6, ChainBegins
<1>10. Delivered'
  BY <1>2, <1>3, <1>4, <1>9 DEF Delivered, Wav
<1> QED BY <1>2, <1>4, <1>7, <1>8, <1>10, RecordingsStay

(* Where the thread goes on, and the recordings stay as they are. *)
LEMMA MicrophoneGoesOn ==
  ASSUME MicrophoneState,
         M!EndCapture \/ M!TakeCapture \/ M!NoKeep \/ \E c \in M!Captures : M!ReleaseKept(c)
  PROVE  MicrophoneState'
<1>1. /\ RecorderOK /\ MicrophoneOK /\ Fed /\ Attended /\ Joins /\ Delivered
  BY DEF MicrophoneState
<1>2. /\ DOMAIN recorder = {"current", "last", "kept", "wavs"} /\ DOMAIN recorder.wavs = M!Captures
      /\ recorder.current \in {0, recorder.last}
  BY <1>1 DEF RecorderOK
<1>3. CASE M!EndCapture
  <2>1. /\ loop.at = "rest" /\ capture.on /\ loop'.at = "ending" /\ DOMAIN loop' = {"at", "writer"}
        /\ UNCHANGED <<recorder, heard, ring, capture, all, captures>>
    BY <1>1, <1>3 DEF M!EndCapture, M!deviceVars, M!captureVars, MicrophoneOK
  <2>2. MicrophoneOK'
    BY <1>1, <2>1 DEF MicrophoneOK
  <2>3. Fed' /\ Attended' /\ Joins' /\ Delivered'
    BY <1>1, <2>1 DEF Fed, Attended, Joins, Delivered, Between, Wav
  <2>4. \A d \in M!Captures : Wav(d)' = Wav(d)
    BY <2>1 DEF Wav
  <2> QED BY <1>2, <2>1, <2>2, <2>3, <2>4, RecordingsStay
<1>4. CASE M!TakeCapture
  <2>1. /\ loop.at = "ending" /\ loop'.at = "joining" /\ loop'.writer = recorder.current
        /\ DOMAIN loop' = {"at", "writer"} /\ ring' = <<>> /\ capture' = M!NotCapturing
        /\ UNCHANGED <<recorder, heard, all, captures>>
    BY <1>1, <1>4 DEF M!TakeCapture, M!deviceVars, MicrophoneOK
  <2>2. /\ capture.on /\ capture'.on = FALSE
        /\ DOMAIN capture' = {"on", "chunks", "start", "frames", "capped"} /\ <<>> \in Seq(Nat)
    BY <1>1, <2>1 DEF M!NotCapturing, MicrophoneOK
  <2>3. MicrophoneOK'
    BY <1>1, <2>1, <2>2 DEF MicrophoneOK
  <2>4. Fed' /\ Joins' /\ Delivered'
    BY <1>1, <1>2, <2>1, <2>2 DEF Fed, Joins, Delivered, Wav
  <2>5. Attended'
    BY <1>1, <2>1, <2>2 DEF Attended, Between, Wav
  <2>6. \A d \in M!Captures : Wav(d)' = Wav(d)
    BY <2>1 DEF Wav
  <2> QED BY <1>2, <2>1, <2>3, <2>4, <2>5, <2>6, RecordingsStay
<1>5. CASE M!NoKeep
  <2>1. /\ loop.at = "taken" /\ loop'.at = "rest" /\ DOMAIN loop' = {"at", "writer"}
        /\ UNCHANGED <<recorder, heard, ring, capture, all, captures>>
    BY <1>5 DEF M!NoKeep, M!deviceVars, M!captureVars, M!AtRest
  <2>2. MicrophoneOK'
    BY <1>1, <2>1 DEF MicrophoneOK
  <2>3. Fed' /\ Attended' /\ Joins' /\ Delivered'
    BY <1>1, <2>1 DEF Fed, Attended, Joins, Delivered, Between, Wav, MicrophoneOK
  <2>4. \A d \in M!Captures : Wav(d)' = Wav(d)
    BY <2>1 DEF Wav
  <2> QED BY <1>2, <2>1, <2>2, <2>3, <2>4, RecordingsStay
<1>6. ASSUME NEW c \in M!Captures, M!ReleaseKept(c) PROVE MicrophoneState'
  <2>1. /\ recorder' = [recorder EXCEPT !.kept = @ \ {c}]
        /\ UNCHANGED <<heard, ring, capture, all, captures, loop>>
    BY <1>6 DEF M!ReleaseKept, M!deviceVars, M!captureVars
  <2>2. /\ DOMAIN recorder' = {"current", "last", "kept", "wavs"}
        /\ recorder'.current = recorder.current /\ recorder'.last = recorder.last
        /\ recorder'.kept \subseteq recorder.kept /\ recorder'.wavs = recorder.wavs
    BY <1>2, <2>1
  <2>3. MicrophoneOK'
    BY <1>1, <2>1 DEF MicrophoneOK
  <2>4. Fed' /\ Attended' /\ Joins' /\ Delivered'
    BY <1>1, <2>1, <2>2 DEF Fed, Attended, Joins, Delivered, Between, Wav
  <2>5. \A d \in M!Captures : Wav(d)' = Wav(d)
    BY <2>2 DEF Wav
  <2> QED BY <1>2, <2>1, <2>2, <2>3, <2>4, <2>5, RecordingsStay
<1> QED BY <1>3, <1>4, <1>5, <1>6

(* At the end of a capture its recording is there, if no writer failed. *)
LEMMA MicrophoneKeeps == ASSUME MicrophoneState, M!KeepAtEnd PROVE MicrophoneState'
<1>1. /\ RecorderOK /\ MicrophoneOK /\ Unopened /\ Fed /\ Attended /\ Joins /\ Drained
      /\ Delivered /\ OneWriter /\ M!KeptIsThere
  BY DEF MicrophoneState
<1>2. /\ loop.at = "taken" /\ recorder.last # 0 /\ loop'.at = "rest"
      /\ DOMAIN loop' = {"at", "writer"}
      /\ recorder' = [recorder EXCEPT !.kept = @ \cup {recorder.last}]
      /\ UNCHANGED <<heard, ring, capture, all, captures>>
  BY DEF M!KeepAtEnd, M!deviceVars, M!captureVars, M!AtRest
<1>3. /\ DOMAIN recorder' = {"current", "last", "kept", "wavs"}
      /\ recorder'.current = recorder.current /\ recorder'.last = recorder.last
      /\ recorder'.kept = recorder.kept \cup {recorder.last} /\ recorder'.wavs = recorder.wavs
  BY <1>1, <1>2 DEF RecorderOK
<1>4. recorder.last \in M!Captures
  <2>1. recorder.last \in 0..captures /\ captures \in 0..MaxCaptures /\ MaxCaptures \in Nat
    BY <1>1, MicrophoneTyped DEF RecorderOK
  <2> QED BY <1>2, <2>1 DEF M!Captures
<1>5. RecorderOK' /\ MicrophoneOK'
  BY <1>1, <1>2, <1>3, <1>4 DEF RecorderOK, MicrophoneOK, Wav
<1>6. Unopened' /\ Drained' /\ OneWriter' /\ Failed' = Failed
  BY <1>1, <1>2, <1>3 DEF Unopened, Drained, OneWriter, Failed, Active, Wav
<1>7. Fed' /\ Attended' /\ Joins' /\ Delivered'
  BY <1>1, <1>2, <1>3 DEF Fed, Attended, Joins, Delivered, Between, Wav, MicrophoneOK
<1>8. M!KeptIsThere'
  <2>1. Wav(recorder.last).exists \/ Failed
    BY <1>1, <1>2 DEF OneWriter
  <2> QED BY <1>1, <1>3, <2>1 DEF M!KeptIsThere, Failed, Wav
<1> QED BY <1>5, <1>6, <1>7, <1>8 DEF MicrophoneState

(* The writer that is told to stop is fed no more. *)
LEMMA Detached ==
  ASSUME RecorderOK, recorder' = M!Detach(recorder)
  PROVE  /\ DOMAIN recorder' = {"current", "last", "kept", "wavs"}
         /\ recorder'.current = 0 /\ recorder'.last = recorder.last
         /\ recorder'.kept = recorder.kept /\ DOMAIN recorder'.wavs = M!Captures
         /\ \A d \in M!Captures :
              /\ WavOK(Wav(d)') /\ (d # recorder.current => Wav(d)' = Wav(d))
              /\ Wav(d)'.writer = Wav(d).writer /\ Wav(d)'.exists = Wav(d).exists
              /\ Wav(d)'.written = Wav(d).written /\ Wav(d)'.queue = Wav(d).queue
              /\ Wav(d)'.broken = Wav(d).broken /\ Wav(d)'.dropped = Wav(d).dropped
              /\ Wav(d).stopping => Wav(d)'.stopping
<1> DEFINE c == recorder.current
<1>1. /\ DOMAIN recorder = {"current", "last", "kept", "wavs"}
      /\ DOMAIN recorder.wavs = M!Captures /\ \A d \in M!Captures : WavOK(Wav(d))
      /\ (c # 0 => c \in M!Captures)
  BY CaptureAssumptions DEF RecorderOK, M!Captures, M!RecorderAssumption
<1>2. CASE c = 0
  <2>1. recorder' = recorder
    BY <1>2 DEF M!Detach
  <2>2. \A d \in M!Captures : Wav(d)' = Wav(d)
    BY <2>1 DEF Wav
  <2> QED BY <1>1, <1>2, <2>1, <2>2
<1>3. CASE c # 0
  <2>1. c \in M!Captures /\ WavOK(Wav(c))
    BY <1>1, <1>3
  <2>2. recorder' = [recorder EXCEPT !.wavs[recorder.current].stopping = TRUE, !.current = 0]
    BY <1>3 DEF M!Detach
  <2>3. /\ DOMAIN recorder' = {"current", "last", "kept", "wavs"}
        /\ recorder'.current = 0 /\ recorder'.last = recorder.last
        /\ recorder'.kept = recorder.kept /\ DOMAIN recorder'.wavs = M!Captures
        /\ \A d \in M!Captures \ {c} : recorder'.wavs[d] = Wav(d)
        /\ recorder'.wavs[c] = [Wav(c) EXCEPT !.stopping = TRUE]
        /\ DOMAIN Wav(c) = WavFields
    BY <1>1, <2>1, <2>2 DEF Wav, WavOK
  <2>4. /\ DOMAIN recorder'.wavs[c] = WavFields /\ recorder'.wavs[c].writer = Wav(c).writer
        /\ recorder'.wavs[c].exists = Wav(c).exists /\ recorder'.wavs[c].written = Wav(c).written
        /\ recorder'.wavs[c].queue = Wav(c).queue /\ recorder'.wavs[c].broken = Wav(c).broken
        /\ recorder'.wavs[c].dropped = Wav(c).dropped /\ recorder'.wavs[c].stopping = TRUE
    BY <2>3 DEF WavFields
  <2>5. WavOK(recorder'.wavs[c])
    BY <2>1, <2>4 DEF WavOK
  <2> QED BY <1>1, <2>3, <2>4, <2>5 DEF Wav
<1> QED BY <1>2, <1>3

LEMMA MicrophoneDetaches ==
  ASSUME MicrophoneState, M!StopRecorder \/ M!ShutDown PROVE MicrophoneState'
<1>1. /\ RecorderOK /\ MicrophoneOK /\ Unopened /\ Fed /\ Attended /\ Joins /\ Drained
      /\ Delivered /\ OneWriter /\ M!KeptIsThere
  BY DEF MicrophoneState
<1>2. /\ recorder' = M!Detach(recorder) /\ UNCHANGED <<heard, all, captures>>
      /\ \/ /\ loop.at = "joining" /\ loop' = loop /\ UNCHANGED <<ring, capture>>
         \/ /\ loop.at = "rest" /\ loop'.at = "down" /\ DOMAIN loop' = {"at", "writer"}
            /\ capture' = M!NotCapturing /\ (ring' = <<>> \/ ring' = ring)
  BY DEF M!StopRecorder, M!ShutDown, M!deviceVars, M!captureVars, M!AtRest
<1>3. /\ DOMAIN recorder' = {"current", "last", "kept", "wavs"}
      /\ recorder'.current = 0 /\ recorder'.last = recorder.last
      /\ recorder'.kept = recorder.kept /\ DOMAIN recorder'.wavs = M!Captures
      /\ \A d \in M!Captures :
           /\ WavOK(Wav(d)') /\ (d # recorder.current => Wav(d)' = Wav(d))
           /\ Wav(d)'.writer = Wav(d).writer /\ Wav(d)'.exists = Wav(d).exists
           /\ Wav(d)'.written = Wav(d).written /\ Wav(d)'.queue = Wav(d).queue
           /\ Wav(d)'.broken = Wav(d).broken /\ Wav(d)'.dropped = Wav(d).dropped
           /\ Wav(d).stopping => Wav(d)'.stopping
  BY <1>1, <1>2, Detached
<1>4. /\ MaxCaptures \in Nat /\ captures \in 0..MaxCaptures /\ recorder.last \in 0..captures
      /\ recorder.current \in {0, recorder.last} /\ recorder.kept \subseteq M!Captures
      /\ (recorder.last # 0 => recorder.last \in M!Captures)
  <2>1. MaxCaptures \in Nat /\ captures \in 0..MaxCaptures /\ recorder.last \in 0..captures
        /\ recorder.current \in {0, recorder.last} /\ recorder.kept \subseteq M!Captures
    BY <1>1, MicrophoneTyped DEF RecorderOK
  <2> QED BY <2>1 DEF M!Captures
<1>5. /\ <<>> \in Seq(Nat) /\ M!NotCapturing.on = FALSE
      /\ DOMAIN M!NotCapturing = {"on", "chunks", "start", "frames", "capped"}
  BY DEF M!NotCapturing
<1>6. MicrophoneOK'
  BY <1>1, <1>2, <1>5 DEF MicrophoneOK
<1>7. RecorderOK'
  BY <1>2, <1>3, <1>4 DEF RecorderOK
<1>8. Unopened'
  <2>1. \A d \in M!Captures : d > captures => d # recorder.current
    BY <1>4 DEF M!Captures
  <2> QED BY <1>1, <1>2, <1>3, <2>1 DEF Unopened
<1>9. Fed' /\ Joins'
  BY <1>1, <1>2, <1>3 DEF Fed, Joins
<1>10. Attended'
  BY <1>1, <1>2, <1>3, <1>4, <1>5, <1>6 DEF Attended, Between, Wav, MicrophoneOK
<1>11. Drained'
  BY <1>1, <1>3 DEF Drained
<1>12. Delivered'
  BY <1>1, <1>2, <1>3, <1>4 DEF Delivered, Wav
<1>13. Failed' = Failed
  BY <1>3 DEF Failed
<1>14. OneWriter'
  BY <1>1, <1>2, <1>3, <1>4, <1>13 DEF OneWriter, Active, Wav
<1>15. M!KeptIsThere'
  <2>1. \A d \in recorder.kept : d \in M!Captures /\ (Wav(d).exists \/ Failed)
    BY <1>1, <1>4 DEF M!KeptIsThere, Failed, Wav
  <2>2. \A d \in recorder.kept : Wav(d)'.exists \/ Failed'
    BY <1>3, <1>13, <2>1
  <2> QED BY <1>3, <2>2 DEF M!KeptIsThere, Failed, Wav
<1> QED BY <1>6, <1>7, <1>8, <1>9, <1>10, <1>11, <1>12, <1>14, <1>15 DEF MicrophoneState

(* A writer that is left behind is one that failed. *)
LEMMA MicrophoneJoins == ASSUME MicrophoneState, M!WriterJoined PROVE MicrophoneState'
<1> DEFINE c == recorder.last
<1>1. /\ RecorderOK /\ MicrophoneOK /\ Unopened /\ Fed /\ Attended /\ Joins /\ Drained
      /\ Delivered /\ OneWriter /\ M!KeptIsThere
  BY DEF MicrophoneState
<1>2. /\ loop.at = "joining" /\ recorder.current = 0 /\ loop'.at = "taken"
      /\ DOMAIN loop' = {"at", "writer"}
      /\ recorder' = (IF loop.writer = 0 THEN recorder ELSE M!StopEnded(recorder, loop.writer))
      /\ UNCHANGED <<heard, ring, capture, all, captures>>
  BY DEF M!WriterJoined, M!captureVars, M!AtRest
<1>3. /\ DOMAIN recorder = {"current", "last", "kept", "wavs"} /\ DOMAIN recorder.wavs = M!Captures
      /\ \A d \in M!Captures : WavOK(Wav(d))
      /\ (c # 0 => c \in M!Captures) /\ loop.writer \in {0, c} /\ captures \in Nat
      /\ c <= captures /\ ~capture.on
  <2>1. MaxCaptures \in Nat /\ captures \in 0..MaxCaptures /\ recorder.last \in 0..captures
    BY <1>1, MicrophoneTyped DEF RecorderOK
  <2>2. (c # 0 => c \in M!Captures) /\ captures \in Nat /\ c <= captures
    BY <2>1 DEF M!Captures
  <2> QED BY <1>1, <1>2, <2>2 DEF RecorderOK, Joins, MicrophoneOK
<1>4. MicrophoneOK'
  BY <1>1, <1>2 DEF MicrophoneOK
<1>5. CASE recorder' = recorder /\ (loop.writer = 0 \/ Wav(c).writer \in {"none", "done"})
  <2>1. Fed' /\ Joins' /\ Delivered'
    BY <1>1, <1>2, <1>5 DEF Fed, Joins, Delivered, Wav
  <2>2. Attended'
    BY <1>1, <1>2, <1>3, <1>5 DEF Attended, Between, Wav
  <2>3. \A d \in M!Captures : Wav(d)' = Wav(d)
    BY <1>5 DEF Wav
  <2> QED BY <1>2, <1>3, <1>4, <1>5, <2>1, <2>2, <2>3, RecordingsStay
<1>6. CASE c # 0 /\ recorder' = [recorder EXCEPT !.wavs[c].broken = TRUE]
  <2>1. /\ DOMAIN recorder' = {"current", "last", "kept", "wavs"}
        /\ recorder'.current = 0 /\ recorder'.last = recorder.last
        /\ recorder'.kept = recorder.kept /\ DOMAIN recorder'.wavs = M!Captures
        /\ \A d \in M!Captures \ {c} : recorder'.wavs[d] = Wav(d)
        /\ recorder'.wavs[c] = [Wav(c) EXCEPT !.broken = TRUE]
        /\ DOMAIN Wav(c) = WavFields /\ c \in M!Captures /\ WavOK(Wav(c))
    BY <1>2, <1>3, <1>6 DEF Wav, WavOK
  <2>2. /\ DOMAIN recorder'.wavs[c] = WavFields /\ recorder'.wavs[c].writer = Wav(c).writer
        /\ recorder'.wavs[c].exists = Wav(c).exists /\ recorder'.wavs[c].written = Wav(c).written
        /\ recorder'.wavs[c].queue = Wav(c).queue /\ recorder'.wavs[c].broken = TRUE
        /\ recorder'.wavs[c].dropped = Wav(c).dropped
        /\ recorder'.wavs[c].stopping = Wav(c).stopping
    BY <2>1 DEF WavFields
  <2>3. WavOK(recorder'.wavs[c])
    BY <2>1, <2>2 DEF WavOK
  <2>4. RecorderOK'
    BY <1>1, <1>2, <1>3, <2>1, <2>3 DEF RecorderOK, Wav
  <2>5. Unopened'
    <3>1. \A d \in M!Captures : d > captures => d # c
      BY <1>3 DEF M!Captures
    <3> QED BY <1>1, <1>2, <2>1, <3>1 DEF Unopened, Wav
  <2>6. Fed' /\ Joins' /\ Attended'
    BY <1>2, <2>1, <2>2 DEF Fed, Joins, Attended, Wav
  <2>7. Drained'
    <3>1. \A d \in M!Captures : ~Wav(d)'.broken => d # c /\ Wav(d)' = Wav(d)
      BY <2>1, <2>2 DEF Wav
    <3>2. ASSUME NEW d \in M!Captures, ~Wav(d)'.broken, Wav(d)'.writer \in {"ending", "done"}
          PROVE  Wav(d)'.queue = <<>> /\ Wav(d)'.stopping
      BY <1>1, <3>1, <3>2 DEF Drained
    <3> QED BY <3>2 DEF Drained
  <2>8. Delivered'
    BY <1>2, <2>1, <2>2 DEF Delivered, Wav
  <2>9. Failed'
    BY <2>1, <2>2 DEF Failed, Wav
  <2>10. OneWriter'
    BY <2>9 DEF OneWriter
  <2>11. M!KeptIsThere'
    BY <2>9 DEF M!KeptIsThere, Failed, Wav
  <2> QED BY <1>4, <2>4, <2>5, <2>6, <2>7, <2>8, <2>10, <2>11 DEF MicrophoneState
<1>7. CASE loop.writer = 0
  BY <1>2, <1>5, <1>7
<1>8. CASE loop.writer # 0
  <2>1. loop.writer = c /\ c # 0 /\ recorder' = M!StopEnded(recorder, c)
    BY <1>2, <1>3, <1>8
  <2> QED BY <1>5, <1>6, <2>1 DEF M!StopEnded, Wav
<1> QED BY <1>7, <1>8

LEMMA InitMicrophone == Init => MicrophoneInv
<1> SUFFICES ASSUME Init, component = "microphone" PROVE MicrophoneState
  BY DEF MicrophoneInv
<1>1. M!Init
  BY DEF Init
<1>2. /\ recorder = [current |-> 0, last |-> 0, kept |-> {},
                     wavs |-> [c \in M!Captures |-> M!NoWav]]
      /\ heard = 0 /\ ring = <<>> /\ capture = M!NotCapturing /\ all = <<>>
      /\ loop = M!AtRest /\ captures = 0
  BY <1>1 DEF M!Init, M!InitRecorder
<1>3. /\ \A c \in M!Captures : Wav(c) = M!NoWav
      /\ recorder.current = 0 /\ recorder.last = 0 /\ recorder.kept = {}
      /\ DOMAIN recorder = {"current", "last", "kept", "wavs"}
      /\ DOMAIN recorder.wavs = M!Captures
  BY <1>2 DEF Wav
<1>4. /\ WavOK(M!NoWav) /\ ~Active(M!NoWav) /\ M!NoWav.writer = "none"
      /\ M!NoWav.written = <<>> /\ M!NoWav.queue = <<>> /\ M!NoWav.stopping = FALSE
      /\ M!NoWav.broken = FALSE /\ M!NoWav.dropped = FALSE
  BY DEF M!NoWav, WavOK, WavFields, Stages, Active
<1>5. MicrophoneOK /\ loop.at = "rest" /\ ~capture.on
  BY <1>2 DEF MicrophoneOK, M!NotCapturing, M!AtRest
<1>6. RecorderOK
  BY <1>2, <1>3, <1>4, MicrophoneTyped DEF RecorderOK
<1>7. Unopened /\ Fed /\ Attended /\ Joins /\ Drained /\ Delivered /\ OneWriter
  BY <1>3, <1>4, <1>5 DEF Unopened, Fed, Attended, Joins, Drained, Delivered, OneWriter
<1>8. M!KeptIsThere
  BY <1>3 DEF M!KeptIsThere
<1> QED BY <1>5, <1>6, <1>7, <1>8 DEF MicrophoneState

LEMMA StepMicrophone == MicrophoneInv /\ [Next]_vars => MicrophoneInv'
<1> SUFFICES ASSUME MicrophoneInv, [Next]_vars, component' = "microphone" PROVE MicrophoneState'
  BY DEF MicrophoneInv
<1>1. CASE UNCHANGED vars
  <2>1. MicrophoneState /\ UNCHANGED <<recorder, loop, captures, all, capture, ring, heard>>
    BY <1>1 DEF vars, microphoneVars, MicrophoneInv
  <2>2. MicrophoneOK'
    BY <2>1 DEF MicrophoneState, MicrophoneOK
  <2> QED BY <2>1, <2>2, OnlyHeard
<1>2. CASE component = "microphone" /\ M!Next
  <2>1. MicrophoneState
    BY <1>2 DEF MicrophoneInv
  <2>2. CASE \E n \in Buffers : M!Process(n)
    BY <2>1, <2>2, MicrophoneHears
  <2>3. CASE M!GoStale
    BY <2>1, <2>3, MicrophonePolls
  <2>4. CASE M!Loop
    BY <2>1, <2>4, MicrophonePolls, MicrophoneStarts, MicrophoneBegins, MicrophoneGoesOn,
       MicrophoneKeeps, MicrophoneDetaches, MicrophoneJoins DEF M!Loop
  <2>5. CASE M!Writers
    <3>1. PICK c \in M!Captures : M!Writer(c)
      BY <2>5 DEF M!Writers
    <3>2. UNCHANGED <<captures, all, ring, heard, capture, loop>>
      BY <2>5 DEF M!Writers, M!deviceVars, M!captureVars
    <3>3. Steps(c)
      BY <2>1, <3>1, WriterSteps
    <3> QED BY <2>1, <3>2, <3>3, StepsKeep
  <2> QED BY <1>2, <2>2, <2>3, <2>4, <2>5 DEF M!Next
<1> QED BY <1>1, <1>2 DEF Next

(* A recording that is called recorded holds, once its capture has ended, every
   sample the device delivered to the capture, the pre-roll first, in order:
   however its writer, its pruning and the callbacks took turns, and whichever
   writer failed, dropped a buffer or was left behind before (`write_shared`,
   `drain`, `CaptureRecorder::stop`). *)
THEOREM RecordingsAreWhole == Spec => []RecordedIsWhole
<1>1. MicrophoneInv => RecordedIsWhole
  <2> SUFFICES ASSUME MicrophoneState, loop.at = "taken", M!Status(recorder) = "Recorded"
               PROVE  recorder.wavs[recorder.last].written = all
    BY DEF MicrophoneInv, RecordedIsWhole, M!RecordedIsWhole
  <2>1. recorder.last # 0 /\ ~Wav(recorder.last).broken /\ ~Wav(recorder.last).dropped
    BY DEF M!Status, Wav
  <2>2. Wav(recorder.last).writer = "done" /\ recorder.last \in M!Captures
    <3>1. MaxCaptures \in Nat /\ captures \in 0..MaxCaptures /\ recorder.last \in 0..captures
      BY MicrophoneTyped DEF MicrophoneState, RecorderOK
    <3>2. recorder.last \in M!Captures
      BY <2>1, <3>1 DEF M!Captures
    <3> QED BY <2>1, <3>2 DEF MicrophoneState, Attended, Between
  <2>3. Wav(recorder.last).queue = <<>>
    BY <2>1, <2>2 DEF MicrophoneState, Drained
  <2>4. Chain(Wav(recorder.last).written, <<>>, all)
    BY <2>1, <2>3 DEF MicrophoneState, Delivered
  <2> QED BY <2>4, ChainWhole DEF Wav
<1> QED BY <1>1, InitMicrophone, StepMicrophone, PTL DEF Spec

(* A recording the daemon keeps for a later start is there until it is released,
   unless some writer failed: no writer prunes it, before it is kept or after
   (`prune_recordings`, `keep_recording`). *)
THEOREM KeptRecordingsStay == Spec => []KeptIsThere
<1>1. MicrophoneInv => KeptIsThere
  BY DEF MicrophoneInv, MicrophoneState, KeptIsThere
<1> QED BY <1>1, InitMicrophone, StepMicrophone, PTL DEF Spec

-----------------------------------------------------------------------------
(* The list of recordings that wait.  Induction is over a set of sequences
   rather than a predicate: what has the empty one, and each with one element
   more than one it has, has them all. *)

LEMMA LastApart ==
  ASSUME NEW T, NEW q \in Seq(T), q # <<>>
  PROVE  /\ SubSeq(q, 1, Len(q) - 1) \in Seq(T)
         /\ Len(SubSeq(q, 1, Len(q) - 1)) = Len(q) - 1
         /\ q[Len(q)] \in T
         /\ Append(SubSeq(q, 1, Len(q) - 1), q[Len(q)]) = q
<1>1. Len(q) \in Nat /\ Len(q) # 0
  BY EmptySeq, LenProperties
<1>2. q[Len(q)] \in T
  BY <1>1, ElementOfSeq
<1>3. \A i \in 1..(Len(q) - 1) : q[i] \in T
  BY <1>1, ElementOfSeq
<1>4. SubSeq(q, 1, Len(q) - 1) \in Seq(T) /\ Len(SubSeq(q, 1, Len(q) - 1)) = Len(q) - 1
  <2>1. Len(q) - 1 \in Int /\ 1 \in Int
    BY <1>1
  <2>2. IF 1 <= Len(q) - 1 THEN (Len(q) - 1) - 1 + 1 = Len(q) - 1 ELSE Len(q) - 1 = 0
    <3>1. \A k \in Nat \ {0} : IF 1 <= k - 1 THEN (k - 1) - 1 + 1 = k - 1 ELSE k - 1 = 0
      OBVIOUS
    <3> QED BY <1>1, <3>1, Zenon
  <2> QED BY <1>3, <2>1, <2>2, SubSeqProperties
<1>5. Append(SubSeq(q, 1, Len(q) - 1), q[Len(q)]) = q
  BY <1>1, <1>2
<1> QED BY <1>2, <1>4, <1>5

LEMMA AllSequences ==
  ASSUME NEW T, NEW All \in SUBSET Seq(T), <<>> \in All,
         \A s \in All : \A e \in T : Append(s, e) \in All
  PROVE  All = Seq(T)
<1> SUFFICES ASSUME NEW s \in Seq(T), s \notin All PROVE FALSE
  OBVIOUS
<1> DEFINE Bad == {n \in Nat : \E q \in Seq(T) : Len(q) = n /\ q \notin All}
<1>1. Bad \in SUBSET Nat /\ Bad # {}
  <2>1. Len(s) \in Bad
    OBVIOUS
  <2> QED BY <2>1
<1>2. \E n \in Bad : \A m \in Bad : <<m, n>> \notin OpToRel(<, Nat)
  BY <1>1, NatLessThanWellFounded, WFMin
<1>3. PICK n \in Bad : \A m \in Bad : ~(m < n)
  BY <1>1, <1>2 DEF OpToRel
<1>4. PICK q \in Seq(T) : Len(q) = n /\ q \notin All
  BY <1>3
<1>5. q # <<>>
  BY <1>4
<1>6. Len(q) \in Nat /\ Len(q) # 0
  BY <1>5, EmptySeq, LenProperties
<1> DEFINE front == SubSeq(q, 1, Len(q) - 1)
<1>7. front \in Seq(T) /\ Len(front) = Len(q) - 1 /\ q[Len(q)] \in T
  BY <1>5, LastApart
<1>8. front \in All
  <2> HIDE DEF front
  <2>1. front \notin All => Len(front) \in Bad
    <3>1. Len(front) \in Nat
      BY <1>6, <1>7
    <3>2. front \notin All => \E p \in Seq(T) : Len(p) = Len(front) /\ p \notin All
      BY <1>7
    <3> QED BY <3>1, <3>2
  <2>2. Len(front) < n
    BY <1>4, <1>6, <1>7
  <2> QED BY <1>3, <2>1, <2>2
<1>9. Append(front, q[Len(q)]) = q
  BY <1>5, LastApart
<1> QED BY <1>4, <1>7, <1>8, <1>9

LEMMA Removed ==
  ASSUME NEW T, NEW q \in Seq(T), NEW i \in DOMAIN q
  PROVE  /\ L!RemoveAt(q, i) \in Seq(T)
         /\ \A j \in DOMAIN L!RemoveAt(q, i) : \E k \in DOMAIN q : L!RemoveAt(q, i)[j] = q[k]
<1> DEFINE before == SubSeq(q, 1, i - 1)
           after == SubSeq(q, i + 1, Len(q))
           rest == L!RemoveAt(q, i)
<1>1. Len(q) \in Nat /\ i \in 1..Len(q) /\ \A k \in 1..Len(q) : q[k] \in T
  OBVIOUS
<1>2. before \in Seq(T) /\ Len(before) = i - 1 /\ \A j \in 1..(i - 1) : before[j] = q[j]
  <2>1. 1 \in Int /\ i - 1 \in Int /\ \A k \in 1..(i - 1) : q[k] \in T
    BY <1>1
  <2>2. /\ before \in Seq(T)
        /\ Len(before) = (IF 1 <= i - 1 THEN (i - 1) - 1 + 1 ELSE 0)
        /\ \A j \in 1..((i - 1) - 1 + 1) : before[j] = q[1 + j - 1]
    BY <2>1, SubSeqProperties
  <2> HIDE DEF before
  <2> QED BY <1>1, <2>2
<1>3. after \in Seq(T) /\ Len(after) = Len(q) - i /\ \A j \in 1..(Len(q) - i) : after[j] = q[i + j]
  <2>1. i + 1 \in Int /\ Len(q) \in Int /\ \A k \in (i + 1)..Len(q) : q[k] \in T
    BY <1>1
  <2>2. /\ after \in Seq(T)
        /\ Len(after) = (IF i + 1 <= Len(q) THEN Len(q) - (i + 1) + 1 ELSE 0)
        /\ \A j \in 1..(Len(q) - (i + 1) + 1) : after[j] = q[(i + 1) + j - 1]
    BY <2>1, SubSeqProperties
  <2> HIDE DEF after
  <2> QED BY <1>1, <2>2
<1>4. rest = before \o after
  BY DEF L!RemoveAt
<1> HIDE DEF before, after, rest
<1>5. rest \in Seq(T) /\ \A j \in DOMAIN rest :
        rest[j] = IF j <= i - 1 THEN before[j] ELSE after[j - (i - 1)]
  BY <1>1, <1>2, <1>3, <1>4
<1>6. Len(rest) = Len(q) - 1 /\ DOMAIN rest = 1..(Len(q) - 1)
  BY <1>1, <1>2, <1>3, <1>4
<1>7. \A j \in DOMAIN rest :
        IF j <= i - 1 THEN j \in DOMAIN q /\ rest[j] = q[j]
        ELSE j + 1 \in DOMAIN q /\ rest[j] = q[j + 1]
  <2> SUFFICES ASSUME NEW j \in 1..(Len(q) - 1)
               PROVE  IF j <= i - 1 THEN j \in DOMAIN q /\ rest[j] = q[j]
                      ELSE j + 1 \in DOMAIN q /\ rest[j] = q[j + 1]
    BY <1>6
  <2>1. CASE j <= i - 1
    BY <1>1, <1>2, <1>5, <1>6, <2>1
  <2>2. CASE ~(j <= i - 1)
    <3>1. j - (i - 1) \in 1..(Len(q) - i) /\ i + (j - (i - 1)) = j + 1 /\ j + 1 \in 1..Len(q)
      BY <1>1, <2>2
    <3>2. rest[j] = after[j - (i - 1)] /\ after[j - (i - 1)] = q[i + (j - (i - 1))]
      BY <1>3, <1>5, <1>6, <2>2, <3>1
    <3> QED BY <1>1, <2>2, <3>1, <3>2
  <2> QED BY <2>1, <2>2
<1>8. rest \in Seq(T) /\ \A j \in DOMAIN rest : \E k \in DOMAIN q : rest[j] = q[k]
  BY <1>5, <1>7
<1> QED BY <1>8 DEF rest

(* `FlattenSeq` is what puts the last part behind the others. *)
Flattens(g, parts, n) ==
  g = [i \in 1..n |-> IF i = 1 THEN parts[i] ELSE g[i - 1] \o parts[i]]

Longer(g, n, more) ==
  [i \in 1..(n + 1) |->
    IF i = n + 1 THEN (IF n = 0 THEN more[n + 1] ELSE g[n] \o more[n + 1]) ELSE g[i]]

LEMMA FlattenGrows ==
  ASSUME NEW parts, NEW n \in Nat, NEW g, Flattens(g, parts, n), NEW more,
         \A i \in 1..n : more[i] = parts[i]
  PROVE  /\ Flattens(Longer(g, n, more), more, n + 1)
         /\ Longer(g, n, more)[n + 1] = IF n = 0 THEN more[n + 1] ELSE g[n] \o more[n + 1]
<1> DEFINE h == Longer(g, n, more)
<1> USE DEF Longer
<1>1. h[n + 1] = IF n = 0 THEN more[n + 1] ELSE g[n] \o more[n + 1]
  OBVIOUS
<1>2. \A i \in 1..n : g[i] = IF i = 1 THEN parts[i] ELSE g[i - 1] \o parts[i]
  BY DEF Flattens
<1>3. \A i \in 1..(n + 1) : h[i] = IF i = 1 THEN more[i] ELSE h[i - 1] \o more[i]
  <2> SUFFICES ASSUME NEW i \in 1..(n + 1) 
               PROVE  h[i] = IF i = 1 THEN more[i] ELSE h[i - 1] \o more[i]
    OBVIOUS
  <2>1. CASE i = n + 1
    BY <1>1, <2>1
  <2>2. CASE i # n + 1
    <3>1. i \in 1..n /\ (i # 1 => i - 1 \in 1..n)
      BY <2>2
    <3>2. i # 1 => h[i - 1] = g[i - 1]
      BY <3>1
    <3>3. h[i] = g[i]
      BY <2>2
    <3>4. parts[i] = more[i]
      BY <3>1
    <3>5. g[i] = IF i = 1 THEN parts[i] ELSE g[i - 1] \o parts[i]
      BY <1>2, <3>1
    <3> HIDE DEF h
    <3> QED BY <3>2, <3>3, <3>4, <3>5
  <2> QED BY <2>1, <2>2
<1>4. h = [i \in 1..(n + 1) |-> IF i = 1 THEN more[i] ELSE h[i - 1] \o more[i]]
  BY <1>3
<1>5. Flattens(h, more, n + 1)
  BY <1>4 DEF Flattens
<1> QED BY <1>1, <1>5

LEMMA FlattenIsOne ==
  ASSUME NEW parts, NEW n \in Nat, NEW g, NEW h,
         Flattens(g, parts, n), Flattens(h, parts, n)
  PROVE  \A i \in 1..n : g[i] = h[i]
<1> DEFINE Bad == {i \in 1..n : g[i] # h[i]}
<1> SUFFICES ASSUME Bad # {} PROVE FALSE
  OBVIOUS
<1>1. Bad \in SUBSET Nat
  OBVIOUS
<1>2. \E k \in Bad : \A m \in Bad : <<m, k>> \notin OpToRel(<, Nat)
  BY <1>1, NatLessThanWellFounded, WFMin
<1>3. PICK k \in Bad : \A m \in Bad : ~(m < k)
  BY <1>1, <1>2 DEF OpToRel
<1>4. k \in 1..n /\ g[k] # h[k]
  BY <1>3
<1>5. g[k] = IF k = 1 THEN parts[k] ELSE g[k - 1] \o parts[k]
  BY <1>4 DEF Flattens
<1>6. h[k] = IF k = 1 THEN parts[k] ELSE h[k - 1] \o parts[k]
  BY <1>4 DEF Flattens
<1>7. k # 1 => k - 1 \in 1..n /\ k - 1 < k
  BY <1>4
<1>8. k # 1 => g[k - 1] = h[k - 1]
  BY <1>3, <1>7
<1> QED BY <1>4, <1>5, <1>6, <1>8

LEMMA FlattenIs ==
  ASSUME NEW T, NEW parts \in Seq(T), Len(parts) # 0, NEW g, Flattens(g, parts, Len(parts))
  PROVE  L!FlattenSeq(parts) = g[Len(parts)]
<1> DEFINE f == CHOOSE h : Flattens(h, parts, Len(parts))
<1>1. L!FlattenSeq(parts) = f[Len(parts)]
  BY DEF L!FlattenSeq, Flattens
<1>2. Flattens(f, parts, Len(parts))
  <2>1. \E h : Flattens(h, parts, Len(parts))
    OBVIOUS
  <2> QED BY <2>1, Zenon
<1>3. Len(parts) \in Nat /\ Len(parts) \in 1..Len(parts)
  OBVIOUS
<1> HIDE DEF f
<1>4. f[Len(parts)] = g[Len(parts)]
  BY <1>2, <1>3, FlattenIsOne
<1> QED BY <1>1, <1>4

LEMMA FlattensAll ==
  ASSUME NEW T, NEW parts \in Seq(T)
  PROVE  \E g : Flattens(g, parts, Len(parts))
<1> DEFINE All == {q \in Seq(T) : \E g : Flattens(g, q, Len(q))}
<1>1. <<>> \in All
  <2>1. Flattens(<<>>, <<>>, 0)
    BY DEF Flattens
  <2> QED BY <2>1
<1>2. \A q \in All : \A e \in T : Append(q, e) \in All
  <2> SUFFICES ASSUME NEW q \in Seq(T), NEW g, Flattens(g, q, Len(q)), NEW e \in T
               PROVE  Append(q, e) \in All
    OBVIOUS
  <2>1. /\ Len(q) \in Nat /\ Len(Append(q, e)) = Len(q) + 1 /\ Append(q, e) \in Seq(T)
        /\ \A i \in 1..Len(q) : Append(q, e)[i] = q[i]
        /\ Append(q, e)[Len(q) + 1] = e
    OBVIOUS
  <2>2. Flattens(Longer(g, Len(q), Append(q, e)), Append(q, e), Len(q) + 1)
    BY <2>1, FlattenGrows
  <2> QED BY <2>1, <2>2
<1>3. All \in SUBSET Seq(T)
  OBVIOUS
<1>4. All = Seq(T)
  <2> HIDE DEF All
  <2> QED BY <1>1, <1>2, <1>3, AllSequences
<1> QED BY <1>4

LEMMA FlattenOneMore ==
  ASSUME NEW T, NEW parts \in Seq(T), NEW more \in Seq(T), NEW g,
         Flattens(g, parts, Len(parts)), Len(more) = Len(parts) + 1,
         \A i \in 1..Len(parts) : more[i] = parts[i]
  PROVE  L!FlattenSeq(more) =
           IF Len(parts) = 0 THEN more[1] ELSE L!FlattenSeq(parts) \o more[Len(more)]
<1>1. Len(parts) \in Nat /\ Len(more) # 0
  OBVIOUS
<1> DEFINE h == Longer(g, Len(parts), more)
<1>2. Flattens(h, more, Len(parts) + 1)
  BY <1>1, FlattenGrows
<1>3. h[Len(parts) + 1] = IF Len(parts) = 0 THEN more[Len(parts) + 1]
                          ELSE g[Len(parts)] \o more[Len(parts) + 1]
  BY <1>1, FlattenGrows
<1> HIDE DEF h
<1>4. L!FlattenSeq(more) = h[Len(more)]
  BY <1>1, <1>2, FlattenIs
<1>5. Len(parts) # 0 => L!FlattenSeq(parts) = g[Len(parts)]
  BY FlattenIs
<1> QED BY <1>1, <1>3, <1>4, <1>5

LEMMA FlattenAppend ==
  ASSUME NEW T, NEW parts \in Seq(Seq(T)), NEW x \in Seq(T)
  PROVE  L!FlattenSeq(Append(parts, x)) = L!FlattenSeq(parts) \o x
<1>1. /\ Len(Append(parts, x)) = Len(parts) + 1 /\ Append(parts, x) \in Seq(Seq(T))
      /\ \A i \in 1..Len(parts) : Append(parts, x)[i] = parts[i]
      /\ Append(parts, x)[Len(parts) + 1] = x
  OBVIOUS
<1>2. PICK g : Flattens(g, parts, Len(parts))
  BY FlattensAll
<1>3. L!FlattenSeq(Append(parts, x)) =
        IF Len(parts) = 0 THEN Append(parts, x)[1]
        ELSE L!FlattenSeq(parts) \o Append(parts, x)[Len(Append(parts, x))]
  BY <1>1, <1>2, FlattenOneMore
<1>4. CASE Len(parts) = 0
  <2>1. parts = <<>> /\ L!FlattenSeq(parts) = <<>>
    BY <1>4, EmptySeq DEF L!FlattenSeq
  <2> QED BY <1>1, <1>3, <1>4, <2>1
<1>5. CASE Len(parts) # 0
  BY <1>1, <1>3, <1>5
<1> QED BY <1>4, <1>5

(* What of a list is read, and what of it remains, line by line. *)
Choices == Stamps \cup {Configured}
Marks == {"none", "unreadable", "cut"}
Headings == [started : Seconds, timestamps : Choices]
Entries == [name : L!Names, through : {0, 1}, heading : Headings]
Lines == [name : L!Names, through : {0, 1},
          heading : Headings \cup {L!Useless(why) : why \in Marks}]
Read(there, lines) == L!FlattenSeq([i \in DOMAIN lines |-> L!Waiting(there, lines[i])])
Left(there, entry) == IF there[entry.name] = "there" THEN <<entry>> ELSE <<>>

LEMMA ListNames ==
  /\ Marks \cap Choices = {}
  /\ \A n \in L!Names : L!NamedTime(n) \in Headings
  /\ \A why \in Marks : L!Useless(why) \notin Headings
<1> QED BY CaptureAssumptions
        DEF L!WaitingAssumption, Headings, Marks, Choices, L!Names, L!NamedTime, L!Useless

LEMMA WaitingIs ==
  ASSUME NEW there, NEW line \in Lines
  PROVE  /\ L!Waiting(there, line) \in Seq(Entries)
         /\ L!Waiting(there, line) = <<>>
            \/ \E e \in Entries : /\ L!Waiting(there, line) = <<e>> /\ e.name = line.name
                                 /\ there[line.name] = "there"
<1>1. CASE there[line.name] # "there" \/ line.heading = L!Useless("cut")
  BY <1>1 DEF L!Waiting
<1>2. CASE /\ ~(there[line.name] # "there" \/ line.heading = L!Useless("cut"))
           /\ line.heading \in {L!Useless("none"), L!Useless("unreadable")}
  <2> DEFINE e == [line EXCEPT !.heading = L!NamedTime(line.name)]
  <2>1. L!Waiting(there, line) = <<e>>
    BY <1>2 DEF L!Waiting
  <2>2. e \in Entries /\ e.name = line.name
    BY ListNames DEF Lines, Entries
  <2> HIDE DEF e
  <2>3. <<e>> \in Seq(Entries)
    BY <2>2
  <2> QED BY <2>3, <1>2, <2>1, <2>2
<1>3. CASE /\ ~(there[line.name] # "there" \/ line.heading = L!Useless("cut"))
           /\ line.heading \notin {L!Useless("none"), L!Useless("unreadable")}
  <2>1. L!Waiting(there, line) = <<line>>
    BY <1>3 DEF L!Waiting
  <2>2. line \in Entries
    BY <1>3 DEF Lines, Entries, Marks
  <2>3. <<line>> \in Seq(Entries)
    BY <2>2
  <2> QED BY <1>3, <2>1, <2>2, <2>3
<1> QED BY <1>1, <1>2, <1>3

LEMMA ReadMore ==
  ASSUME NEW there, NEW lines \in Seq(Lines), NEW line \in Lines
  PROVE  /\ Read(there, <<>>) = <<>>
         /\ Read(there, Append(lines, line)) = Read(there, lines) \o L!Waiting(there, line)
<1>1. Read(there, <<>>) = <<>>
  BY DEF Read, L!FlattenSeq
<1> DEFINE parts == [i \in DOMAIN lines |-> L!Waiting(there, lines[i])]
           more == [i \in DOMAIN Append(lines, line) |-> L!Waiting(there, Append(lines, line)[i])]
           x == L!Waiting(there, line)
<1>2. parts \in Seq(Seq(Entries)) /\ x \in Seq(Entries)
  BY WaitingIs
<1>3. more = Append(parts, x)
  OBVIOUS
<1> HIDE DEF parts, more, x
<1>4. L!FlattenSeq(more) = L!FlattenSeq(parts) \o x
  BY <1>2, <1>3, FlattenAppend
<1> QED BY <1>1, <1>4 DEF Read, parts, more, x

LEMMA RemainingMore ==
  ASSUME NEW there, NEW entries \in Seq(Entries), NEW e \in Entries
  PROVE  /\ L!Remaining(there, <<>>) = <<>>
         /\ L!Remaining(there, Append(entries, e)) = L!Remaining(there, entries) \o Left(there, e)
<1>1. L!Remaining(there, <<>>) = <<>>
  BY DEF L!Remaining, L!FlattenSeq
<1> DEFINE parts == [i \in DOMAIN entries |-> Left(there, entries[i])]
           more == [i \in DOMAIN Append(entries, e) |-> Left(there, Append(entries, e)[i])]
           x == Left(there, e)
<1>2. parts \in Seq(Seq(Entries)) /\ x \in Seq(Entries)
  <2>1. \A d \in Entries : Left(there, d) \in Seq(Entries)
    BY DEF Left
  <2>2. \A i \in DOMAIN entries : entries[i] \in Entries
    OBVIOUS
  <2>3. \A i \in DOMAIN entries : Left(there, entries[i]) \in Seq(Entries)
    BY <2>1, <2>2, Zenon
  <2>4. DOMAIN entries = 1..Len(entries) /\ Len(entries) \in Nat
    OBVIOUS
  <2>5. x \in Seq(Entries)
    BY <2>1
  <2> HIDE DEF Left
  <2>6. parts \in Seq(Seq(Entries))
    BY <2>3, <2>4
  <2> QED BY <2>5, <2>6
<1>3. more = Append(parts, x)
  OBVIOUS
<1>5. L!Remaining(there, entries) = L!FlattenSeq(parts)
      /\ L!Remaining(there, Append(entries, e)) = L!FlattenSeq(more)
  BY DEF L!Remaining, Left
<1> HIDE DEF parts, more, x
<1>4. L!FlattenSeq(more) = L!FlattenSeq(parts) \o x
  BY <1>2, <1>3, FlattenAppend
<1> QED BY <1>1, <1>4, <1>5 DEF x

(* What is read has the recordings that are there. *)
LEMMA ReadThere ==
  ASSUME NEW there, NEW lines \in Seq(Lines)
  PROVE  /\ Read(there, lines) \in Seq(Entries)
         /\ \A i \in DOMAIN Read(there, lines) :
              /\ there[Read(there, lines)[i].name] = "there"
              /\ \E k \in DOMAIN lines : lines[k].name = Read(there, lines)[i].name
<1> DEFINE Fine(q) == /\ Read(there, q) \in Seq(Entries)
                      /\ \A i \in DOMAIN Read(there, q) :
                           /\ there[Read(there, q)[i].name] = "there"
                           /\ \E k \in DOMAIN q : q[k].name = Read(there, q)[i].name
           All == {q \in Seq(Lines) : Fine(q)}
<1>1. <<>> \in All
  <2>1. Read(there, <<>>) = <<>>
    BY DEF Read, L!FlattenSeq
  <2>2. <<>> \in Seq(Entries) /\ DOMAIN <<>> = {} /\ <<>> \in Seq(Lines)
    OBVIOUS
  <2>3. Fine(<<>>)
    BY <2>1, <2>2, Zenon
  <2> HIDE DEF Fine
  <2> QED BY <2>2, <2>3
<1>2. \A q \in All : \A e \in Lines : Append(q, e) \in All
  <2> SUFFICES ASSUME NEW q \in Seq(Lines), Fine(q), NEW e \in Lines
               PROVE  Append(q, e) \in Seq(Lines) /\ Fine(Append(q, e))
    OBVIOUS
  <2>1. Read(there, Append(q, e)) = Read(there, q) \o L!Waiting(there, e)
    BY ReadMore
  <2>2. Append(q, e) \in Seq(Lines) /\ Len(Append(q, e)) = Len(q) + 1
        /\ (\A k \in DOMAIN q : k \in DOMAIN Append(q, e) /\ Append(q, e)[k] = q[k])
        /\ Len(q) + 1 \in DOMAIN Append(q, e) /\ Append(q, e)[Len(q) + 1] = e
    OBVIOUS
  <2> DEFINE old == Read(there, q)
             new == Read(there, Append(q, e))
  <2> HIDE DEF old, new
  <2>3. old \in Seq(Entries) /\ \A i \in DOMAIN old :
          there[old[i].name] = "there" /\ \E k \in DOMAIN q : q[k].name = old[i].name
    BY DEF old
  <2>4. CASE L!Waiting(there, e) = <<>>
    <3>1. new = old
      BY <2>1, <2>3, <2>4 DEF old, new
    <3>2. \A i \in DOMAIN new : there[new[i].name] = "there"
            /\ \E k \in DOMAIN Append(q, e) : Append(q, e)[k].name = new[i].name
      BY <2>2, <2>3, <3>1
    <3> QED BY <2>2, <2>3, <3>1, <3>2 DEF new
  <2>5. CASE L!Waiting(there, e) # <<>>
    <3>1. PICK d \in Entries : L!Waiting(there, e) = <<d>> /\ d.name = e.name
                              /\ there[e.name] = "there"
      BY <2>5, WaitingIs
    <3>2. new = Append(old, d)
      BY <2>1, <2>3, <3>1 DEF old, new
    <3>3. new \in Seq(Entries) /\ \A i \in DOMAIN new : (i \in DOMAIN old /\ new[i] = old[i]) \/ new[i] = d
      BY <2>3, <3>2
    <3>4. \A i \in DOMAIN new : there[new[i].name] = "there"
            /\ \E k \in DOMAIN Append(q, e) : Append(q, e)[k].name = new[i].name
      BY <2>2, <2>3, <3>1, <3>3
    <3> QED BY <2>2, <3>3, <3>4 DEF new
  <2> QED BY <2>4, <2>5
<1>3. All \in SUBSET Seq(Lines)
  OBVIOUS
<1>4. All = Seq(Lines)
  <2> HIDE DEF All
  <2> QED BY <1>1, <1>2, <1>3, AllSequences
<1> QED BY <1>4

(* What was read and remains is what is read later: a recording that is there
   then was before. *)
LEMMA ReadLater ==
  ASSUME NEW there, NEW later, NEW lines \in Seq(Lines),
         \A i \in DOMAIN lines : later[lines[i].name] = "there" => there[lines[i].name] = "there"
  PROVE  L!Remaining(later, Read(there, lines)) = Read(later, lines)
<1> DEFINE Wanes(q) ==
      \A i \in DOMAIN q : later[q[i].name] = "there" => there[q[i].name] = "there"
    All == {q \in Seq(Lines) : Wanes(q) => L!Remaining(later, Read(there, q)) = Read(later, q)}
<1>1. <<>> \in All
  <2>1. Read(there, <<>>) = <<>> /\ Read(later, <<>>) = <<>> /\ L!Remaining(later, <<>>) = <<>>
    BY DEF Read, L!Remaining, L!FlattenSeq
  <2> QED BY <2>1
<1>2. \A q \in All : \A e \in Lines : Append(q, e) \in All
  <2> SUFFICES ASSUME NEW q \in All, NEW e \in Lines PROVE Append(q, e) \in All
    BY Zenon
  <2>1. q \in Seq(Lines) /\ Append(q, e) \in Seq(Lines)
    OBVIOUS
  <2> SUFFICES ASSUME Wanes(Append(q, e))
               PROVE  L!Remaining(later, Read(there, Append(q, e))) = Read(later, Append(q, e))
    BY <2>1
  <2>2. Wanes(q) /\ (later[e.name] = "there" => there[e.name] = "there")
    <3>1. \A i \in DOMAIN q : i \in DOMAIN Append(q, e) /\ Append(q, e)[i] = q[i]
      BY <2>1
    <3>2. Len(q) + 1 \in DOMAIN Append(q, e) /\ Append(q, e)[Len(q) + 1] = e
      BY <2>1
    <3> QED BY <3>1, <3>2
  <2>3. L!Remaining(later, Read(there, q)) = Read(later, q)
    <3>1. Wanes(q) => L!Remaining(later, Read(there, q)) = Read(later, q)
      OBVIOUS
    <3> QED BY <2>2, <3>1
  <2> HIDE DEF Wanes, All
  <2>4. /\ Read(there, Append(q, e)) = Read(there, q) \o L!Waiting(there, e)
        /\ Read(later, Append(q, e)) = Read(later, q) \o L!Waiting(later, e)
    BY <2>1, ReadMore
  <2>5. Read(there, q) \in Seq(Entries) /\ Read(later, q) \in Seq(Entries)
    BY <2>1, ReadThere
  <2>6. CASE there[e.name] # "there" \/ e.heading = L!Useless("cut")
    <3>1. L!Waiting(there, e) = <<>> /\ L!Waiting(later, e) = <<>>
      BY <2>2, <2>6 DEF L!Waiting
    <3> QED BY <2>3, <2>4, <2>5, <3>1
  <2>7. CASE there[e.name] = "there" /\ e.heading # L!Useless("cut")
    <3>1. PICK d \in Entries : L!Waiting(there, e) = <<d>> /\ d.name = e.name
      <4>1. L!Waiting(there, e) # <<>>
        BY <2>7 DEF L!Waiting
      <4> QED BY <4>1, WaitingIs
    <3>2. L!Waiting(later, e) = Left(later, d)
      BY <2>7, <3>1 DEF L!Waiting, Left
    <3>3. Read(there, Append(q, e)) = Append(Read(there, q), d)
      BY <2>4, <2>5, <3>1
    <3>4. L!Remaining(later, Append(Read(there, q), d))
            = L!Remaining(later, Read(there, q)) \o Left(later, d)
      BY <2>5, RemainingMore
    <3> QED BY <2>3, <2>4, <3>2, <3>3, <3>4
  <2> QED BY <2>6, <2>7
<1>3. All \in SUBSET Seq(Lines)
  OBVIOUS
<1>4. All = Seq(Lines)
  <2> HIDE DEF All
  <2> QED BY <1>1, <1>2, <1>3, AllSequences
<1> QED BY <1>4

(* Of entries that are whole, what is read is what remains. *)
LEMMA ReadWhole ==
  ASSUME NEW there, NEW entries \in Seq(Entries)
  PROVE  Read(there, entries) = L!Remaining(there, entries)
<1> DEFINE All == {q \in Seq(Entries) : Read(there, q) = L!Remaining(there, q)}
<1>1. <<>> \in All
  BY DEF Read, L!Remaining, L!FlattenSeq
<1>2. \A q \in All : \A e \in Entries : Append(q, e) \in All
  <2> SUFFICES ASSUME NEW q \in All, NEW e \in Entries
               PROVE  Read(there, Append(q, e)) = L!Remaining(there, Append(q, e))
    OBVIOUS
  <2>1. e \in Lines /\ q \in Seq(Lines)
    <3>1. Entries \subseteq Lines
      BY DEF Entries, Lines
    <3> QED BY <3>1
  <2>2. L!Waiting(there, e) = Left(there, e)
    BY ListNames DEF L!Waiting, Left, Entries, Marks
  <2> QED BY <2>1, <2>2, ReadMore, RemainingMore
<1>3. All \in SUBSET Seq(Entries)
  OBVIOUS
<1>4. All = Seq(Entries)
  <2> HIDE DEF All
  <2> QED BY <1>1, <1>2, <1>3, AllSequences
<1> QED BY <1>4

(* The list on disk names recordings there were, and what is written beside it
   is what the daemon holds. *)
Known(entries) == \A i \in DOMAIN entries : files[entries[i].name] # "unused"

ListState ==
  /\ files \in [L!Names -> {"unused", "there", "deleted"}]
  /\ now \in Seconds
  /\ held \in Seq(Entries) /\ Known(held)
  /\ list = L!Absent \/ \E lines \in Seq(Lines) : list = L!Holding(lines) /\ Known(lines)
  /\ staging \in Seq(Lines)
  /\ daemon \in [up : BOOLEAN, records : BOOLEAN, at : {"rest", "writing"}]
  /\ daemon.at = "writing" =>
       /\ daemon.records
       /\ Len(staging) <= Len(held)
       /\ \A i \in 1..Len(staging) : staging[i] = held[i]

ListInv == component = "list" => ListState

LEMMA ReadList ==
  ASSUME NEW there
  PROVE  /\ L!ReadWaitingList(there, L!Absent) = <<>>
         /\ \A lines : L!ReadWaitingList(there, L!Holding(lines)) = Read(there, lines)
<1>1. L!ReadWaitingList(there, L!Absent) = <<>>
  BY DEF L!ReadWaitingList
<1>2. ASSUME NEW lines PROVE L!ReadWaitingList(there, L!Holding(lines)) = Read(there, lines)
  <2> DEFINE first == CHOOSE l \in L!Holding(lines) : TRUE
  <2>1. L!Holding(lines) # L!Absent /\ first = lines
    BY DEF L!Holding, L!Absent
  <2>2. L!ReadWaitingList(there, L!Holding(lines)) = Read(there, first)
    BY <2>1 DEF L!ReadWaitingList, Read
  <2> HIDE DEF first
  <2> QED BY <2>1, <2>2
<1> QED BY <1>1, <1>2

LEMMA OldLinesAre == L!OldLines \subseteq Lines
<1> SUFFICES ASSUME NEW line \in L!OldLines PROVE line \in Lines
  OBVIOUS
<1>1. PICK n \in L!Names, why \in {"none", "unreadable"} :
        line = [name |-> n, through |-> 1, heading |-> L!Useless(why)]
  BY DEF L!OldLines
<1> QED BY <1>1 DEF Lines, Marks

LEMMA InitList == Init => ListInv
<1> SUFFICES ASSUME Init, component = "list" PROVE ListState
  BY DEF ListInv
<1>1. L!Init
  BY DEF Init
<1>2. /\ now \in Seconds /\ held = <<>> /\ held \in Seq(Entries) /\ Known(held)
      /\ staging = <<>> /\ staging \in Seq(Lines)
      /\ daemon \in [up : BOOLEAN, records : BOOLEAN, at : {"rest", "writing"}]
      /\ daemon.at = "rest"
  BY <1>1 DEF L!Init, L!Off, Known
<1>3. CASE files = [n \in L!Names |-> "unused"] /\ list = L!Absent
  BY <1>2, <1>3 DEF ListState
<1>4. CASE \E line \in L!OldLines :
             /\ files = [n \in L!Names |-> IF n = line.name THEN "there" ELSE "unused"]
             /\ list = L!Holding(<<line>>)
  <2>1. PICK line \in Lines :
          /\ files = [n \in L!Names |-> IF n = line.name THEN "there" ELSE "unused"]
          /\ list = L!Holding(<<line>>)
    BY <1>4, OldLinesAre
  <2>2. line.name \in L!Names /\ files[line.name] # "unused"
    BY <2>1 DEF Lines
  <2>3. <<line>> \in Seq(Lines) /\ Known(<<line>>)
    BY <2>2 DEF Known
  <2> QED BY <1>2, <2>1, <2>3 DEF ListState
<1> QED BY <1>1, <1>3, <1>4 DEF L!Init

(* No recording that was there and is not comes back. *)
FilesGrow ==
  \A n \in L!Names : files'[n] = "there" => files[n] \in {"there", "unused"}

LEMMA ListLeft ==
  ASSUME ListState, FilesGrow, list' = list
  PROVE  L!SavesWholeStep
<1> SUFFICES L!ReadWaitingList(files', list') = L!Remaining(files', L!ReadWaitingList(files, list))
  BY DEF L!SavesWholeStep
<1>1. CASE list = L!Absent
  <2>1. L!Remaining(files', <<>>) = <<>>
    BY DEF L!Remaining, L!FlattenSeq
  <2> QED BY <1>1, <2>1, ReadList
<1>2. CASE list # L!Absent
  <2>1. PICK lines \in Seq(Lines) : list = L!Holding(lines) /\ Known(lines)
    BY <1>2 DEF ListState
  <2>2. \A i \in DOMAIN lines : lines[i].name \in L!Names
    <3>1. \A i \in DOMAIN lines : lines[i] \in Lines
      OBVIOUS
    <3> QED BY <3>1 DEF Lines
  <2>3. \A i \in DOMAIN lines :
          files'[lines[i].name] = "there" => files[lines[i].name] = "there"
    BY <2>1, <2>2 DEF FilesGrow, Known
  <2>4. L!Remaining(files', Read(files, lines)) = Read(files', lines)
    BY <2>3, ReadLater
  <2> QED BY <2>1, <2>4, ReadList
<1> QED BY <1>1, <1>2

LEMMA ListWritten ==
  ASSUME ListState, L!Rename
  PROVE  /\ L!SavesWholeStep
         /\ list' = L!Holding(held) /\ files' = files
<1>1. /\ daemon.records /\ files' = files /\ list' = L!Holding(staging)
      /\ Len(staging) = Len(held) /\ \A i \in 1..Len(staging) : staging[i] = held[i]
  BY DEF ListState, L!Rename, L!Written
<1>2. staging \in Seq(Lines) /\ held \in Seq(Entries)
  BY DEF ListState
<1>3. staging = held
  BY <1>1, <1>2
<1>4. L!ReadWaitingList(files', list') = L!Remaining(files', held)
  BY <1>1, <1>2, <1>3, ReadList, ReadWhole
<1> QED BY <1>1, <1>3, <1>4 DEF L!SavesWholeStep

LEMMA ListRemoved ==
  ASSUME ListState, L!RemoveList
  PROVE  L!SavesWholeStep
<1>1. L!Remaining(files', <<>>) = <<>>
  BY DEF L!Remaining, L!FlattenSeq
<1> QED BY <1>1, ReadList DEF L!RemoveList, L!SavesWholeStep

LEMMA StepSaves == ListInv /\ [Next]_vars => [component = "list" => L!SavesWholeStep]_vars
<1> SUFFICES ASSUME ListInv, Next, component = "list" PROVE L!SavesWholeStep
  OBVIOUS
<1>1. ListState /\ L!Next
  BY DEF ListInv, Next
<1>2. CASE L!Rename
  BY <1>1, <1>2, ListWritten
<1>3. CASE L!RemoveList
  BY <1>1, <1>3, ListRemoved
<1>4. CASE list' = list
  <2>1. FilesGrow
    <3>1. CASE files' = files
      BY <1>1, <3>1 DEF FilesGrow, ListState
    <3>2. CASE \E n \in L!Names : L!Delete(n)
      BY <1>1, <3>2 DEF FilesGrow, ListState, L!Delete
    <3>3. CASE \E choice \in Stamps : L!OpenCapture(choice)
      <4>1. PICK choice \in Stamps : L!OpenCapture(choice)
        BY <3>3
      <4>2. PICK index \in 0..MaxSameSecond :
              files[<<now, index>>] = "unused" /\ files' = [files EXCEPT ![<<now, index>>] = "there"]
        BY <4>1 DEF L!OpenCapture
      <4> QED BY <1>1, <4>2 DEF FilesGrow, ListState
    <3> QED BY <1>1, <1>4, <3>1, <3>2, <3>3
            DEF L!Next, L!Start, L!Settle, L!RemoveList, L!BeginSave, L!WriteLine,
                L!Rename, L!SaveFails, L!Crash, L!SetClock
  <2> QED BY <1>1, <1>4, <2>1, ListLeft
<1> QED BY <1>1, <1>2, <1>3, <1>4
        DEF L!Next, L!Start, L!OpenCapture, L!Settle, L!BeginSave, L!WriteLine,
            L!SaveFails, L!Crash, L!Delete, L!SetClock

LEMMA StepList == ListInv /\ [Next]_vars => ListInv'
<1> SUFFICES ASSUME ListInv, [Next]_vars, component' = "list" PROVE ListState'
  BY DEF ListInv
<1>1. CASE UNCHANGED vars
  BY <1>1 DEF vars, listVars, ListInv, ListState, Known
<1>2. CASE component = "list" /\ L!Next
  <2>0. ListState
    BY <1>2 DEF ListInv
  <2>1. ASSUME NEW records \in BOOLEAN, L!Start(records) PROVE ListState'
    <3>1. /\ UNCHANGED <<files, now, list, staging>>
          /\ daemon' = [up |-> TRUE, records |-> records, at |-> "rest"]
          /\ held' = IF records THEN L!ReadWaitingList(files, list) ELSE <<>>
      BY <2>1 DEF L!Start
    <3>2. held' \in Seq(Entries) /\ \A i \in DOMAIN held' : files[held'[i].name] # "unused"
      <4>1. CASE held' = <<>>
        BY <4>1
      <4>2. CASE held' # <<>>
        <5>1. list # L!Absent /\ held' = L!ReadWaitingList(files, list)
          BY <3>1, <4>2, ReadList
        <5>2. PICK lines \in Seq(Lines) : list = L!Holding(lines)
          BY <2>0, <5>1 DEF ListState
        <5>3. held' = Read(files, lines)
          BY <5>1, <5>2, ReadList
        <5> QED BY <5>3, ReadThere
      <4> QED BY <4>1, <4>2
    <3>3. Known(held)' 
      BY <3>1, <3>2 DEF Known
    <3> QED BY <2>0, <3>1, <3>2, <3>3 DEF ListState, Known
  <2>2. ASSUME NEW choice \in Stamps, L!OpenCapture(choice) PROVE ListState'
    <3>1. PICK index \in 0..MaxSameSecond :
            /\ files[<<now, index>>] = "unused"
            /\ files' = [files EXCEPT ![<<now, index>>] = "there"]
            /\ held' = Append(held, [name |-> <<now, index>>, through |-> 0,
                                    heading |-> [started |-> now, timestamps |-> choice]])
      BY <2>2 DEF L!OpenCapture
    <3>2. UNCHANGED <<now, list, staging, daemon>> /\ daemon.at = "rest"
      BY <2>2 DEF L!OpenCapture, L!Resting
    <3> DEFINE e == [name |-> <<now, index>>, through |-> 0,
                     heading |-> [started |-> now, timestamps |-> choice]]
    <3>3. e \in Entries /\ e.name = <<now, index>> /\ e.name \in L!Names
      BY <2>0 DEF Entries, Headings, Choices, L!Names, ListState
    <3> HIDE DEF e
    <3>4. held' = Append(held, e) /\ held \in Seq(Entries)
      BY <2>0, <3>1 DEF e, ListState
    <3>5. files' \in [L!Names -> {"unused", "there", "deleted"}] /\ files'[e.name] = "there"
          /\ \A n : n # e.name => files'[n] = files[n]
      BY <2>0, <3>1, <3>3 DEF ListState
    <3>6. \A n : files[n] # "unused" => files'[n] # "unused"
      BY <3>5
    <3>7. held' \in Seq(Entries) /\ \A i \in DOMAIN held' :
            (i \in DOMAIN held /\ held'[i] = held[i]) \/ held'[i] = e
      BY <3>3, <3>4
    <3>8. Known(held)'
      BY <2>0, <3>5, <3>6, <3>7 DEF ListState, Known
    <3>9. list' = L!Absent \/ \E lines \in Seq(Lines) : list' = L!Holding(lines) /\ Known(lines)'
      BY <2>0, <3>2, <3>6 DEF ListState, Known
    <3> QED BY <2>0, <3>2, <3>5, <3>7, <3>8, <3>9 DEF ListState
  <2>3. ASSUME NEW i \in DOMAIN held, L!Settle(i) PROVE ListState'
    <3>1. UNCHANGED <<files, now, list, staging, daemon>> /\ daemon.at = "rest"
      BY <2>3 DEF L!Settle, L!Resting
    <3>2. held \in Seq(Entries) /\ Known(held)
      BY <2>0 DEF ListState
    <3>3. held' \in Seq(Entries) /\ \A j \in DOMAIN held' :
            \E k \in DOMAIN held : held'[j].name = held[k].name
      <4>1. CASE held' = [held EXCEPT ![i].through = 1]
        <5>2. held[i] \in Entries
          BY <3>2
        <5>1. [held[i] EXCEPT !.through = 1] \in Entries /\ held[i] \in Entries
              /\ [held[i] EXCEPT !.through = 1].name = held[i].name
          BY <5>2 DEF Entries
        <5> QED BY <3>2, <4>1, <5>1
      <4>2. CASE held' = L!RemoveAt(held, i)
        <5> DEFINE rest == L!RemoveAt(held, i)
        <5>1. rest \in Seq(Entries) /\ \A j \in DOMAIN rest : \E k \in DOMAIN held : rest[j] = held[k]
          BY <3>2, Removed
        <5>2. held' = rest
          BY <4>2
        <5> HIDE DEF rest
        <5> QED BY <5>1, <5>2
      <4> QED BY <2>3, <4>1, <4>2 DEF L!Settle
    <3>4. Known(held)'
      BY <3>1, <3>2, <3>3 DEF Known
    <3> QED BY <2>0, <3>1, <3>3, <3>4 DEF ListState, Known
  <2>4. CASE L!RemoveList \/ L!BeginSave \/ L!SaveFails
    <3>1. CASE L!RemoveList
      BY <2>0, <3>1 DEF L!RemoveList, L!Resting, ListState, Known
    <3>2. CASE L!BeginSave
      <4>1. /\ staging' = <<>> /\ <<>> \in Seq(Lines) /\ Len(<<>>) = 0 /\ Len(held) \in Nat
            /\ daemon' = [daemon EXCEPT !.at = "writing"] /\ daemon.records
            /\ UNCHANGED <<files, now, list, held>>
        BY <2>0, <3>2 DEF L!BeginSave, ListState
      <4> QED BY <2>0, <4>1 DEF ListState, Known
    <3>3. CASE L!SaveFails
      BY <2>0, <3>3 DEF L!SaveFails, ListState, Known
    <3> QED BY <2>4, <3>1, <3>2, <3>3
  <2>5. CASE L!WriteLine
    <3>1. /\ UNCHANGED <<files, now, list, held>> /\ daemon.at = "writing"
          /\ Len(staging) < Len(held)
      BY <2>5 DEF L!WriteLine
    <3> DEFINE next == held[Len(staging) + 1]
    <3>2. staging \in Seq(Lines) /\ held \in Seq(Entries) /\ Len(staging) \in Nat /\ Len(held) \in Nat
      BY <2>0 DEF ListState
    <3>3. next \in Entries /\ next \in Lines /\ L!CutShort(next) \in Lines
      <4>1. next \in Entries
        BY <3>1, <3>2
      <4> HIDE DEF next
      <4> QED BY <4>1 DEF Entries, Lines, L!CutShort, Marks
    <3>4. CASE staging' = Append(staging, next) /\ UNCHANGED daemon
      <4>1. \A k \in 1..Len(staging) : staging[k] = held[k]
        BY <2>0, <3>1 DEF ListState
      <4>2. staging' \in Seq(Lines) /\ Len(staging') <= Len(held)
            /\ \A k \in 1..Len(staging') : staging'[k] = held[k]
        BY <3>1, <3>2, <3>3, <3>4, <4>1
      <4> QED BY <2>0, <3>1, <3>4, <4>2 DEF ListState, Known
    <3>5. CASE staging' = Append(staging, L!CutShort(next)) /\ daemon' = [daemon EXCEPT !.at = "rest"]
      <4>1. staging' \in Seq(Lines)
        BY <3>2, <3>3, <3>5
      <4> QED BY <2>0, <3>1, <3>5, <4>1 DEF ListState, Known
    <3> QED BY <2>5, <3>4, <3>5 DEF L!WriteLine
  <2>6. CASE L!Rename
    <3>1. list' = L!Holding(held) /\ held \in Seq(Lines) /\ Known(held) /\ UNCHANGED <<files, held, now>>
      <4>1. Entries \subseteq Lines
        BY DEF Entries, Lines
      <4> QED BY <2>0, <2>6, <4>1, ListWritten DEF ListState, L!Rename
    <3>2. staging' = <<>> /\ daemon' = [daemon EXCEPT !.at = "rest"]
      BY <2>6 DEF L!Rename
    <3> QED BY <2>0, <3>1, <3>2 DEF ListState, Known
  <2>7. CASE L!Crash
    BY <2>0, <2>7 DEF L!Crash, L!Off, ListState, Known
  <2>8. ASSUME NEW name \in L!Names, L!Delete(name) PROVE ListState'
    <3>1. UNCHANGED <<now, list, staging, held, daemon>>
          /\ files' = [files EXCEPT ![name] = "deleted"]
      BY <2>8 DEF L!Delete
    <3>2. files' \in [L!Names -> {"unused", "there", "deleted"}]
          /\ \A n : files[n] # "unused" => files'[n] # "unused"
      BY <2>0, <3>1 DEF ListState
    <3> QED BY <2>0, <3>1, <3>2 DEF ListState, Known
  <2>9. ASSUME NEW time \in Seconds, L!SetClock(time) PROVE ListState'
    BY <2>0, <2>9 DEF L!SetClock, ListState, Known
  <2> QED BY <1>2, <2>1, <2>2, <2>3, <2>4, <2>5, <2>6, <2>7, <2>8, <2>9 DEF L!Next
<1> QED BY <1>1, <1>2 DEF Next

(* A start reads what the last one would have read, but for recordings deleted
   since, or the whole list of a daemon that recorded: whenever the process dies,
   and whatever part of a line the disk took (`save_unfinished`,
   `read_waiting_list`). *)
THEOREM ListIsSavedWhole == Spec => SavesWhole
<1> QED BY InitList, StepList, StepSaves, PTL DEF Spec, SavesWhole

-----------------------------------------------------------------------------
(* The capture in memory.  Its chunks are, put together, the part of what was
   delivered that starts where they start. *)

LEMMA FlattenSame == \A parts : M!FlattenSeq(parts) = L!FlattenSeq(parts)
<1> QED BY DEF M!FlattenSeq, L!FlattenSeq

LEMMA FlattenType ==
  ASSUME NEW T, NEW parts \in Seq(Seq(T))
  PROVE  M!FlattenSeq(parts) \in Seq(T)
<1> DEFINE All == {q \in Seq(Seq(T)) : L!FlattenSeq(q) \in Seq(T)}
<1>1. <<>> \in All
  <2>1. L!FlattenSeq(<<>>) = <<>>
    BY DEF L!FlattenSeq
  <2>2. <<>> \in Seq(T) /\ <<>> \in Seq(Seq(T))
    OBVIOUS
  <2> QED BY <2>1, <2>2
<1>2. \A q \in All : \A e \in Seq(T) : Append(q, e) \in All
  <2> SUFFICES ASSUME NEW q \in Seq(Seq(T)), L!FlattenSeq(q) \in Seq(T), NEW e \in Seq(T)
               PROVE  Append(q, e) \in Seq(Seq(T)) /\ L!FlattenSeq(Append(q, e)) \in Seq(T)
    OBVIOUS
  <2>1. L!FlattenSeq(Append(q, e)) = L!FlattenSeq(q) \o e
    BY FlattenAppend
  <2> QED BY <2>1
<1>3. All \in SUBSET Seq(Seq(T))
  OBVIOUS
<1>4. All = Seq(Seq(T))
  <2> HIDE DEF All
  <2> QED BY <1>1, <1>2, <1>3, AllSequences
<1> QED BY <1>4, FlattenSame

LEMMA FlattenConcat ==
  ASSUME NEW T, NEW a \in Seq(Seq(T)), NEW b \in Seq(Seq(T))
  PROVE  M!FlattenSeq(a \o b) = M!FlattenSeq(a) \o M!FlattenSeq(b)
<1> DEFINE All == {q \in Seq(Seq(T)) : L!FlattenSeq(a \o q) = L!FlattenSeq(a) \o L!FlattenSeq(q)}
<1>1. <<>> \in All
  <2>1. L!FlattenSeq(<<>>) = <<>>
    BY DEF L!FlattenSeq
  <2>2. a \o <<>> = a
    OBVIOUS
  <2>3. L!FlattenSeq(a) \in Seq(T)
    BY FlattenType, FlattenSame
  <2>4. L!FlattenSeq(a) \o <<>> = L!FlattenSeq(a)
    BY <2>3
  <2>5. L!FlattenSeq(a \o <<>>) = L!FlattenSeq(a) \o L!FlattenSeq(<<>>)
    BY <2>1, <2>2, <2>4
  <2>6. <<>> \in Seq(Seq(T))
    OBVIOUS
  <2> QED BY <2>5, <2>6, Zenon
<1>2. \A q \in All : \A e \in Seq(T) : Append(q, e) \in All
  <2> SUFFICES ASSUME NEW q \in Seq(Seq(T)), NEW e \in Seq(T),
                      L!FlattenSeq(a \o q) = L!FlattenSeq(a) \o L!FlattenSeq(q)
               PROVE  /\ Append(q, e) \in Seq(Seq(T))
                      /\ L!FlattenSeq(a \o Append(q, e)) = L!FlattenSeq(a) \o L!FlattenSeq(Append(q, e))
    OBVIOUS
  <2>1. a \o Append(q, e) = Append(a \o q, e) /\ a \o q \in Seq(Seq(T))
    OBVIOUS
  <2>2. L!FlattenSeq(Append(a \o q, e)) = L!FlattenSeq(a \o q) \o e
    BY <2>1, FlattenAppend
  <2>3. L!FlattenSeq(Append(q, e)) = L!FlattenSeq(q) \o e
    BY FlattenAppend
  <2>4. L!FlattenSeq(a) \in Seq(T) /\ L!FlattenSeq(q) \in Seq(T)
    BY FlattenType, FlattenSame
  <2>5. \A x, y, z \in Seq(T) : (x \o y) \o z = x \o (y \o z)
    OBVIOUS
  <2> QED BY <2>1, <2>2, <2>3, <2>4, <2>5
<1>3. All \in SUBSET Seq(Seq(T))
  OBVIOUS
<1>4. All = Seq(Seq(T))
  <2> HIDE DEF All
  <2> QED BY <1>1, <1>2, <1>3, AllSequences
<1> QED BY <1>4, FlattenSame

LEMMA SplitAt ==
  ASSUME NEW T, NEW q \in Seq(T), NEW k \in 0..Len(q)
  PROVE  /\ SubSeq(q, 1, k) \in Seq(T) /\ SubSeq(q, k + 1, Len(q)) \in Seq(T)
         /\ Len(SubSeq(q, 1, k)) = k /\ Len(SubSeq(q, k + 1, Len(q))) = Len(q) - k
         /\ SubSeq(q, 1, k) \o SubSeq(q, k + 1, Len(q)) = q
<1> DEFINE before == SubSeq(q, 1, k)
           after == SubSeq(q, k + 1, Len(q))
<1>1. Len(q) \in Nat /\ k \in Nat /\ k <= Len(q) /\ \A i \in 1..Len(q) : q[i] \in T
  OBVIOUS
<1>2. before \in Seq(T) /\ Len(before) = k /\ \A j \in 1..k : before[j] = q[j]
  <2>1. 1 \in Int /\ k \in Int /\ \A i \in 1..k : q[i] \in T
    BY <1>1
  <2>2. /\ before \in Seq(T) /\ Len(before) = (IF 1 <= k THEN k - 1 + 1 ELSE 0)
        /\ \A j \in 1..(k - 1 + 1) : before[j] = q[1 + j - 1]
    BY <2>1, SubSeqProperties
  <2> HIDE DEF before
  <2> QED BY <1>1, <2>2
<1>3. after \in Seq(T) /\ Len(after) = Len(q) - k /\ \A j \in 1..(Len(q) - k) : after[j] = q[k + j]
  <2>1. k + 1 \in Int /\ Len(q) \in Int /\ \A i \in (k + 1)..Len(q) : q[i] \in T
    BY <1>1
  <2>2. /\ after \in Seq(T)
        /\ Len(after) = (IF k + 1 <= Len(q) THEN Len(q) - (k + 1) + 1 ELSE 0)
        /\ \A j \in 1..(Len(q) - (k + 1) + 1) : after[j] = q[(k + 1) + j - 1]
    BY <2>1, SubSeqProperties
  <2> HIDE DEF after
  <2> QED BY <1>1, <2>2
<1> HIDE DEF before, after
<1>4. before \o after \in Seq(T) /\ Len(before \o after) = Len(q)
      /\ \A i \in 1..Len(q) : (before \o after)[i] = IF i <= k THEN before[i] ELSE after[i - k]
  BY <1>1, <1>2, <1>3
<1>5. \A i \in 1..Len(q) : (before \o after)[i] = q[i]
  <2> SUFFICES ASSUME NEW i \in 1..Len(q) PROVE (before \o after)[i] = q[i]
    OBVIOUS
  <2>1. CASE i <= k
    BY <1>1, <1>2, <1>4, <2>1
  <2>2. CASE ~(i <= k)
    <3>1. i - k \in 1..(Len(q) - k) /\ k + (i - k) = i
      BY <1>1, <2>2
    <3> QED BY <1>3, <1>4, <2>2, <3>1
  <2> QED BY <2>1, <2>2
<1>6. before \o after = q
  BY <1>4, <1>5, SeqEqual
<1> QED BY <1>2, <1>3, <1>6 DEF before, after

LEMMA FlattenSplit ==
  ASSUME NEW T, NEW parts \in Seq(Seq(T)), NEW k \in 0..Len(parts)
  PROVE  LET before == M!FlattenSeq(SubSeq(parts, 1, k))
             after == M!FlattenSeq(SubSeq(parts, k + 1, Len(parts)))
         IN  /\ before \in Seq(T) /\ after \in Seq(T)
             /\ M!FlattenSeq(parts) = before \o after
<1>1. /\ SubSeq(parts, 1, k) \in Seq(Seq(T)) /\ SubSeq(parts, k + 1, Len(parts)) \in Seq(Seq(T))
      /\ SubSeq(parts, 1, k) \o SubSeq(parts, k + 1, Len(parts)) = parts
  BY SplitAt
<1> QED BY <1>1, FlattenType, FlattenConcat

(* `r` is what `a` holds after its first `from`. *)
IsPart(r, a, from) ==
  /\ r \in Seq(Nat) /\ a \in Seq(Nat) /\ from \in Nat /\ from + Len(r) <= Len(a)
  /\ \A i \in 1..Len(r) : r[i] = a[from + i]

(* `r` is the last that was heard when `h` was. *)
IsRecent(r, h) ==
  r \in Seq(Nat) /\ Len(r) <= h /\ \A i \in 1..Len(r) : r[i] = h - Len(r) + i

(* The device's numbers, the pre-roll and the capture's memory. *)
HeardOK ==
  /\ heard \in Nat /\ missed \in SUBSET (1..heard)
  /\ all \in Seq(Nat) /\ \A i \in 1..Len(all) : all[i] \in 1..heard

RingOK ==
  ~capture.on =>
    /\ IsRecent(ring, heard)
    /\ \A x \in missed : x <= heard - Len(ring)
    /\ \A i \in 1..Len(all) : all[i] <= heard - Len(ring)

Remembered == M!FlattenSeq(capture.chunks)

MemoryOK ==
  capture.on =>
    /\ capture.chunks \in Seq(Seq(Nat)) /\ capture.capped \in BOOLEAN
    /\ IsPart(Remembered, all, capture.start)
    /\ capture.frames = capture.start + Len(Remembered)
    /\ ~capture.capped => capture.frames = Len(all)

MemoryState == HeardOK /\ RingOK /\ MemoryOK

MemoryInv == component = "microphone" => MemoryState

LEMMA PartOf ==
  ASSUME NEW q \in Seq(Nat), NEW i0 \in Nat, NEW n \in Nat, i0 + n <= Len(q)
  PROVE  LET part == SubSeq(q, i0 + 1, i0 + n)
         IN  part \in Seq(Nat) /\ Len(part) = n /\ \A i \in 1..n : part[i] = q[i0 + i]
<1> DEFINE part == SubSeq(q, i0 + 1, i0 + n)
<1>1. Len(q) \in Nat /\ \A i \in 1..Len(q) : q[i] \in Nat
  OBVIOUS
<1>2. i0 + 1 \in Int /\ i0 + n \in Int /\ \A i \in (i0 + 1)..(i0 + n) : q[i] \in Nat
  BY <1>1
<1>3. /\ part \in Seq(Nat)
      /\ Len(part) = (IF i0 + 1 <= i0 + n THEN i0 + n - (i0 + 1) + 1 ELSE 0)
      /\ \A i \in 1..(i0 + n - (i0 + 1) + 1) : part[i] = q[(i0 + 1) + i - 1]
  BY <1>2, SubSeqProperties
<1> HIDE DEF part
<1>4. (IF i0 + 1 <= i0 + n THEN i0 + n - (i0 + 1) + 1 ELSE 0) = n /\ i0 + n - (i0 + 1) + 1 = n
  OBVIOUS
<1>5. \A i \in 1..n : (i0 + 1) + i - 1 = i0 + i
  OBVIOUS
<1>6. part \in Seq(Nat) /\ Len(part) = n /\ \A i \in 1..n : part[i] = q[i0 + i]
  BY <1>3, <1>4, <1>5
<1> QED BY <1>6 DEF part

LEMMA Places ==
  ASSUME NEW from \in Nat, NEW s \in Nat, NEW m \in Nat, NEW n \in Nat, NEW x \in Nat, NEW y \in Nat,
         from <= s, from + y = s + n, m + n = x, x <= y, NEW i \in 1..n
  PROVE  /\ m + i \in 1..x /\ y - x + (m + i) = (s - from) + i
         /\ (s - from) + i \in 1..y /\ from + ((s - from) + i) = s + i
<1> QED OBVIOUS

LEMMA PartGrows ==
  ASSUME NEW r, NEW a, NEW from, IsPart(r, a, from), NEW s \in Seq(Nat)
  PROVE  IsPart(r, a \o s, from)
<1>1. /\ r \in Seq(Nat) /\ a \in Seq(Nat) /\ from \in Nat /\ from + Len(r) <= Len(a)
      /\ \A i \in 1..Len(r) : r[i] = a[from + i]
  BY DEF IsPart
<1>2. /\ a \o s \in Seq(Nat) /\ Len(a \o s) = Len(a) + Len(s) /\ Len(s) \in Nat /\ Len(a) \in Nat
      /\ Len(r) \in Nat /\ \A i \in 1..Len(a) : (a \o s)[i] = a[i]
  BY <1>1
<1>3. from + Len(r) <= Len(a \o s)
  BY <1>1, <1>2
<1>4. \A i \in 1..Len(r) : from + i \in 1..Len(a)
  BY <1>1, <1>2
<1> QED BY <1>1, <1>2, <1>3, <1>4 DEF IsPart

LEMMA PartTakesIn ==
  ASSUME NEW r, NEW a, NEW from, IsPart(r, a, from), from + Len(r) = Len(a),
         NEW s \in Seq(Nat), NEW k \in Seq(Nat), Len(k) <= Len(s), \A i \in 1..Len(k) : k[i] = s[i]
  PROVE  IsPart(r \o k, a \o s, from)
<1>1. /\ r \in Seq(Nat) /\ a \in Seq(Nat) /\ from \in Nat
      /\ \A i \in 1..Len(r) : r[i] = a[from + i]
  BY DEF IsPart
<1> DEFINE x == Len(r)
           y == Len(a)
           z == Len(k)
           w == Len(s)
<1>2. x \in Nat /\ y \in Nat /\ z \in Nat /\ w \in Nat /\ from + x = y /\ z <= w
  BY <1>1
<1>3. /\ a \o s \in Seq(Nat) /\ Len(a \o s) = y + w
      /\ \A i \in 1..(y + w) : (a \o s)[i] = IF i <= y THEN a[i] ELSE s[i - y]
  BY <1>1
<1>4. /\ r \o k \in Seq(Nat) /\ Len(r \o k) = x + z
      /\ \A i \in 1..(x + z) : (r \o k)[i] = IF i <= x THEN r[i] ELSE k[i - x]
  BY <1>1
<1>5. /\ \A i \in 1..x : r[i] = a[from + i]
      /\ \A i \in 1..z : k[i] = s[i]
  BY <1>1
<1> HIDE DEF x, y, z, w
<1>6. ASSUME NEW i \in 1..(x + z) PROVE (r \o k)[i] = (a \o s)[from + i]
  <2>1. i \in Int /\ 1 <= i /\ i <= x + z /\ from + i \in 1..(y + w)
    BY <1>1, <1>2
  <2>2. CASE i <= x
    <3>1. i \in 1..x /\ from + i <= y
      BY <1>1, <1>2, <2>1, <2>2
    <3>2. (a \o s)[from + i] = a[from + i]
      BY <1>3, <2>1, <3>1
    <3>3. (r \o k)[i] = r[i]
      BY <1>4, <2>2
    <3> QED BY <1>5, <3>1, <3>2, <3>3
  <2>3. CASE ~(i <= x)
    <3>1. i - x \in 1..z /\ ~(from + i <= y) /\ (from + i) - y = i - x
      BY <1>1, <1>2, <2>1, <2>3
    <3>2. (a \o s)[from + i] = s[i - x]
      BY <1>3, <2>1, <3>1
    <3>3. (r \o k)[i] = k[i - x]
      BY <1>4, <2>3
    <3> QED BY <1>5, <3>1, <3>2, <3>3
  <2> QED BY <2>2, <2>3
<1>7. from + (x + z) <= y + w
  BY <1>1, <1>2
<1> QED BY <1>1, <1>3, <1>4, <1>6, <1>7 DEF IsPart

LEMMA PartCut ==
  ASSUME NEW r \in Seq(Nat), NEW q \in Seq(Nat), NEW a, NEW from, IsPart(r \o q, a, from)
  PROVE  IsPart(q, a, from + Len(r)) /\ from + Len(r \o q) = (from + Len(r)) + Len(q)
<1> DEFINE x == Len(r)
           y == Len(q)
           z == Len(a)
<1>1. /\ a \in Seq(Nat) /\ from \in Nat /\ x \in Nat /\ y \in Nat /\ z \in Nat
      /\ Len(r \o q) = x + y /\ from + (x + y) <= z
      /\ \A i \in 1..(x + y) : (r \o q)[i] = a[from + i]
      /\ \A i \in 1..y : (r \o q)[x + i] = q[i]
  BY DEF IsPart
<1> HIDE DEF x, y, z
<1>2. ASSUME NEW i \in 1..y PROVE q[i] = a[(from + x) + i]
  <2>1. x + i \in 1..(x + y) /\ from + (x + i) = (from + x) + i
    BY <1>1
  <2> QED BY <1>1, <2>1
<1>3. (from + x) + y <= z /\ from + x \in Nat /\ from + (x + y) = (from + x) + y
  BY <1>1
<1> QED BY <1>1, <1>2, <1>3 DEF IsPart, x, y, z

LEMMA JoinedAre ==
  ASSUME NEW r \in Seq(Nat), NEW s \in Seq(Nat)
  PROVE  /\ r \o s \in Seq(Nat) /\ Len(r \o s) = Len(r) + Len(s)
         /\ \A i \in 1..(Len(r) + Len(s)) : (r \o s)[i] = IF i <= Len(r) THEN r[i] ELSE s[i - Len(r)]
<1> QED OBVIOUS

(* The ring after a buffer is still the last that was heard. *)
LEMMA RecentGoesOn ==
  ASSUME NEW r, NEW h \in Nat, IsRecent(r, h), NEW n \in Nat \ {0}, NEW p \in Nat
  PROVE  LET last == M!LastOf(r \o [i \in 1..n |-> h + i], p)
         IN  IsRecent(last, h + n) /\ Len(last) <= Len(r) + n
<1> DEFINE s == [i \in 1..n |-> h + i]
           u == r \o s
           x == Len(r)
           y == x + n
           k == IF p < y THEN p ELSE y
           m == y - k
           last == SubSeq(u, m + 1, m + k)
<1>1. r \in Seq(Nat) /\ x \in Nat /\ x <= h /\ \A i \in 1..x : r[i] = h - x + i
  BY DEF IsRecent
<1>2. s \in Seq(Nat) /\ Len(s) = n /\ \A i \in 1..n : s[i] = h + i
  OBVIOUS
<1> HIDE DEF s
<1>3. /\ u \in Seq(Nat) /\ Len(u) = y
      /\ \A i \in 1..y : u[i] = IF i <= x THEN r[i] ELSE s[i - x]
  <2>1. /\ u \in Seq(Nat) /\ Len(u) = Len(r) + Len(s)
        /\ \A i \in 1..(Len(r) + Len(s)) : u[i] = IF i <= Len(r) THEN r[i] ELSE s[i - Len(r)]
    BY <1>1, <1>2, JoinedAre
  <2> HIDE DEF u
  <2> QED BY <1>2, <2>1
<1>4. M!LastOf(u, p) = SubSeq(u, y - k + 1, y)
  BY <1>3 DEF M!LastOf
<1> HIDE DEF u, x
<1>5. y \in Nat /\ k \in Nat /\ k <= y /\ y <= h + n /\ y = x + n
  BY <1>1
<1> HIDE DEF y, k
<1>6. m \in Nat /\ m + k = y
  BY <1>5
<1> HIDE DEF m
<1>7. m + k <= Len(u)
  BY <1>3, <1>5, <1>6
<1>8. last \in Seq(Nat) /\ Len(last) = k /\ \A i \in 1..k : last[i] = u[m + i]
  BY <1>3, <1>5, <1>6, <1>7, PartOf
<1> HIDE DEF last
<1>9. ASSUME NEW i \in 1..k PROVE last[i] = (h + n) - k + i
  <2>1. m + i \in 1..y /\ i \in Int /\ m + i = (y - k) + i
    BY <1>5, <1>6
  <2>2. CASE m + i <= x
    <3>1. m + i \in 1..x /\ h - x + (m + i) = (h + n) - k + i
      BY <1>1, <1>5, <2>1, <2>2
    <3>2. u[m + i] = r[m + i]
      BY <1>3, <2>1, <2>2
    <3> QED BY <1>1, <1>8, <3>1, <3>2
  <2>3. CASE ~(m + i <= x)
    <3>1. (m + i) - x \in 1..n /\ h + ((m + i) - x) = (h + n) - k + i
      BY <1>1, <1>5, <2>1, <2>3
    <3>2. u[m + i] = s[(m + i) - x]
      BY <1>3, <2>1, <2>3
    <3> QED BY <1>2, <1>8, <3>1, <3>2
  <2> QED BY <2>2, <2>3
<1>10. M!LastOf(u, p) = last
  <2>1. y - k + 1 = m + 1 /\ m + k = y
    BY <1>5, <1>6
  <2> QED BY <1>4, <2>1 DEF last
<1>11. IsRecent(last, h + n) /\ Len(last) <= x + n
  BY <1>5, <1>8, <1>9 DEF IsRecent
<1> QED BY <1>10, <1>11 DEF u, x, s

(* The end of what is remembered is what is asked for. *)
(* Whatever is asked for, a snapshot of a memory that is right is right. *)
LEMMA SnapshotIs ==
  ASSUME MemoryState, capture.on, NEW since \in 0..capture.frames
  PROVE  LET snapshot == M!SnapshotCapture(since)
         IN  snapshot.samples = SubSeq(all, snapshot.start + 1, capture.frames)
<1> DEFINE s == IF since > capture.start THEN since ELSE capture.start
           needed == capture.frames - s
           n == Len(capture.chunks)
           Suffix(k) == SubSeq(capture.chunks, n - k + 1, n)
           enough == {k \in 0..n : Len(M!FlattenSeq(Suffix(k))) >= needed}
           k0 == CHOOSE k \in enough : \A j \in enough : k <= j
           selected == M!FlattenSeq(Suffix(k0))
           samples == IF needed <= 0 THEN <<>>
                      ELSE SubSeq(selected, Len(selected) - needed + 1, Len(selected))
<1>1. M!SnapshotCapture(since) = [start |-> s, samples |-> samples]
  BY DEF M!SnapshotCapture, M!Queued
<1>2. /\ capture.chunks \in Seq(Seq(Nat)) /\ n \in Nat
      /\ capture.start \in Nat /\ capture.frames \in Nat /\ capture.start <= capture.frames
      /\ capture.frames <= Len(all) /\ all \in Seq(Nat) /\ Len(all) \in Nat
      /\ Len(Remembered) = capture.frames - capture.start
      /\ \A i \in 1..(capture.frames - capture.start) : Remembered[i] = all[capture.start + i]
  <2>1. /\ capture.chunks \in Seq(Seq(Nat)) /\ IsPart(Remembered, all, capture.start)
        /\ capture.frames = capture.start + Len(Remembered)
    BY DEF MemoryState, MemoryOK
  <2>2. /\ Remembered \in Seq(Nat) /\ all \in Seq(Nat) /\ capture.start \in Nat
        /\ capture.start + Len(Remembered) <= Len(all)
        /\ \A i \in 1..Len(Remembered) : Remembered[i] = all[capture.start + i]
    BY <2>1 DEF IsPart
  <2> HIDE DEF n
  <2>3. Len(Remembered) \in Nat /\ Len(all) \in Nat
    BY <2>2
  <2>4. n \in Nat
    BY <2>1 DEF n
  <2>5. /\ capture.frames \in Nat /\ capture.start <= capture.frames
        /\ capture.frames <= Len(all) /\ Len(Remembered) = capture.frames - capture.start
    BY <2>1, <2>2, <2>3
  <2>6. \A i \in 1..(capture.frames - capture.start) : Remembered[i] = all[capture.start + i]
    BY <2>2, <2>5
  <2> QED BY <2>1, <2>2, <2>3, <2>4, <2>5, <2>6, Zenon
<1>3. s \in Nat /\ needed \in Nat /\ s <= capture.frames /\ capture.start <= s
      /\ needed = capture.frames - s
  BY <1>2
<1>4. enough # {} /\ enough \in SUBSET Nat
  <2>1. SubSeq(capture.chunks, 1, n) = capture.chunks
    BY <1>2
  <2>2. n - n + 1 = 1 /\ n \in 0..n
    BY <1>2
  <2>3. Len(M!FlattenSeq(Suffix(n))) = capture.frames - capture.start
    BY <1>2, <2>1, <2>2 DEF Remembered
  <2>4. Len(M!FlattenSeq(Suffix(n))) >= needed
    BY <1>2, <1>3, <2>3
  <2> QED BY <2>2, <2>4
<1>5. k0 \in enough
  <2>1. \E k \in enough : \A j \in enough : <<j, k>> \notin OpToRel(<, Nat)
    BY <1>4, NatLessThanWellFounded, WFMin
  <2>2. \A j, k \in Nat : <<j, k>> \notin OpToRel(<, Nat) => k <= j
    BY DEF OpToRel
  <2>3. \E k \in enough : \A j \in enough : k <= j
    BY <1>4, <2>1, <2>2
  <2> QED BY <2>3
<1>6. k0 \in 0..n /\ Len(selected) >= needed
  BY <1>5
<1> HIDE DEF k0, s
<1>7. /\ selected \in Seq(Nat) /\ Len(selected) \in Nat
      /\ \A i \in 1..Len(selected) : selected[i] = Remembered[Len(Remembered) - Len(selected) + i]
      /\ Len(selected) <= Len(Remembered)
  <2>1. n - k0 \in 0..n
    BY <1>2, <1>6
  <2> DEFINE P == M!FlattenSeq(SubSeq(capture.chunks, 1, n - k0))
  <2>2. P \in Seq(Nat) /\ selected \in Seq(Nat) /\ Remembered = P \o selected
    BY <1>2, <2>1, FlattenSplit DEF Remembered
  <2> HIDE DEF P, selected
  <2>3. /\ Len(P) \in Nat /\ Len(selected) \in Nat /\ Len(P \o selected) = Len(P) + Len(selected)
        /\ \A i \in 1..Len(selected) : (P \o selected)[Len(P) + i] = selected[i]
    BY <2>2
  <2>4. Len(Remembered) - Len(selected) = Len(P)
    BY <2>2, <2>3
  <2> QED BY <2>2, <2>3, <2>4
<1> HIDE DEF selected
<1>8. samples = SubSeq(all, s + 1, capture.frames)
  <2>a. CASE needed = 0
    <3>1. s + 1 \in Int /\ capture.frames \in Int /\ capture.frames < s + 1
      BY <1>2, <1>3, <2>a
    <3>2. SubSeq(all, s + 1, capture.frames) = <<>>
      BY <3>1, SubSeqEmpty
    <3>3. needed <= 0
      BY <2>a
    <3> HIDE DEF needed
    <3> QED BY <3>2, <3>3, Zenon
  <2>b. CASE needed # 0
    <3> DEFINE x == Len(selected)
               y == Len(Remembered)
               z == Len(all)
               m == x - needed
               from == capture.start
               to == capture.frames
    <3>1. x \in Nat /\ y \in Nat /\ z \in Nat /\ from \in Nat /\ to \in Nat /\ needed \in Nat
          /\ s \in Nat /\ needed <= x /\ x <= y /\ y = to - from /\ from <= s
          /\ to <= z /\ needed = to - s /\ s <= to /\ from <= to
      BY <1>2, <1>3, <1>6, <1>7
    <3>2. Remembered \in Seq(Nat) /\ selected \in Seq(Nat) /\ all \in Seq(Nat)
      BY <1>2, <1>7, FlattenType DEF Remembered
    <3>3. \A i \in 1..y : Remembered[i] = all[from + i]
      BY <1>2, <3>1
    <3>4. \A i \in 1..x : selected[i] = Remembered[y - x + i]
      BY <1>7
    <3>5. Len(selected) = x /\ Len(Remembered) = y /\ Len(all) = z
      OBVIOUS
    <3>6. samples = IF needed <= 0 THEN <<>> ELSE SubSeq(selected, x - needed + 1, x)
      OBVIOUS
    <3> HIDE DEF x, y, z, from, to, needed, samples
    <3>7. m \in Nat /\ s + needed = to /\ from + y = to /\ m + needed = x /\ ~(needed <= 0)
          /\ x - needed + 1 = m + 1
      BY <2>b, <3>1
    <3> HIDE DEF m
    <3>8. SubSeq(selected, m + 1, m + needed) = SubSeq(all, s + 1, s + needed)
      <4> DEFINE part == SubSeq(selected, m + 1, m + needed)
                 whole == SubSeq(all, s + 1, s + needed)
      <4>1. part \in Seq(Nat) /\ Len(part) = needed /\ \A i \in 1..needed : part[i] = selected[m + i]
        <5>1. m + needed <= x
          BY <3>1, <3>7
        <5>2. m + needed <= Len(selected)
          BY <3>5, <5>1
        <5> QED BY <3>1, <3>2, <3>7, <5>2, PartOf
      <4>2. whole \in Seq(Nat) /\ Len(whole) = needed /\ \A i \in 1..needed : whole[i] = all[s + i]
        <5>1. s + needed <= z
          BY <3>1, <3>7
        <5>2. s + needed <= Len(all)
          BY <3>5, <5>1
        <5> QED BY <3>1, <3>2, <5>2, PartOf
      <4> HIDE DEF part, whole
      <4>3. ASSUME NEW i \in 1..needed PROVE part[i] = whole[i]
        <5>1. /\ m + i \in 1..x /\ y - x + (m + i) = (s - from) + i
              /\ (s - from) + i \in 1..y /\ from + ((s - from) + i) = s + i
          <6>1. from + y = s + needed
            BY <3>7
          <6> QED BY <3>1, <3>7, <6>1, Places
        <5>2. selected[m + i] = Remembered[y - x + (m + i)]
          BY <3>4, <5>1
        <5>3. Remembered[(s - from) + i] = all[from + ((s - from) + i)]
          BY <3>3, <5>1
        <5> QED BY <4>1, <4>2, <5>1, <5>2, <5>3
      <4>4. part = whole
        BY <4>1, <4>2, <4>3, SeqEqual
      <4> QED BY <4>4 DEF part, whole
    <3> QED BY <3>6, <3>7, <3>8 DEF to
  <2> QED BY <1>3, <2>a, <2>b
<1> HIDE DEF samples
<1>9. M!SnapshotCapture(since).start = s /\ M!SnapshotCapture(since).samples = samples
  BY <1>1
<1> QED BY <1>8, <1>9, Zenon

-----------------------------------------------------------------------------
LEMMA FlattenNone == M!FlattenSeq(<<>>) = <<>>
<1> QED BY DEF M!FlattenSeq

LEMMA InitMemory == Init => MemoryInv
<1> SUFFICES ASSUME Init, component = "microphone" PROVE MemoryState
  BY DEF MemoryInv
<1>1. heard = 0 /\ missed = {} /\ ring = <<>> /\ all = <<>> /\ ~capture.on
  BY DEF Init, M!Init, M!NotCapturing
<1>2. <<>> \in Seq(Nat) /\ Len(<<>>) = 0
  OBVIOUS
<1> QED BY <1>1, <1>2 DEF MemoryState, HeardOK, RingOK, MemoryOK, IsRecent

(* What a callback leaves of a buffer to the capture is the buffer's beginning,
   all of it unless the capture is full from then on. *)
LEMMA KeptIs ==
  ASSUME NEW h \in Nat, NEW n \in Nat \ {0}, capture.start \in Nat, capture.frames \in Nat,
         capture.capped \in BOOLEAN
  PROVE  LET samples == [i \in 1..n |-> h + i]
             kept == M!Kept(samples)
         IN  /\ samples \in Seq(Nat) /\ Len(samples) = n
             /\ kept \in Seq(Nat) /\ Len(kept) <= n /\ \A i \in 1..Len(kept) : kept[i] = samples[i]
             /\ capture.capped => kept = <<>>
<1> DEFINE samples == [i \in 1..n |-> h + i]
           kept == M!Kept(samples)
           room == Ceiling - (capture.frames - capture.start)
           upto == IF room < Len(samples) THEN room ELSE Len(samples)
<1>1. samples \in Seq(Nat) /\ Len(samples) = n /\ \A i \in 1..n : samples[i] \in Nat
  OBVIOUS
<1> HIDE DEF samples
<1>2. kept = IF capture.capped THEN <<>> ELSE SubSeq(samples, 1, upto)
  BY DEF M!Kept
<1>3. upto \in Int /\ upto <= n
  <2>1. room \in Int
    BY CaptureAssumptions DEF M!MicrophoneAssumption
  <2> HIDE DEF room
  <2> QED BY <1>1, <2>1
<1> HIDE DEF upto, kept
<1>4. /\ SubSeq(samples, 1, upto) \in Seq(Nat)
      /\ Len(SubSeq(samples, 1, upto)) = (IF 1 <= upto THEN upto - 1 + 1 ELSE 0)
      /\ \A i \in 1..(upto - 1 + 1) : SubSeq(samples, 1, upto)[i] = samples[1 + i - 1]
  <2>1. 1 \in Int /\ \A i \in 1..upto : samples[i] \in Nat
    BY <1>1, <1>3
  <2> QED BY <1>3, <2>1, SubSeqProperties
<1>5. /\ kept \in Seq(Nat) /\ Len(kept) <= n /\ \A i \in 1..Len(kept) : kept[i] = samples[i]
      /\ capture.capped => kept = <<>>
  <2>1. CASE capture.capped
    <3>1. kept = <<>> /\ kept \in Seq(Nat) /\ Len(kept) = 0
      BY <1>2, <2>1
    <3>2. Len(kept) <= n /\ \A i \in 1..Len(kept) : FALSE
      BY <3>1
    <3> QED BY <3>1, <3>2
  <2>2. CASE ~capture.capped
    <3>1. kept = SubSeq(samples, 1, upto)
      BY <1>2, <2>2
    <3>2. upto - 1 + 1 = upto /\ \A i \in 1..upto : 1 + i - 1 = i
      BY <1>3
    <3>3. kept \in Seq(Nat) /\ Len(kept) = (IF 1 <= upto THEN upto ELSE 0)
          /\ \A i \in 1..upto : kept[i] = samples[i]
      BY <1>4, <3>1, <3>2
    <3>4. Len(kept) <= n /\ \A i \in 1..Len(kept) : i \in 1..upto
      BY <1>3, <3>3
    <3> QED BY <2>2, <3>3, <3>4
  <2> QED BY <2>1, <2>2
<1> QED BY <1>1, <1>5 DEF samples, kept

(* A capture that runs takes in what a callback keeps. *)
LEMMA MemoryHears ==
  ASSUME MicrophoneState, MemoryState, NEW n \in Buffers, M!Process(n) PROVE MemoryState'
<1> DEFINE samples == [i \in 1..n |-> heard + i]
           kept == M!Kept(samples)
<1>1. /\ heard \in Nat /\ missed \in SUBSET (1..heard) /\ n \in Nat \ {0}
      /\ all \in Seq(Nat) /\ \A i \in 1..Len(all) : all[i] \in 1..heard
      /\ DOMAIN capture = {"on", "chunks", "start", "frames", "capped"} /\ capture.on \in BOOLEAN
  BY MicrophoneTyped DEF MemoryState, HeardOK, MicrophoneState, MicrophoneOK
<1>2. heard' = heard + n /\ missed' = missed
  BY DEF M!Process
<1>3. heard' \in Nat /\ missed' \in SUBSET (1..heard')
  <2>1. 1..heard \subseteq 1..(heard + n)
    BY <1>1
  <2> QED BY <1>1, <1>2, <2>1
<1>4. CASE ~capture.on /\ ring' = M!WriteRing(samples) /\ UNCHANGED <<recorder, capture, all>>
  <2>1. /\ IsRecent(ring, heard) /\ \A x \in missed : x <= heard - Len(ring)
        /\ \A i \in 1..Len(all) : all[i] <= heard - Len(ring)
    BY <1>4 DEF MemoryState, RingOK
  <2>2. Preroll \in Nat /\ ring' = M!LastOf(ring \o samples, Preroll)
    BY <1>4, MicrophoneTyped DEF M!WriteRing
  <2>3. IsRecent(ring', heard + n) /\ Len(ring') <= Len(ring) + n
    BY <1>1, <2>1, <2>2, RecentGoesOn
  <2>4. Len(ring) \in Nat /\ Len(ring') \in Nat /\ Len(all) \in Nat
    BY <1>1, <2>1, <2>3 DEF IsRecent
  <2>5. ASSUME NEW x \in Nat, x <= heard - Len(ring) PROVE x <= (heard + n) - Len(ring')
    BY <1>1, <2>3, <2>4, <2>5
  <2>6. HeardOK'
    <3>1. \A i \in 1..Len(all) : all[i] \in 1..(heard + n)
      BY <1>1
    <3> QED BY <1>1, <1>2, <1>3, <1>4, <3>1 DEF HeardOK
  <2>7. RingOK'
    <3>1. \A x \in missed : x <= (heard + n) - Len(ring')
      BY <1>1, <2>1, <2>5
    <3>2. \A i \in 1..Len(all) : all[i] <= (heard + n) - Len(ring')
      <4> SUFFICES ASSUME NEW i \in 1..Len(all) PROVE all[i] <= (heard + n) - Len(ring')
        OBVIOUS
      <4>1. all[i] \in Nat /\ all[i] <= heard - Len(ring)
        BY <1>1, <2>1
      <4> QED BY <2>5, <4>1
    <3>3. missed' = missed /\ all' = all /\ capture' = capture /\ heard' = heard + n
      BY <1>2, <1>4
    <3>4. IsRecent(ring', heard')
      BY <2>3, <3>3, Zenon
    <3> QED BY <3>1, <3>2, <3>3, <3>4 DEF RingOK
  <2> QED BY <1>4, <2>6, <2>7 DEF MemoryState, MemoryOK
<1>5. CASE /\ capture.on
           /\ capture' = [capture EXCEPT
                !.capped = @ \/ Len(kept) < n,
                !.frames = @ + Len(kept),
                !.chunks = IF kept = <<>> THEN @ ELSE Append(@, kept)]
           /\ all' = all \o samples
  <2> DEFINE from == capture.start
             r == Remembered
  <2>1. /\ capture.chunks \in Seq(Seq(Nat)) /\ capture.capped \in BOOLEAN
        /\ IsPart(r, all, from)
        /\ capture.frames = from + Len(r) /\ (~capture.capped => capture.frames = Len(all))
    BY <1>5 DEF MemoryState, MemoryOK
  <2>2. r \in Seq(Nat) /\ Len(r) \in Nat /\ from \in Nat /\ from + Len(r) <= Len(all)
        /\ Len(all) \in Nat /\ capture.frames \in Nat
    <3>1. r \in Seq(Nat) /\ from \in Nat /\ from + Len(r) <= Len(all)
      BY <2>1 DEF IsPart
    <3> HIDE DEF r
    <3>2. Len(r) \in Nat /\ Len(all) \in Nat
      BY <1>1, <3>1
    <3> QED BY <2>1, <3>1, <3>2
  <2>3. /\ samples \in Seq(Nat) /\ Len(samples) = n
        /\ kept \in Seq(Nat) /\ Len(kept) <= n /\ (\A i \in 1..Len(kept) : kept[i] = samples[i])
        /\ (capture.capped => kept = <<>>)
    BY <1>1, <2>1, <2>2, KeptIs
  <2>s. \A i \in 1..n : samples[i] = heard + i
    OBVIOUS
  <2> HIDE DEF samples, kept
  <2>4. /\ capture'.on = TRUE /\ capture'.start = from
        /\ capture'.capped = (capture.capped \/ Len(kept) < n)
        /\ capture'.frames = capture.frames + Len(kept)
        /\ capture'.chunks = IF kept = <<>> THEN capture.chunks ELSE Append(capture.chunks, kept)
    BY <1>1, <1>5
  <2>5. capture'.chunks \in Seq(Seq(Nat)) /\ Remembered' = r \o kept
    <3>1. CASE kept = <<>>
      <4>1. Remembered' = r /\ r \o <<>> = r
        BY <2>2, <2>4, <3>1 DEF Remembered
      <4> QED BY <2>1, <2>4, <3>1, <4>1
    <3>2. CASE kept # <<>>
      <4>1. L!FlattenSeq(Append(capture.chunks, kept)) = L!FlattenSeq(capture.chunks) \o kept
        BY <2>1, <2>3, FlattenAppend
      <4>2. capture'.chunks = Append(capture.chunks, kept)
        BY <2>4, <3>2
      <4>3. Remembered' = M!FlattenSeq(capture'.chunks)
        BY DEF Remembered
      <4>4. M!FlattenSeq(Append(capture.chunks, kept)) = M!FlattenSeq(capture.chunks) \o kept
        BY <4>1, FlattenSame
      <4>5. Append(capture.chunks, kept) \in Seq(Seq(Nat))
        BY <2>1, <2>3
      <4> QED BY <4>2, <4>3, <4>4, <4>5 DEF Remembered
    <3> QED BY <3>1, <3>2
  <2> HIDE DEF r, from
  <2>6. IsPart(r \o kept, all', from)
    <3>1. CASE capture.capped
      <4>1. kept = <<>> /\ r \o kept = r
        BY <2>2, <2>3, <3>1
      <4> QED BY <1>5, <2>1, <2>3, <4>1, PartGrows
    <3>2. CASE ~capture.capped
      <4>1. from + Len(r) = Len(all) /\ Len(kept) <= Len(samples)
        BY <2>1, <2>3, <3>2
      <4> QED BY <1>5, <2>1, <2>3, <4>1, PartTakesIn
    <3> QED BY <2>1, <3>1, <3>2
  <2>7. /\ Len(r \o kept) = Len(r) + Len(kept) /\ Len(all \o samples) = Len(all) + n
        /\ Len(kept) \in Nat /\ all \o samples \in Seq(Nat)
    <3>1. Len(kept) \in Nat
      BY <2>3
    <3>2. Len(r \o kept) = Len(r) + Len(kept)
      BY <2>2, <2>3, JoinedAre
    <3>3. Len(all \o samples) = Len(all) + Len(samples) /\ all \o samples \in Seq(Nat)
      BY <1>1, <2>3, JoinedAre
    <3> QED BY <2>3, <3>1, <3>2, <3>3
  <2>8. capture'.frames = from + Len(r \o kept)
    BY <2>1, <2>2, <2>4, <2>7
  <2>9. ~capture'.capped => capture'.frames = Len(all')
    <3>1. SUFFICES ASSUME ~capture.capped, ~(Len(kept) < n) PROVE capture'.frames = Len(all) + n
      BY <1>5, <2>4, <2>7
    <3>2. Len(kept) = n
      BY <1>1, <2>3, <2>7, <3>1
    <3> QED BY <2>1, <2>4, <3>1, <3>2
  <2>10. MemoryOK'
    BY <2>1, <2>4, <2>5, <2>6, <2>8, <2>9 DEF MemoryOK, from
  <2>11. HeardOK'
    <3>1. \A i \in 1..(Len(all) + n) : (all \o samples)[i] \in 1..(heard + n)
      <4> SUFFICES ASSUME NEW i \in 1..(Len(all) + n) PROVE (all \o samples)[i] \in 1..(heard + n)
        OBVIOUS
      <4>1. (all \o samples)[i] = IF i <= Len(all) THEN all[i] ELSE samples[i - Len(all)]
        BY <1>1, <2>3, JoinedAre
      <4>2. CASE i <= Len(all)
        <5>1. all[i] \in 1..heard
          BY <1>1, <2>2, <4>2
        <5> QED BY <1>1, <4>1, <4>2, <5>1
      <4>3. CASE ~(i <= Len(all))
        <5>1. i - Len(all) \in 1..n
          BY <1>1, <2>2, <4>3
        <5>2. samples[i - Len(all)] = heard + (i - Len(all))
          BY <2>s, <5>1
        <5> QED BY <1>1, <4>1, <4>3, <5>1, <5>2
      <4> QED BY <4>2, <4>3
    <3> QED BY <1>2, <1>3, <1>5, <2>7, <3>1 DEF HeardOK
  <2> QED BY <2>4, <2>10, <2>11 DEF MemoryState, RingOK
<1>6. \/ /\ ~capture.on /\ ring' = M!WriteRing(samples) /\ UNCHANGED <<recorder, capture, all>>
      \/ /\ capture.on
         /\ capture' = [capture EXCEPT
                !.capped = @ \/ Len(kept) < n,
                !.frames = @ + Len(kept),
                !.chunks = IF kept = <<>> THEN @ ELSE Append(@, kept)]
         /\ all' = all \o samples
  BY DEF M!Process
<1> QED BY <1>4, <1>5, <1>6

LEMMA HeardTyped ==
  ASSUME MemoryState
  PROVE  /\ heard \in Nat /\ missed \in SUBSET (1..heard) /\ all \in Seq(Nat)
         /\ \A i \in 1..Len(all) : all[i] \in Nat /\ 1 <= all[i] /\ all[i] <= heard
         /\ \A x \in missed : x \in Nat /\ x <= heard
         /\ <<>> \in Seq(Nat) /\ Len(<<>>) = 0
<1>1. /\ heard \in Nat /\ missed \in SUBSET (1..heard) /\ all \in Seq(Nat)
      /\ \A i \in 1..Len(all) : all[i] \in 1..heard
  BY DEF MemoryState, HeardOK
<1> QED BY <1>1

(* With no pre-roll left, whatever was heard or missed is not in it. *)
LEMMA RingIsEmpty ==
  ASSUME MemoryState, ring' = <<>>, all' = all, heard' \in Nat, heard <= heard',
         \A x \in missed' : x \in Nat /\ x <= heard'
  PROVE  RingOK'
<1>1. /\ heard \in Nat /\ <<>> \in Seq(Nat) /\ Len(<<>>) = 0
      /\ \A i \in 1..Len(all) : all[i] \in Nat /\ all[i] <= heard
  BY HeardTyped
<1>2. IsRecent(ring', heard')
  <2>1. \A i \in 1..Len(<<>>) : FALSE
    BY <1>1
  <2> QED BY <1>1, <2>1 DEF IsRecent
<1>3. heard' - Len(ring') = heard'
  <2>1. Len(ring') = 0
    BY <1>1
  <2>2. \A h \in Nat : h - 0 = h
    OBVIOUS
  <2>3. heard' - 0 = heard'
    BY <2>2, Zenon
  <2> QED BY <2>1, <2>3, Zenon
<1>4. \A i \in 1..Len(all') : all'[i] <= heard'
  BY <1>1
<1> QED BY <1>2, <1>3, <1>4 DEF RingOK

(* A stream that is opened again leaves the capture's memory as it is, and of
   a pre-roll nothing. *)
LEMMA MemoryReopens ==
  ASSUME MicrophoneState, MemoryState, M!Reopen, UNCHANGED <<capture, all>>
  PROVE  MemoryState'
<1>1. heard' = heard + 1 /\ missed' = missed \cup {heard + 1}
      /\ ring' = IF capture.on THEN ring ELSE <<>>
  BY DEF M!Reopen, M!Cleared
<1>2. /\ heard \in Nat /\ missed \in SUBSET (1..heard) /\ all \in Seq(Nat)
      /\ \A i \in 1..Len(all) : all[i] \in Nat /\ 1 <= all[i] /\ all[i] <= heard
      /\ \A x \in missed : x \in Nat /\ x <= heard
  BY HeardTyped
<1>3. HeardOK'
  <2>1. \A i \in 1..Len(all) : all[i] \in 1..(heard + 1)
    BY <1>2
  <2>2. missed' \in SUBSET (1..(heard + 1))
    BY <1>1, <1>2
  <2> QED BY <1>1, <1>2, <2>1, <2>2 DEF HeardOK
<1>4. RingOK'
  <2>1. CASE capture.on
    BY <2>1 DEF RingOK
  <2>2. CASE ~capture.on
    <3>1. \A x \in missed' : x \in Nat /\ x <= heard'
      BY <1>1, <1>2
    <3>2. ring' = <<>> /\ heard' \in Nat /\ heard <= heard'
      BY <1>1, <1>2, <2>2
    <3> QED BY <3>1, <3>2, RingIsEmpty
  <2> QED BY <2>1, <2>2
<1>5. MemoryOK'
  BY DEF MemoryState, MemoryOK, Remembered
<1> QED BY <1>3, <1>4, <1>5 DEF MemoryState

LEMMA MemoryStays ==
  ASSUME MemoryState, UNCHANGED <<heard, missed, ring, capture, all>>
  PROVE  MemoryState'
<1> QED BY DEF MemoryState, HeardOK, RingOK, MemoryOK, Remembered

(* Without a capture there is no memory of one, and no pre-roll yet. *)
LEMMA MemoryEnds ==
  ASSUME MemoryState, capture' = M!NotCapturing, ring' = <<>>, UNCHANGED <<heard, missed, all>>
  PROVE  MemoryState'
<1>1. HeardOK'
  BY DEF MemoryState, HeardOK
<1>2. RingOK'
  <2>1. heard' \in Nat /\ heard <= heard' /\ \A x \in missed' : x \in Nat /\ x <= heard'
    BY HeardTyped
  <2> QED BY <2>1, RingIsEmpty
<1> QED BY <1>1, <1>2 DEF MemoryState, MemoryOK, M!NotCapturing

(* The pre-roll becomes the capture's first chunk. *)
LEMMA MemoryBegins == ASSUME MicrophoneState, MemoryState, M!BeginCapture PROVE MemoryState'
<1>1. /\ UNCHANGED <<heard, missed>> /\ all' = ring /\ capture' = M!Capturing(ring)
      /\ ~capture.on
  BY DEF M!BeginCapture, M!deviceVars, MicrophoneState, MicrophoneOK
<1>2. /\ heard \in Nat /\ missed \in SUBSET (1..heard)
      /\ ring \in Seq(Nat) /\ Len(ring) \in Nat /\ Len(ring) <= heard
      /\ \A i \in 1..Len(ring) : ring[i] = heard - Len(ring) + i
  <2>1. IsRecent(ring, heard)
    BY <1>1 DEF MemoryState, RingOK
  <2> QED BY <2>1, HeardTyped DEF IsRecent
<1>3. HeardOK'
  <2>1. \A i \in 1..Len(ring) : ring[i] \in 1..heard
    BY <1>2
  <2> QED BY <1>1, <1>2, <2>1 DEF HeardOK
<1>4. /\ capture'.on = TRUE /\ capture'.start = 0 /\ capture'.frames = Len(ring)
      /\ capture'.capped = FALSE
      /\ capture'.chunks = IF ring = <<>> THEN <<>> ELSE <<ring>>
  BY <1>1 DEF M!Capturing
<1>5. capture'.chunks \in Seq(Seq(Nat)) /\ Remembered' = ring
  <2>1. CASE ring = <<>>
    <3>1. capture'.chunks = <<>> /\ <<>> \in Seq(Seq(Nat))
      BY <1>4, <2>1
    <3> QED BY <2>1, <3>1, FlattenNone DEF Remembered
  <2>2. CASE ring # <<>>
    <3>1. capture'.chunks = <<ring>> /\ <<ring>> = Append(<<>>, ring) /\ <<>> \in Seq(Seq(Nat))
      BY <1>4, <2>2
    <3>2. L!FlattenSeq(Append(<<>>, ring)) = L!FlattenSeq(<<>>) \o ring
      BY <1>2, <3>1, FlattenAppend
    <3>3. M!FlattenSeq(Append(<<>>, ring)) = <<>> \o ring
      BY <3>2, FlattenSame, FlattenNone
    <3>4. <<>> \o ring = ring
      BY <1>2
    <3>5. Remembered' = M!FlattenSeq(capture'.chunks)
      BY DEF Remembered
    <3>6. capture'.chunks \in Seq(Seq(Nat))
      BY <1>2, <3>1
    <3> QED BY <3>1, <3>3, <3>4, <3>5, <3>6
  <2> QED BY <2>1, <2>2
<1>6. IsPart(ring, ring, 0) /\ Len(ring) = 0 + Len(ring)
  BY <1>2 DEF IsPart
<1>7. MemoryOK'
  BY <1>1, <1>4, <1>5, <1>6 DEF MemoryOK
<1> QED BY <1>3, <1>4, <1>7 DEF MemoryState, RingOK

(* The chunks that go are the first of what is remembered, and it starts where
   they end. *)
LEMMA MemoryDiscards ==
  ASSUME MicrophoneState, MemoryState, NEW through \in 1..MaxHeard, M!DiscardBefore(through)
  PROVE  MemoryState'
<1>1. PICK whole \in 1..Len(capture.chunks) :
        /\ capture.on /\ UNCHANGED <<heard, missed, ring, all>>
        /\ capture' = [capture EXCEPT !.chunks = SubSeq(@, whole + 1, Len(@)),
                                      !.start = M!EndOf(whole)]
  BY DEF M!DiscardBefore, M!deviceVars
<1> DEFINE before == M!FlattenSeq(SubSeq(capture.chunks, 1, whole))
           after == M!FlattenSeq(SubSeq(capture.chunks, whole + 1, Len(capture.chunks)))
<1>2. /\ capture.chunks \in Seq(Seq(Nat)) /\ capture.capped \in BOOLEAN
      /\ IsPart(Remembered, all, capture.start)
      /\ capture.frames = capture.start + Len(Remembered)
      /\ ~capture.capped => capture.frames = Len(all)
      /\ DOMAIN capture = {"on", "chunks", "start", "frames", "capped"}
  BY <1>1 DEF MemoryState, MemoryOK, MicrophoneState, MicrophoneOK
<1>3. /\ before \in Seq(Nat) /\ after \in Seq(Nat) /\ Remembered = before \o after
      /\ SubSeq(capture.chunks, whole + 1, Len(capture.chunks)) \in Seq(Seq(Nat))
  <2>1. whole \in 0..Len(capture.chunks)
    BY <1>2
  <2> QED BY <1>2, <2>1, FlattenSplit, SplitAt DEF Remembered
<1>4. /\ capture'.on = TRUE /\ capture'.capped = capture.capped /\ capture'.frames = capture.frames
      /\ capture'.chunks = SubSeq(capture.chunks, whole + 1, Len(capture.chunks))
      /\ capture'.start = capture.start + Len(before)
  BY <1>1, <1>2 DEF M!EndOf, M!Queued
<1>5. Remembered' = after
  BY <1>4 DEF Remembered
<1> HIDE DEF before, after
<1>6. IsPart(after, all, capture.start + Len(before))
      /\ capture.start + Len(before \o after) = (capture.start + Len(before)) + Len(after)
  BY <1>2, <1>3, PartCut
<1>7. MemoryOK'
  BY <1>1, <1>2, <1>3, <1>4, <1>5, <1>6 DEF MemoryOK
<1>8. HeardOK' /\ RingOK'
  BY <1>1, <1>4 DEF MemoryState, HeardOK, RingOK
<1> QED BY <1>7, <1>8 DEF MemoryState

LEMMA StepMemory == MicrophoneInv /\ MemoryInv /\ [Next]_vars => MemoryInv'
<1> SUFFICES ASSUME MicrophoneInv, MemoryInv, [Next]_vars, component' = "microphone"
             PROVE  MemoryState'
  BY DEF MemoryInv
<1>1. CASE UNCHANGED vars
  BY <1>1, MemoryStays DEF vars, microphoneVars, MemoryInv
<1>2. CASE component = "microphone" /\ M!Next
  <2>1. MicrophoneState /\ MemoryState
    BY <1>2 DEF MicrophoneInv, MemoryInv
  <2>2. CASE \E n \in Buffers : M!Process(n)
    BY <2>1, <2>2, MemoryHears
  <2>3. CASE M!GoStale
    BY <2>1, <2>3, MemoryStays DEF M!GoStale, M!captureVars
  <2>4. CASE M!Poll
    <3>1. \/ M!Reopen \/ UNCHANGED <<heard, missed, ring>>
      BY <2>4 DEF M!Poll
    <3>2. UNCHANGED <<capture, all>>
      BY <2>4 DEF M!Poll
    <3> QED BY <2>1, <3>1, <3>2, MemoryReopens, MemoryStays
  <2>5. CASE M!StartCapture
    <3>1. \/ M!Reopen \/ UNCHANGED <<heard, missed, ring>>
      BY <2>5 DEF M!StartCapture, M!deviceVars
    <3>2. UNCHANGED <<capture, all>>
      BY <2>5 DEF M!StartCapture
    <3> QED BY <2>1, <3>1, <3>2, MemoryReopens, MemoryStays
  <2>6. CASE M!BeginCapture
    BY <2>1, <2>6, MemoryBegins
  <2>7. CASE M!TakeCapture
    BY <2>1, <2>7, MemoryEnds DEF M!TakeCapture, M!deviceVars
  <2>8. CASE \E through \in 1..MaxHeard : M!DiscardBefore(through)
    BY <2>1, <2>8, MemoryDiscards
  <2>9. CASE M!ShutDown
    <3>1. /\ capture' = M!NotCapturing /\ ring' = (IF capture.on THEN <<>> ELSE ring)
          /\ UNCHANGED <<heard, missed, all>>
      BY <2>9 DEF M!ShutDown
    <3>2. CASE capture.on
      BY <2>1, <3>1, <3>2, MemoryEnds
    <3>3. CASE ~capture.on
      <4>1. ring' = ring
        BY <3>1, <3>3
      <4> QED BY <2>1, <3>1, <3>3, <4>1
             DEF MemoryState, HeardOK, RingOK, MemoryOK, M!NotCapturing
    <3> QED BY <3>2, <3>3
  <2>10. CASE \/ M!EndCapture \/ M!StopRecorder \/ M!WriterJoined \/ M!KeepAtEnd \/ M!NoKeep
              \/ \E c \in M!Captures : M!ReleaseKept(c)
    <3>1. UNCHANGED <<heard, missed, ring, capture, all>>
      BY <2>10 DEF M!EndCapture, M!StopRecorder, M!WriterJoined, M!KeepAtEnd, M!NoKeep,
         M!ReleaseKept, M!deviceVars, M!captureVars
    <3> QED BY <2>1, <3>1, MemoryStays
  <2>11. CASE M!Writers
    BY <2>1, <2>11, MemoryStays DEF M!Writers, M!deviceVars, M!captureVars
  <2> QED BY <1>2, <2>2, <2>3, <2>4, <2>5, <2>6, <2>7, <2>8, <2>9, <2>10, <2>11
          DEF M!Next, M!Loop
<1> QED BY <1>1, <1>2 DEF Next

(* Nothing of a fresh pre-roll was missed or is the capture's before. *)
LEMMA RecentIsFresh ==
  ASSUME MemoryState, ~capture.on
  PROVE  /\ \A i \in DOMAIN ring : ring[i] = heard - Len(ring) + i
         /\ M!Range(ring) \cap (M!Range(all) \cup missed) = {}
<1>1. /\ ring \in Seq(Nat) /\ Len(ring) \in Nat
      /\ \A i \in 1..Len(ring) : ring[i] = heard - Len(ring) + i
      /\ \A x \in missed : x <= heard - Len(ring)
      /\ \A i \in 1..Len(all) : all[i] <= heard - Len(ring)
  BY DEF MemoryState, RingOK, IsRecent
<1>2. heard \in Nat /\ all \in Seq(Nat)
  BY HeardTyped
<1>3. DOMAIN ring = 1..Len(ring) /\ DOMAIN all = 1..Len(all)
  BY <1>1, <1>2
<1>4. ASSUME NEW x, x \in M!Range(ring), x \in M!Range(all) \cup missed PROVE FALSE
  <2>1. PICK i \in 1..Len(ring) : x = ring[i]
    BY <1>3, <1>4 DEF M!Range
  <2>2. x = heard - Len(ring) + i /\ ~(x <= heard - Len(ring))
    BY <1>1, <1>2, <2>1
  <2>3. x \in M!Range(all)
    BY <1>1, <1>4, <2>2
  <2>4. PICK j \in 1..Len(all) : x = all[j]
    BY <1>3, <2>3 DEF M!Range
  <2> QED BY <1>1, <2>2, <2>4
<1> QED BY <1>1, <1>3, <1>4

(* Wherever the ceiling was reached and whatever was dropped from the front, a
   snapshot holds the capture's samples from where it says to where its memory
   ends; and the pre-roll is the last that was heard, nothing missed within or
   after it, and nothing of it part of the capture before (`snapshot_capture`,
   `discard_before`, `process`, `reopen`). *)
THEOREM MemoryIsRight == Spec => []MemoryIsTheCapture
<1>1. MemoryInv => MemoryIsTheCapture
  <2> SUFFICES ASSUME MemoryState PROVE M!SnapshotIsTheCapture /\ M!PrerollIsFresh
    BY DEF MemoryInv, MemoryIsTheCapture
  <2>1. M!SnapshotIsTheCapture
    BY SnapshotIs DEF M!SnapshotIsTheCapture
  <2>2. M!PrerollIsFresh
    BY RecentIsFresh DEF M!PrerollIsFresh
  <2> QED BY <2>1, <2>2
<1> QED BY <1>1, InitMicrophone, StepMicrophone, InitMemory, StepMemory, PTL DEF Spec
=============================================================================
