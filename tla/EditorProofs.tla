---------------------------- MODULE EditorProofs -----------------------------
(***************************************************************************)
(* Proofs that the editor thread keeps what it promises the event loop     *)
(* (Editor, Delivery): whatever becomes of the editors, their connections, *)
(* their buffers and the files, each text is settled in the order spoken,  *)
(* and a settled one is in a dictation file or reported lost.              *)
(***************************************************************************)
EXTENDS Editor, SequenceTheorems, TLAPS

-----------------------------------------------------------------------------
(* Paragraphs. *)

Pages == Seq(Seq(Nat))

LEMMA TextsOfPages ==
  ASSUME NEW pages \in Pages, NEW t
  PROVE  t \in TextsIn(pages) <=>
           \E i \in 1..Len(pages) : \E j \in 1..Len(pages[i]) : pages[i][j] = t
<1>1. DOMAIN pages = 1..Len(pages) /\ \A i \in 1..Len(pages) : DOMAIN pages[i] = 1..Len(pages[i])
  BY DEF Pages
<1> QED BY <1>1 DEF TextsIn, ToSet

LEMMA LandedTexts ==
  ASSUME NEW pages \in Pages, NEW text \in Nat, NEW continued
  PROVE  /\ Landed(pages, text, continued) \in Pages
         /\ TextsIn(Landed(pages, text, continued)) = TextsIn(pages) \cup {text}
<1> DEFINE landed == Landed(pages, text, continued)
           n == Len(pages)
<1>0. n \in Nat /\ \A i \in 1..n : pages[i] \in Seq(Nat)
  BY ElementOfSeq DEF Pages
<1>1. CASE continued /\ pages # <<>>
  <2>1. n \in 1..n /\ landed = [pages EXCEPT ![n] = Append(@, text)]
    BY <1>0, <1>1, EmptySeq DEF Landed, Pages
  <2>2. Append(pages[n], text) \in Seq(Nat)
    BY <1>0, <2>1, AppendProperties
  <2>3. landed \in Pages /\ Len(landed) = n
        /\ \A i \in 1..n : landed[i] = IF i = n THEN Append(pages[n], text) ELSE pages[i]
    BY <1>0, <2>1, <2>2, ExceptSeq DEF Pages
  <2>4. /\ Len(landed[n]) = Len(pages[n]) + 1 /\ landed[n][Len(pages[n]) + 1] = text
        /\ \A j \in 1..Len(pages[n]) : landed[n][j] = pages[n][j]
        /\ Len(pages[n]) \in Nat
    BY <1>0, <2>1, <2>3, AppendProperties
  <2> HIDE DEF landed, n
  <2>5. ASSUME NEW t PROVE t \in TextsIn(landed) <=> t \in TextsIn(pages) \/ t = text
    <3>1. ASSUME t \in TextsIn(landed) PROVE t \in TextsIn(pages) \/ t = text
      <4>1. PICK i \in 1..n : \E j \in 1..Len(landed[i]) : landed[i][j] = t
        BY <2>3, <3>1, TextsOfPages
      <4>2. PICK j \in 1..Len(landed[i]) : landed[i][j] = t
        BY <4>1
      <4>3. CASE i = n /\ j = Len(pages[n]) + 1
        BY <2>4, <4>2, <4>3
      <4>4. CASE ~(i = n /\ j = Len(pages[n]) + 1)
        <5>1. j \in 1..Len(pages[i]) /\ pages[i][j] = t
          BY <2>1, <2>3, <2>4, <4>2, <4>4
        <5> QED BY <4>1, <5>1, TextsOfPages DEF n
      <4> QED BY <4>3, <4>4
    <3>2. ASSUME t \in TextsIn(pages) PROVE t \in TextsIn(landed)
      <4>1. PICK i \in 1..n : \E j \in 1..Len(pages[i]) : pages[i][j] = t
        BY <3>2, TextsOfPages DEF n
      <4>2. i \in 1..Len(landed) /\ \E j \in 1..Len(landed[i]) : landed[i][j] = t
        BY <2>3, <2>4, <4>1
      <4> QED BY <2>3, <4>2, TextsOfPages
    <3>3. text \in TextsIn(landed)
      <4>1. n \in 1..Len(landed) /\ Len(landed[n]) \in 1..Len(landed[n]) /\ landed[n][Len(landed[n])] = text
        BY <2>1, <2>3, <2>4
      <4> QED BY <2>3, <4>1, TextsOfPages
    <3> QED BY <3>1, <3>2, <3>3
  <2> QED BY <2>3, <2>5 DEF landed
<1>2. CASE ~(continued /\ pages # <<>>)
  <2>1. landed = Append(pages, <<text>>)
    BY <1>2 DEF Landed
  <2>2. <<text>> \in Seq(Nat) /\ Len(<<text>>) = 1 /\ <<text>>[1] = text
    OBVIOUS
  <2>3. /\ landed \in Pages /\ Len(landed) = n + 1 /\ landed[n + 1] = <<text>>
        /\ \A i \in 1..n : landed[i] = pages[i]
    BY <2>1, <2>2, AppendProperties DEF Pages
  <2> HIDE DEF landed, n
  <2>5. ASSUME NEW t PROVE t \in TextsIn(landed) <=> t \in TextsIn(pages) \/ t = text
    <3>1. ASSUME t \in TextsIn(landed) PROVE t \in TextsIn(pages) \/ t = text
      <4>1. PICK i \in 1..Len(landed) : \E j \in 1..Len(landed[i]) : landed[i][j] = t
        BY <2>3, <3>1, TextsOfPages
      <4>2. CASE i = n + 1
        BY <2>2, <2>3, <4>1, <4>2
      <4>3. CASE i \in 1..n
        BY <2>3, <4>1, <4>3, TextsOfPages DEF n
      <4> QED BY <1>0, <2>3, <4>2, <4>3
    <3>2. ASSUME t \in TextsIn(pages) PROVE t \in TextsIn(landed)
      <4>1. PICK i \in 1..n : \E j \in 1..Len(pages[i]) : pages[i][j] = t
        BY <3>2, TextsOfPages DEF n
      <4>2. i \in 1..Len(landed) /\ \E j \in 1..Len(landed[i]) : landed[i][j] = t
        BY <1>0, <2>3, <4>1
      <4> QED BY <2>3, <4>2, TextsOfPages
    <3>3. text \in TextsIn(landed)
      <4>1. n + 1 \in 1..Len(landed) /\ 1 \in 1..Len(landed[n + 1]) /\ landed[n + 1][1] = text
        BY <1>0, <2>2, <2>3
      <4> QED BY <2>3, <4>1, TextsOfPages
    <3> QED BY <3>1, <3>2, <3>3
  <2> QED BY <2>3, <2>5 DEF landed
<1> QED BY <1>1, <1>2

-----------------------------------------------------------------------------
(* The directory.  A name that was given is below the next one, and no
   operation on the directory loses a text. *)

DirectoryOK(d) ==
  /\ d \in [there : SUBSET Files, holds : [Files -> Pages], pointer : Nat,
            next : 1..(MaxFiles + 1)]
  /\ \A f \in d.there : f < d.next

Known(d) == 0..(d.next - 1)
Held(d) == UNION {TextsIn(d.holds[f]) : f \in d.there}

(* What an operation on the directory leaves, but for a text it writes. *)
Grows(d, d2) == DirectoryOK(d2) /\ d.next <= d2.next /\ Held(d2) = Held(d)
Gains(d, d2, text) == DirectoryOK(d2) /\ d.next <= d2.next /\ Held(d2) = Held(d) \cup {text}

LEMMA HeldTexts ==
  ASSUME NEW d, NEW t
  PROVE  t \in Held(d) <=> \E f \in d.there : t \in TextsIn(d.holds[f])
BY DEF Held

LEMMA NoTexts == <<>> \in Pages /\ TextsIn(<<>>) = {}
<1>1. <<>> \in Pages /\ Len(<<>>) = 0
  BY DEF Pages
<1>2. ASSUME NEW t PROVE t \notin TextsIn(<<>>)
  BY <1>1, TextsOfPages
<1> QED BY <1>1, <1>2

LEMMA Repointed ==
  ASSUME NEW d, DirectoryOK(d), NEW p \in Nat
  PROVE  Grows(d, [d EXCEPT !.pointer = p])
BY FilesAssumption DEF Grows, DirectoryOK, Held

LEMMA NewFile ==
  ASSUME NEW d, DirectoryOK(d), NameLeft(d)
  PROVE  /\ Grows(d, WithNewFile(d)) /\ WithNewFile(d).next = d.next + 1
         /\ d.next \in WithNewFile(d).there /\ WithNewFile(d).holds[d.next] = <<>>
         /\ WithNewFile(d).pointer = d.pointer
<1> DEFINE d2 == WithNewFile(d)
<1>1. /\ d.next \in Files /\ d.next \notin d.there
      /\ d2 = [d EXCEPT !.there = @ \cup {d.next}, !.holds[d.next] = <<>>, !.next = @ + 1]
  BY DEF NameLeft, WithNewFile, DirectoryOK
<1>2. DirectoryOK(d2) /\ d2.next = d.next + 1 /\ d2.there = d.there \cup {d.next}
      /\ d2.holds[d.next] = <<>> /\ \A f \in d.there : d2.holds[f] = d.holds[f]
  <2>1. /\ d2.there = d.there \cup {d.next} /\ d2.next = d.next + 1 /\ d2.pointer = d.pointer
        /\ d2.holds = [d.holds EXCEPT ![d.next] = <<>>]
        /\ DOMAIN d2 = {"there", "holds", "pointer", "next"}
        /\ d2 = [there |-> d2.there, holds |-> d2.holds, pointer |-> d2.pointer, next |-> d2.next]
    BY <1>1 DEF DirectoryOK
  <2>2. /\ d2.holds \in [Files -> Pages] /\ d2.there \subseteq Files
        /\ d2.next \in 1..(MaxFiles + 1) /\ d2.pointer \in Nat
    BY <1>1, <2>1, NoTexts, FilesAssumption DEF DirectoryOK, Files
  <2>3. \A f \in d2.there : f < d2.next
    BY <1>1, <2>1, FilesAssumption DEF DirectoryOK, Files
  <2> HIDE DEF d2
  <2>4. DirectoryOK(d2)
    BY <2>1, <2>2, <2>3 DEF DirectoryOK
  <2>5. d2.holds[d.next] = <<>> /\ \A f \in d.there : d2.holds[f] = d.holds[f]
    BY <1>1, <2>1 DEF DirectoryOK
  <2> QED BY <2>1, <2>4, <2>5
<1>3. d2.pointer = d.pointer /\ d.next <= d2.next
  BY <1>1, <1>2, FilesAssumption DEF DirectoryOK
<1> HIDE DEF d2
<1>4. Held(d2) = Held(d)
  <2>1. ASSUME NEW t PROVE t \in Held(d2) <=> t \in Held(d)
    BY <1>2, NoTexts, HeldTexts
  <2> QED BY <2>1
<1> QED BY <1>2, <1>3, <1>4 DEF Grows, d2

Overwrite(d, file, pages) == [d EXCEPT !.holds[file] = pages, !.there = @ \cup {file}]

(* A file is overwritten with what it held and more, or one that is not there
   is written. *)
LEMMA Overwritten ==
  ASSUME NEW d, DirectoryOK(d), NEW file \in Files, file < d.next, NEW pages \in Pages,
         file \in d.there => TextsIn(d.holds[file]) \subseteq TextsIn(pages),
         NEW d2, d2 = Overwrite(d, file, pages)
  PROVE  /\ DirectoryOK(d2) /\ d2.next = d.next /\ d2.pointer = d.pointer
         /\ Held(d2) = Held(d) \cup TextsIn(pages)
<1>1. /\ DirectoryOK(d2) /\ d2.next = d.next /\ d2.pointer = d.pointer
      /\ d2.there = d.there \cup {file}
      /\ d2.holds[file] = pages /\ \A f \in d.there : f # file => d2.holds[f] = d.holds[f]
  BY DEF DirectoryOK, Overwrite
<1>2. ASSUME NEW t PROVE t \in Held(d2) <=> t \in Held(d) \/ t \in TextsIn(pages)
  BY <1>1, HeldTexts
<1> QED BY <1>1, <1>2

LEMMA WrittenTo ==
  ASSUME NEW d, DirectoryOK(d), NEW file \in d.there, NEW text \in Nat, NEW continued
  PROVE  /\ Gains(d, Write(d, file, text, continued), text)
         /\ Write(d, file, text, continued).pointer = d.pointer
<1> DEFINE pages == Landed(d.holds[file], text, continued)
<1>1. file \in Files /\ file < d.next /\ d.holds[file] \in Pages /\ d.next \in Nat
  BY FilesAssumption DEF DirectoryOK, Files
<1>2. pages \in Pages /\ TextsIn(pages) = TextsIn(d.holds[file]) \cup {text}
  BY <1>1, LandedTexts
<1>3. Write(d, file, text, continued) = Overwrite(d, file, pages)
  BY DEF Write, Overwrite
<1> DEFINE d2 == Write(d, file, text, continued)
<1> HIDE DEF pages, d2
<1>4. /\ DirectoryOK(d2) /\ d2.next = d.next /\ d2.pointer = d.pointer
      /\ Held(d2) = Held(d) \cup TextsIn(pages)
  <2>1. file \in d.there => TextsIn(d.holds[file]) \subseteq TextsIn(pages)
    BY <1>2
  <2>2. d2 = Overwrite(d, file, pages)
    BY <1>3 DEF d2
  <2> QED BY <1>1, <1>2, <2>1, <2>2, Overwritten
<1>5. Held(d) \cup TextsIn(pages) = Held(d) \cup {text}
  BY <1>2, HeldTexts
<1> QED BY <1>1, <1>4, <1>5 DEF Gains, d2

LEMMA PendingThere == ASSUME NEW d, Pending(d) # None PROVE Pending(d) \in d.there
BY DEF Pending

LEMMA AppendedPending ==
  ASSUME NEW d, DirectoryOK(d), Writable(d), NEW text \in Nat, NEW continued
  PROVE  /\ Gains(d, AppendPending(d, text, continued), text)
         /\ Gains(d, AppendUnpointed(d, text, continued), text)
<1> DEFINE d2 == AppendPending(d, text, continued)
<1>1. Gains(d, d2, text)
  <2>1. CASE Pending(d) # None
    BY <2>1, PendingThere, WrittenTo DEF AppendPending
  <2>2. CASE Pending(d) = None
    <3> DEFINE e == WithNewFile(d)
               w == Write(e, d.next, text, continued)
    <3>1. /\ DirectoryOK(e) /\ d.next <= e.next /\ Held(e) = Held(d) /\ d.next \in e.there
          /\ d.next \in Nat
      BY <2>2, NewFile DEF Writable, Grows, DirectoryOK
    <3> HIDE DEF e
    <3>2. Gains(e, w, text)
      BY <3>1, WrittenTo
    <3>3. d2 = [w EXCEPT !.pointer = d.next]
      BY <2>2 DEF AppendPending, e
    <3> HIDE DEF w, d2
    <3>4. DirectoryOK(w) /\ e.next <= w.next /\ Held(w) = Held(d) \cup {text}
      BY <3>1, <3>2 DEF Gains
    <3>5. Grows(w, d2)
      BY <3>1, <3>3, <3>4, Repointed
    <3>6. d.next \in Nat /\ e.next \in Nat /\ w.next \in Nat /\ d2.next \in Nat
      BY <3>1, <3>4, <3>5, FilesAssumption DEF DirectoryOK, Grows
    <3> QED BY <3>1, <3>4, <3>5, <3>6 DEF Gains, Grows
  <2> QED BY <2>1, <2>2
<1>2. d.pointer \in Nat
  BY DEF DirectoryOK
<1>3. AppendUnpointed(d, text, continued) = [d2 EXCEPT !.pointer = d.pointer]
  BY DEF AppendUnpointed
<1> HIDE DEF d2
<1>4. Grows(d2, AppendUnpointed(d, text, continued))
  BY <1>1, <1>2, <1>3, Repointed DEF Gains
<1>5. d.next \in Nat /\ d2.next \in Nat /\ AppendUnpointed(d, text, continued).next \in Nat
  BY <1>1, <1>4, FilesAssumption DEF DirectoryOK, Grows, Gains
<1>6. Gains(d, AppendUnpointed(d, text, continued), text)
  BY <1>1, <1>4, <1>5 DEF Gains, Grows
<1> QED BY <1>1, <1>6 DEF d2

(* Taking, settling, restoring and claiming the pending passage. *)
LEMMA PassageMoved ==
  ASSUME NEW d, DirectoryOK(d), NEW file \in Nat
  PROVE  /\ Grows(d, d) /\ Grows(d, Settle(d, file)) /\ Grows(d, Take(d))
         /\ Grows(d, Restore(d, file)) /\ Grows(d, Unclaimed(d, file))
<1>1. Grows(d, d)
  BY FilesAssumption DEF Grows, DirectoryOK
<1>2. Grows(d, [d EXCEPT !.pointer = None]) /\ Grows(d, [d EXCEPT !.pointer = file])
  <2>1. None \in Nat
    BY DEF None
  <2>2. ASSUME NEW p \in Nat PROVE Grows(d, [d EXCEPT !.pointer = p])
    BY <2>2, Repointed
  <2> QED BY <2>1, <2>2
<1>3. Grows(d, Unclaimed(d, file))
  <2>1. CASE file \in d.there /\ d.holds[file] = <<>>
    <3> DEFINE d2 == Unclaimed(d, file)
    <3>1. d2 = [d EXCEPT !.there = @ \ {file}]
      BY <2>1 DEF Unclaimed
    <3>2. DirectoryOK(d2) /\ d2.next = d.next /\ d2.there = d.there \ {file} /\ d2.holds = d.holds
      BY <3>1 DEF DirectoryOK
    <3> HIDE DEF d2
    <3>3. ASSUME NEW t PROVE t \in Held(d2) <=> t \in Held(d)
      BY <2>1, <3>2, NoTexts, HeldTexts
    <3>4. d.next <= d2.next
      BY <3>2, FilesAssumption DEF DirectoryOK
    <3> QED BY <3>2, <3>3, <3>4 DEF Grows, d2
  <2>2. CASE ~(file \in d.there /\ d.holds[file] = <<>>)
    BY <1>1, <2>2 DEF Unclaimed
  <2> QED BY <2>1, <2>2
<1> QED BY <1>1, <1>2, <1>3 DEF Settle, Take, Restore

LEMMA ClaimedPassage ==
  ASSUME NEW d, DirectoryOK(d), Pending(d) # None \/ NameLeft(d)
  PROVE  Grows(d, Claimed(d)) /\ ClaimedFile(d) \in Known(Claimed(d))
<1>0. d.next \in Nat
  BY FilesAssumption DEF DirectoryOK
<1>1. CASE Pending(d) # None
  <2>1. Claimed(d) = d /\ ClaimedFile(d) \in d.there
    BY <1>1, PendingThere DEF Claimed, ClaimedFile
  <2>2. Grows(d, d)
    BY PassageMoved, 0 \in Nat
  <2>3. ClaimedFile(d) \in Nat /\ ClaimedFile(d) < d.next
    BY <2>1 DEF DirectoryOK, Files
  <2> QED BY <1>0, <2>1, <2>2, <2>3 DEF Known
<1>2. CASE Pending(d) = None
  <2>1. Claimed(d) = WithNewFile(d) /\ ClaimedFile(d) = d.next
    BY <1>2 DEF Claimed, ClaimedFile
  <2> QED BY <1>0, <1>2, <2>1, NewFile DEF Known
<1> QED BY <1>1, <1>2

-----------------------------------------------------------------------------
(* The editors.  Known names only are opened, a buffer holds no text that is
   in no file, and a request to append carries a text the thread took. *)

Requests ==
  [op : {"query", "open", "setup", "append", "copy", "quit", "push"}, file : Nat,
   text : Nat, continued : BOOLEAN, words : SUBSET Nat, orphan : BOOLEAN]

InboxOK(q, known, told) ==
  /\ q \in Seq(Requests)
  /\ \A i \in 1..Len(q) : q[i].file \in known /\ (q[i].op = "append" => q[i].text \in told)

EditorFields ==
  {"st", "kind", "marker", "start", "pinned", "loaded", "text", "last", "preview",
   "hang", "inbox"}

EditorOK(e, d, told) ==
  /\ DOMAIN e = EditorFields
  /\ e.start \in Known(d) /\ e.pinned \in Known(d) /\ e.loaded \subseteq Known(d)
  /\ e.text \in [Files -> Pages] /\ \A f \in Files : TextsIn(e.text[f]) \subseteq Held(d)
  /\ e.last[1] \in Held(d) \cup {None}
  /\ InboxOK(e.inbox, Known(d), told)

(* Nobody waits for what the request answers. *)
Quiet(r) == r.orphan \/ r.op = "push"
Silent(q) == \A i \in 1..Len(q) : Quiet(q[i])

LEMMA KnownGrows ==
  ASSUME NEW d, NEW d2, DirectoryOK(d), DirectoryOK(d2), d.next <= d2.next
  PROVE  Known(d) \subseteq Known(d2) /\ None \in Known(d) /\ Known(d) \subseteq Nat
BY FilesAssumption DEF DirectoryOK, Known, None

LEMMA EditorStays ==
  ASSUME NEW d, NEW d2, DirectoryOK(d), DirectoryOK(d2), d.next <= d2.next,
         Held(d) \subseteq Held(d2), NEW told, NEW told2, told \subseteq told2,
         NEW e, EditorOK(e, d, told)
  PROVE  EditorOK(e, d2, told2)
<1>1. Known(d) \subseteq Known(d2)
  BY KnownGrows
<1> QED BY <1>1 DEF EditorOK, InboxOK

LEMMA EmptyInbox == ASSUME NEW known, NEW told PROVE InboxOK(<<>>, known, told) /\ Silent(<<>>)
BY DEF InboxOK, Silent

LEMMA FreshEditor ==
  ASSUME NEW d, DirectoryOK(d), NEW told, NEW file \in Known(d), NEW kind, NEW marker
  PROVE  /\ EditorOK(NoEditor, d, told) /\ NoEditor.inbox = <<>>
         /\ EditorOK(Launched(kind, marker, file), d, told)
         /\ Launched(kind, marker, file).inbox = <<>>
<1>1. None \in Known(d)
  BY FilesAssumption DEF Known, DirectoryOK, None
<1>2. [f \in Files |-> <<>>] \in [Files -> Pages]
      /\ \A f \in Files : TextsIn([g \in Files |-> <<>>][f]) \subseteq Held(d)
  BY NoTexts
<1>3. EditorOK(NoEditor, d, told) /\ NoEditor.inbox = <<>>
  BY <1>1, <1>2, EmptyInbox DEF EditorOK, NoEditor, EditorFields
<1>4. EditorOK(Launched(kind, marker, file), d, told) /\ Launched(kind, marker, file).inbox = <<>>
  BY <1>1, <1>2, EmptyInbox DEF EditorOK, NoEditor, EditorFields, Launched
<1> QED BY <1>3, <1>4

LEMMA GoneEditor ==
  ASSUME NEW d, DirectoryOK(d), NEW told, NEW e, EditorOK(e, d, told)
  PROVE  EditorOK(Exited(e), d, told) /\ Exited(e).inbox = <<>>
<1>1. None \in Known(d)
  BY FilesAssumption DEF Known, DirectoryOK, None
<1>2. [f \in Files |-> <<>>] \in [Files -> Pages]
      /\ \A f \in Files : TextsIn([g \in Files |-> <<>>][f]) \subseteq Held(d)
  BY NoTexts
<1> QED BY <1>1, <1>2, EmptyInbox DEF EditorOK, NoEditor, EditorFields, Exited

LEMMA InboxOrphaned ==
  ASSUME NEW q, NEW known, NEW told, InboxOK(q, known, told)
  PROVE  LET q2 == [i \in DOMAIN q |-> [q[i] EXCEPT !.orphan = TRUE]]
         IN  InboxOK(q2, known, told) /\ Silent(q2)
<1> DEFINE q2 == [i \in DOMAIN q |-> [q[i] EXCEPT !.orphan = TRUE]]
<1>1. Len(q) \in Nat /\ DOMAIN q = 1..Len(q) /\ \A i \in 1..Len(q) : q[i] \in Requests
  BY ElementOfSeq DEF InboxOK
<1>2. \A i \in 1..Len(q) : /\ q2[i] \in Requests /\ q2[i].orphan
                           /\ q2[i].op = q[i].op /\ q2[i].file = q[i].file /\ q2[i].text = q[i].text
  BY <1>1 DEF Requests
<1>3. q2 \in [1..Len(q) -> Requests]
  BY <1>1, <1>2
<1> HIDE DEF q2
<1>4. q2 \in Seq(Requests) /\ Len(q2) = Len(q)
  BY <1>1, <1>3, IsASeq, LenProperties
<1> QED BY <1>2, <1>4 DEF InboxOK, Silent, Quiet, q2

LEMMA InboxSent ==
  ASSUME NEW q, NEW known, NEW told, InboxOK(q, known, told), NEW r \in Requests,
         r.file \in known, r.op = "append" => r.text \in told
  PROVE  LET q2 == Append(q, r)
         IN  /\ InboxOK(q2, known, told) /\ Len(q2) = Len(q) + 1 /\ q2[Len(q2)] = r
             /\ \A i \in 1..Len(q) : q2[i] = q[i]
BY AppendProperties DEF InboxOK

LEMMA InboxPopped ==
  ASSUME NEW q, q # <<>>, NEW known, NEW told, InboxOK(q, known, told)
  PROVE  LET q2 == Tail(q)
         IN  /\ InboxOK(q2, known, told) /\ Len(q2) = Len(q) - 1 /\ Len(q2) \in Nat
             /\ \A i \in 1..Len(q2) : i + 1 \in 1..Len(q) /\ q2[i] = q[i + 1]
             /\ Head(q) = q[1] /\ 1 \in 1..Len(q) /\ Head(q) \in Requests
BY HeadTailProperties, EmptySeq DEF InboxOK

(* What a request, an answer and a change of its own leave of an editor. *)

LEMMA SentEditor ==
  ASSUME NEW d, NEW told, NEW e, EditorOK(e, d, told), NEW r \in Requests,
         r.file \in Known(d), r.op = "append" => r.text \in told
  PROVE  /\ EditorOK(Sent(e, r), d, told) /\ Sent(e, r).st = e.st
         /\ Len(Sent(e, r).inbox) = Len(e.inbox) + 1
         /\ Sent(e, r).inbox[Len(e.inbox) + 1] = r
         /\ \A i \in 1..Len(e.inbox) : Sent(e, r).inbox[i] = e.inbox[i]
<1>1. InboxOK(e.inbox, Known(d), told)
  BY DEF EditorOK
<1>2. LET q2 == Append(e.inbox, r)
      IN  /\ InboxOK(q2, Known(d), told) /\ Len(q2) = Len(e.inbox) + 1 /\ q2[Len(q2)] = r
          /\ \A i \in 1..Len(e.inbox) : q2[i] = e.inbox[i]
  BY <1>1, InboxSent
<1> QED BY <1>2 DEF EditorOK, Sent, EditorFields

LEMMA OrphanedEditor ==
  ASSUME NEW d, NEW told, NEW e, EditorOK(e, d, told)
  PROVE  EditorOK(Orphaned(e), d, told) /\ Silent(Orphaned(e).inbox) /\ Orphaned(e).st = e.st
<1>1. InboxOK(e.inbox, Known(d), told)
  BY DEF EditorOK
<1> DEFINE q2 == [i \in DOMAIN e.inbox |-> [e.inbox[i] EXCEPT !.orphan = TRUE]]
<1>2. InboxOK(q2, Known(d), told) /\ Silent(q2)
  BY <1>1, InboxOrphaned
<1>3. Orphaned(e) = [e EXCEPT !.inbox = q2]
  BY DEF Orphaned
<1> HIDE DEF q2
<1> QED BY <1>2, <1>3 DEF EditorOK, EditorFields

Answering(e) == [e EXCEPT !.inbox = Tail(@)]

TookHead(q, q2) ==
  /\ Len(q) \in Nat /\ 1 \in 1..Len(q) /\ Len(q2) = Len(q) - 1
  /\ \A i \in 1..Len(q2) : i + 1 \in 1..Len(q) /\ q2[i] = q[i + 1]

LEMMA PoppedEditor ==
  ASSUME NEW d, NEW told, NEW e, EditorOK(e, d, told), e.inbox # <<>>
  PROVE  /\ EditorOK(Answering(e), d, told) /\ Answering(e).st = e.st
         /\ Answering(e).pinned = e.pinned /\ Answering(e).loaded = e.loaded
         /\ Answering(e).text = e.text /\ Answering(e).last = e.last
         /\ Answering(e).inbox = Tail(e.inbox)
         /\ TookHead(e.inbox, Tail(e.inbox))
         /\ Head(e.inbox) = e.inbox[1]
         /\ Head(e.inbox) \in Requests /\ Head(e.inbox).file \in Known(d)
         /\ Head(e.inbox).op = "append" => Head(e.inbox).text \in told
<1>1. InboxOK(e.inbox, Known(d), told)
  BY DEF EditorOK
<1>2. LET q2 == Tail(e.inbox)
      IN  /\ InboxOK(q2, Known(d), told) /\ Len(q2) = Len(e.inbox) - 1 /\ Len(q2) \in Nat
          /\ \A i \in 1..Len(q2) : i + 1 \in 1..Len(e.inbox) /\ q2[i] = e.inbox[i + 1]
          /\ Head(e.inbox) = e.inbox[1] /\ 1 \in 1..Len(e.inbox) /\ Head(e.inbox) \in Requests
  BY <1>1, InboxPopped
<1>3. Head(e.inbox).file \in Known(d)
      /\ (Head(e.inbox).op = "append" => Head(e.inbox).text \in told)
  BY <1>1, <1>2 DEF InboxOK
<1>4. Len(e.inbox) \in Nat
  BY <1>1 DEF InboxOK
<1>5. TookHead(e.inbox, Tail(e.inbox))
  BY <1>2, <1>4 DEF TookHead
<1>6. /\ EditorOK(Answering(e), d, told) /\ Answering(e).st = e.st
      /\ Answering(e).pinned = e.pinned /\ Answering(e).loaded = e.loaded
      /\ Answering(e).text = e.text /\ Answering(e).last = e.last
      /\ Answering(e).inbox = Tail(e.inbox)
  BY <1>2 DEF EditorOK, EditorFields, Answering
<1> QED BY <1>2, <1>3, <1>5, <1>6

(* It reads a file, which may be gone. *)
Read(e, d, file) == [e EXCEPT !.text[file] = IF file \in d.there THEN d.holds[file] ELSE <<>>]

LEMMA ReadText ==
  ASSUME NEW d, DirectoryOK(d), NEW text \in [Files -> Pages], NEW file,
         \A f \in Files : TextsIn(text[f]) \subseteq Held(d),
         NEW text2, text2 = [text EXCEPT ![file] = IF file \in d.there THEN d.holds[file] ELSE <<>>]
  PROVE  text2 \in [Files -> Pages] /\ \A f \in Files : TextsIn(text2[f]) \subseteq Held(d)
<1> DEFINE page == IF file \in d.there THEN d.holds[file] ELSE <<>>
<1>1. page \in Pages /\ TextsIn(page) \subseteq Held(d)
  BY NoTexts, HeldTexts DEF DirectoryOK
<1>2. text2 = [text EXCEPT ![file] = page]
  OBVIOUS
<1> HIDE DEF page
<1> QED BY <1>1, <1>2

LEMMA ReadyEditor ==
  ASSUME NEW d, DirectoryOK(d), NEW told, NEW e, EditorOK(e, d, told)
  PROVE  EditorOK(Ready(e, d), d, told) /\ Ready(e, d).inbox = e.inbox /\ Ready(e, d).st = "up"
<1> DEFINE text2 == [e.text EXCEPT ![e.start] = IF e.start \in d.there THEN d.holds[e.start] ELSE <<>>]
<1>1. text2 \in [Files -> Pages] /\ \A f \in Files : TextsIn(text2[f]) \subseteq Held(d)
  BY ReadText DEF EditorOK
<1>2. /\ DOMAIN Ready(e, d) = EditorFields /\ Ready(e, d).text = text2
      /\ Ready(e, d).loaded = {e.start} /\ Ready(e, d).start = e.start
      /\ Ready(e, d).pinned = e.pinned /\ Ready(e, d).last = e.last
      /\ Ready(e, d).inbox = e.inbox /\ Ready(e, d).st = "up"
  BY DEF Ready, EditorOK, EditorFields
<1> HIDE DEF text2
<1> QED BY <1>1, <1>2 DEF EditorOK

LEMMA OpenedEditor ==
  ASSUME NEW d, DirectoryOK(d), NEW told, NEW e, EditorOK(e, d, told), NEW file \in Known(d)
  PROVE  /\ EditorOK(Opened(e, d, file), d, told) /\ Opened(e, d, file).inbox = e.inbox
         /\ Opened(e, d, file).st = e.st
<1> DEFINE text2 == [e.text EXCEPT ![file] = IF file \in d.there THEN d.holds[file] ELSE <<>>]
<1>1. text2 \in [Files -> Pages] /\ \A f \in Files : TextsIn(text2[f]) \subseteq Held(d)
  BY ReadText DEF EditorOK
<1> DEFINE e2 == Opened(e, d, file)
<1>2. /\ DOMAIN e2 = EditorFields /\ e2.text = text2 /\ e2.st = e.st
      /\ e2.loaded = e.loaded \cup {file} /\ e2.start = e.start
      /\ e2.pinned = e.pinned /\ e2.last = e.last /\ e2.inbox = e.inbox
  BY DEF Opened, EditorOK, EditorFields
<1> HIDE DEF text2, e2
<1> QED BY <1>1, <1>2 DEF EditorOK, e2

LEMMA SetUpEditor ==
  ASSUME NEW d, NEW told, NEW e, EditorOK(e, d, told), NEW file \in Known(d)
  PROVE  EditorOK(SetUp(e, file), d, told) /\ SetUp(e, file).inbox = e.inbox /\ SetUp(e, file).st = e.st
BY DEF SetUp, EditorOK, EditorFields

LEMMA PushedEditor ==
  ASSUME NEW d, NEW told, NEW e, EditorOK(e, d, told), NEW words, NEW continued
  PROVE  EditorOK(Pushed(e, words, continued), d, told) /\ Pushed(e, words, continued).inbox = e.inbox
         /\ Pushed(e, words, continued).st = e.st
BY DEF Pushed, EditorOK, EditorFields

LEMMA StagedEditor ==
  ASSUME NEW d, NEW told, NEW e, EditorOK(e, d, told), NEW st
  PROVE  /\ EditorOK([e EXCEPT !.st = st], d, told) /\ [e EXCEPT !.st = st].inbox = e.inbox
         /\ [e EXCEPT !.st = st].st = st
BY DEF EditorOK, EditorFields

LEMMA HangingEditor ==
  ASSUME NEW d, NEW told, NEW e, EditorOK(e, d, told), NEW hang
  PROVE  /\ EditorOK([e EXCEPT !.hang = hang], d, told) /\ [e EXCEPT !.hang = hang].inbox = e.inbox
         /\ [e EXCEPT !.hang = hang].st = e.st
BY DEF EditorOK, EditorFields

LEMMA UnloadedEditor ==
  ASSUME NEW d, NEW told, NEW e, EditorOK(e, d, told), NEW S
  PROVE  /\ EditorOK([e EXCEPT !.loaded = @ \ S], d, told)
         /\ [e EXCEPT !.loaded = @ \ S].inbox = e.inbox
         /\ [e EXCEPT !.loaded = @ \ S].st = e.st
BY DEF EditorOK, EditorFields

(* An append that is written: the file gains the text, whether it was there
   or not, and the buffer is what it holds. *)
LEMMA AppendedEditor ==
  ASSUME NEW d, DirectoryOK(d), NEW told, NEW e, EditorOK(e, d, told),
         Pinned(e) # None, ~Stale(e, d), NEW text \in Nat, NEW continued,
         NEW d2, d2 = Overwrite(d, Pinned(e), Landed(e.text[Pinned(e)], text, continued))
  PROVE  /\ Gains(d, d2, text) /\ EditorOK(Appended(e, text, continued), d2, told)
         /\ Appended(e, text, continued).inbox = e.inbox
         /\ Appended(e, text, continued).st = e.st
<1> DEFINE p == Pinned(e)
           pages == Landed(e.text[p], text, continued)
           e2 == Appended(e, text, continued)
<1>0. d.next \in Nat /\ d.next <= MaxFiles + 1
  BY FilesAssumption DEF DirectoryOK
<1>1. p = e.pinned /\ p \in Files /\ p < d.next /\ e.text[p] \in Pages
      /\ TextsIn(e.text[p]) \subseteq Held(d)
  BY <1>0, FilesAssumption DEF Pinned, EditorOK, Known, Files, None
<1>2. pages \in Pages /\ TextsIn(pages) = TextsIn(e.text[p]) \cup {text}
  BY <1>1, LandedTexts
<1>3. p \in d.there => d.holds[p] = e.text[p]
  BY DEF Stale
<1>4. d2 = Overwrite(d, p, pages)
  OBVIOUS
<1>5. e2 = [e EXCEPT !.text = [e.text EXCEPT ![p] = pages], !.last = <<text, p>>, !.preview = NoPreview]
  BY <1>1 DEF Appended, EditorOK, EditorFields
<1> HIDE DEF p, pages, e2
<1>6. /\ DirectoryOK(d2) /\ d2.next = d.next /\ d2.pointer = d.pointer
      /\ Held(d2) = Held(d) \cup TextsIn(pages)
  <2>1. p \in d.there => TextsIn(d.holds[p]) \subseteq TextsIn(pages)
    BY <1>2, <1>3
  <2> QED BY <1>1, <1>2, <1>4, <2>1, Overwritten
<1>7. Held(d2) = Held(d) \cup {text}
  BY <1>1, <1>2, <1>6
<1>8. Gains(d, d2, text)
  BY <1>0, <1>6, <1>7 DEF Gains
<1>9. EditorOK(e, d2, told)
  BY <1>0, <1>6, <1>7, EditorStays
<1>10. /\ DOMAIN e2 = EditorFields /\ e2.text = [e.text EXCEPT ![p] = pages]
       /\ e2.last = <<text, p>> /\ e2.start = e.start /\ e2.pinned = e.pinned
       /\ e2.loaded = e.loaded /\ e2.inbox = e.inbox /\ e2.st = e.st
  BY <1>5 DEF EditorOK, EditorFields
<1>11. /\ e2.text \in [Files -> Pages]
       /\ \A f \in Files : TextsIn(e2.text[f]) \subseteq Held(d2)
  <2>1. TextsIn(pages) \subseteq Held(d2) /\ e.text \in [Files -> Pages]
        /\ \A f \in Files : TextsIn(e.text[f]) \subseteq Held(d2)
    BY <1>6, <1>9 DEF EditorOK
  <2> QED BY <1>2, <1>10, <2>1
<1>12. e2.last[1] \in Held(d2) \cup {None}
  BY <1>7, <1>10
<1>13. EditorOK(e2, d2, told)
  BY <1>9, <1>10, <1>11, <1>12 DEF EditorOK
<1> QED BY <1>8, <1>10, <1>13 DEF e2, pages, p

-----------------------------------------------------------------------------
(* The thread.  It waits for one answer of one editor at most; where it is in
   an item tells whether that is a text. *)

ThreadFields ==
  {"pc", "mode", "ctx", "conn", "target", "guard", "marker", "paragraph", "indicator",
   "shown", "closed", "attached", "continued", "doubt", "reply"}

Asking == {"reload", "probe", "clearing", "asked", "editing", "setup", "stopping"}
Ensuring == Asking \cup {"check", "pinned", "weigh", "weighed", "open", "opening", "awaiting"}
Delivering == {"append", "deliver", "appending", "again", "repeating", "passage"}
Confirming == {"appending", "repeating"}
Resting == {"next", "done"}

(* Whether the item it is at is a text. *)
ItemFits(h, text) ==
  /\ h.pc \in Delivering \/ (h.pc \in Ensuring /\ h.ctx # "press") => text
  /\ h.pc \in {"ensure", "show", "copy", "copying", "quit"}
       \/ (h.pc \in Ensuring /\ h.ctx = "press") => ~text

ThreadOK(h, d, text) ==
  /\ DOMAIN h = ThreadFields
  /\ h.ctx \in {"press", "text", "retry"}
  /\ DOMAIN h.target = {"ed", "file"} /\ h.target.file \in Known(d) /\ h.guard \in Known(d)
  /\ DOMAIN h.indicator = {"u", "words"} /\ h.indicator.words \subseteq Nat
  /\ h.continued \in BOOLEAN
  /\ ItemFits(h, text)
  /\ h.pc \in Asking => h.conn.ed = None
  /\ h.pc \in Patient => h.conn.ed # None
  /\ h.reply.got => h.pc \in Waiting

PeerOf(h) == IF h.conn.ed # None THEN h.conn.ed ELSE h.target.ed

(* The request whose answer the thread waits for is the last its peer was sent. *)
Awaited(h, e, n, i, item) ==
  /\ h.pc \in Waiting /\ ~h.reply.got /\ n = PeerOf(h) /\ i = Len(e[n].inbox)
  /\ h.pc = "asked" => Live(e[n])
  /\ h.pc \in Confirming => e[n].inbox[i].op = "append" /\ e[n].inbox[i].text = item

OneAsked(h, e, item) ==
  \A n \in Editors : \A i \in 1..Len(e[n].inbox) :
    Quiet(e[n].inbox[i]) \/ Awaited(h, e, n, i, item)

(* A confirmed text is in a file. *)
Confirms(h, d, item) ==
  h.pc \in Confirming /\ h.reply.got /\ h.reply.ok => item \in Held(d)

AllSilent(e) == \A n \in Editors : Silent(e[n].inbox)

LEMMA SilentWhenIdle ==
  ASSUME NEW h, NEW e, NEW item, OneAsked(h, e, item), h.pc \notin Waiting \/ h.reply.got
  PROVE  AllSilent(e)
BY DEF OneAsked, Awaited, AllSilent, Silent

LEMMA SilentWhenGivenUp ==
  ASSUME NEW h, NEW e, NEW e2, NEW item, OneAsked(h, e, item),
         \A n \in Editors : Silent(e2[n].inbox) \/ (n # PeerOf(h) /\ e2[n] = e[n])
  PROVE  AllSilent(e2)
BY DEF OneAsked, Awaited, AllSilent, Silent

LEMMA SilentAsksNothing ==
  ASSUME NEW h, NEW e, NEW item, AllSilent(e)
  PROVE  OneAsked(h, e, item)
BY DEF OneAsked, AllSilent, Silent

Posted(e, p, r) == [e EXCEPT ![p] = Sent(@, r)]

WasSent(e, e2, p, r) ==
  /\ \A n \in Editors : n # p => e2[n] = e[n]
  /\ Len(e[p].inbox) \in Nat /\ Len(e2[p].inbox) = Len(e[p].inbox) + 1
  /\ e2[p].inbox[Len(e[p].inbox) + 1] = r
  /\ \A i \in 1..Len(e[p].inbox) : e2[p].inbox[i] = e[p].inbox[i]

LEMMA AskedOne ==
  ASSUME NEW h, NEW e, NEW e2, NEW item, AllSilent(e), NEW p \in Editors, NEW r,
         WasSent(e, e2, p, r),
         h.pc \in Waiting, ~h.reply.got, p = PeerOf(h), h.pc = "asked" => Live(e2[p]),
         h.pc \in Confirming => r.op = "append" /\ r.text = item
  PROVE  OneAsked(h, e2, item)
<1> SUFFICES ASSUME NEW n \in Editors, NEW i \in 1..Len(e2[n].inbox)
             PROVE  Quiet(e2[n].inbox[i]) \/ Awaited(h, e2, n, i, item)
  BY DEF OneAsked
<1>1. CASE n # p
  BY <1>1 DEF AllSilent, Silent, WasSent
<1>2. CASE n = p /\ i \in 1..Len(e[p].inbox)
  BY <1>2 DEF AllSilent, Silent, WasSent
<1>3. CASE n = p /\ i = Len(e[p].inbox) + 1
  BY <1>3 DEF Awaited, WasSent
<1> QED BY <1>1, <1>2, <1>3 DEF WasSent

(* The editors go on: nobody is asked anything, and one that goes away
   answers nothing. *)
LEMMA OneAskedStill ==
  ASSUME NEW h, NEW e, NEW e2, NEW item, OneAsked(h, e, item),
         \A n \in Editors : Silent(e2[n].inbox) \/ (e2[n].inbox = e[n].inbox /\ (Live(e[n]) => Live(e2[n])))
  PROVE  OneAsked(h, e2, item)
BY DEF OneAsked, Awaited, Silent

(* It takes a request off its queue: one nobody waits for, or the only one. *)
LEMMA TookRequest ==
  ASSUME NEW h, NEW e, NEW e2, NEW item, OneAsked(h, e, item), NEW p \in Editors,
         \A n \in Editors : n # p => e2[n] = e[n], e2[p].st = e[p].st,
         TookHead(e[p].inbox, e2[p].inbox)
  PROVE  /\ Quiet(e[p].inbox[1]) => OneAsked(h, e2, item)
         /\ ~Quiet(e[p].inbox[1]) =>
              AllSilent(e2) /\ Awaited(h, e, p, 1, item)
<1>0. /\ 1 \in 1..Len(e[p].inbox) /\ Len(e[p].inbox) \in Nat
      /\ Len(e2[p].inbox) = Len(e[p].inbox) - 1
      /\ \A i \in 1..Len(e2[p].inbox) : i + 1 \in 1..Len(e[p].inbox) /\ e2[p].inbox[i] = e[p].inbox[i + 1]
  BY DEF TookHead
<1>1. ASSUME Quiet(e[p].inbox[1]) PROVE OneAsked(h, e2, item)
  <2> SUFFICES ASSUME NEW n \in Editors, NEW i \in 1..Len(e2[n].inbox), ~Quiet(e2[n].inbox[i])
               PROVE  Awaited(h, e2, n, i, item)
    BY DEF OneAsked
  <2>1. CASE n # p
    BY <2>1 DEF OneAsked, Awaited
  <2>2. CASE n = p
    <3>1. i + 1 \in 1..Len(e[p].inbox) /\ e2[p].inbox[i] = e[p].inbox[i + 1]
      BY <1>0, <2>2
    <3>2. Awaited(h, e, p, i + 1, item)
      BY <2>2, <3>1 DEF OneAsked
    <3> QED BY <1>0, <2>2, <3>1, <3>2 DEF Awaited, Live
  <2> QED BY <2>1, <2>2
<1>2. ASSUME ~Quiet(e[p].inbox[1]) PROVE AllSilent(e2) /\ Awaited(h, e, p, 1, item)
  <2>1. Awaited(h, e, p, 1, item)
    BY <1>0, <1>2 DEF OneAsked
  <2>2. Len(e[p].inbox) = 1 /\ Len(e2[p].inbox) = 0 /\ p = PeerOf(h)
    BY <1>0, <2>1 DEF Awaited
  <2>3. Silent(e2[p].inbox)
    BY <2>2 DEF Silent
  <2> QED BY <2>1, <2>2, <2>3, SilentWhenGivenUp
<1> QED BY <1>1, <1>2

EditorsOK(e, d, told) == DOMAIN e = Editors /\ \A n \in Editors : EditorOK(e[n], d, told)

LEMMA EditorsStay ==
  ASSUME NEW d, NEW d2, DirectoryOK(d), DirectoryOK(d2), d.next <= d2.next,
         Held(d) \subseteq Held(d2), NEW told, NEW told2, told \subseteq told2,
         NEW e, EditorsOK(e, d, told)
  PROVE  EditorsOK(e, d2, told2)
BY EditorStays DEF EditorsOK

LEMMA ThreadStays ==
  ASSUME NEW d, NEW d2, DirectoryOK(d), DirectoryOK(d2), d.next <= d2.next,
         NEW h, NEW text, ThreadOK(h, d, text)
  PROVE  ThreadOK(h, d2, text)
<1>1. Known(d) \subseteq Known(d2)
  BY KnownGrows
<1> QED BY <1>1 DEF ThreadOK

(* `ensure` ends: the thread goes on to what it was ensured for. *)
LEMMA EnsureEnds ==
  ASSUME NEW d, DirectoryOK(d), NEW h, NEW text \in BOOLEAN, ThreadOK(h, d, text),
         h.pc \in Ensuring, NEW conn,
         NEW g, g \in {AfterEnsure(h), Adopt(h, conn)}
  PROVE  /\ ThreadOK(g, d, text) /\ g.pc \notin Waiting /\ ~g.reply.got
         /\ g.pc \in Resting => ~text
<1>0. None \in Known(d)
  BY KnownGrows, FilesAssumption DEF DirectoryOK
<1>2. /\ DOMAIN g = ThreadFields /\ g.ctx = h.ctx /\ g.target = NoConn /\ g.guard = None
      /\ g.indicator = h.indicator /\ g.continued = h.continued /\ g.reply = NoReply
      /\ g.pc = CASE h.ctx = "press" -> "next" [] h.ctx = "text" -> "deliver"
                  [] h.ctx = "retry" -> "again"
  <2>1. CASE g = AfterEnsure(h)
    BY <2>1 DEF AfterEnsure, ThreadOK, ThreadFields
  <2>2. CASE g = Adopt(h, conn)
    BY <2>2 DEF AfterEnsure, Adopt, ThreadOK, ThreadFields
  <2> QED BY <2>1, <2>2
<1>3. g.pc \in {"next", "deliver", "again"} /\ (g.pc = "next" <=> h.ctx = "press")
  BY <1>2 DEF ThreadOK
<1>4. g.pc \notin Waiting /\ g.pc \notin Patient /\ g.pc \notin Asking /\ ~g.reply.got
      /\ g.pc \notin Ensuring
  <2>1. ~g.reply.got
    BY <1>2 DEF NoReply
  <2> QED BY <1>3, <2>1 DEF Waiting, Patient, Asking, Ensuring
<1>5. ItemFits(g, text) /\ (g.pc \in Resting => ~text)
  BY <1>2, <1>3, <1>4 DEF ItemFits, ThreadOK, Delivering, Resting
<1>6. DOMAIN g.target = {"ed", "file"} /\ g.target.file = None
  BY <1>2 DEF NoConn
<1>7. ThreadOK(g, d, text)
  BY <1>0, <1>2, <1>4, <1>5, <1>6 DEF ThreadOK
<1> QED BY <1>4, <1>5, <1>7

(* What the window shows, and whose it is, is nothing to a text. *)
Showing(h, shown, attached) ==
  {h, [h EXCEPT !.shown = shown], [h EXCEPT !.attached = attached],
   [h EXCEPT !.attached = attached, !.shown = shown]}

LEMMA ThreadShows ==
  ASSUME NEW d, NEW h, NEW text, ThreadOK(h, d, text), NEW shown, NEW attached,
         NEW g, g \in Showing(h, shown, attached)
  PROVE  ThreadOK(g, d, text) /\ g.pc = h.pc /\ g.reply = h.reply
<1>1. CASE g = h
  BY <1>1
<1>2. CASE g = [h EXCEPT !.shown = shown]
  BY <1>2 DEF ThreadOK, ThreadFields, ItemFits
<1>3. CASE g = [h EXCEPT !.attached = attached]
  BY <1>3 DEF ThreadOK, ThreadFields, ItemFits
<1>4. CASE g = [h EXCEPT !.attached = attached, !.shown = shown]
  BY <1>4 DEF ThreadOK, ThreadFields, ItemFits
<1> QED BY <1>1, <1>2, <1>3, <1>4 DEF Showing

-----------------------------------------------------------------------------
(* The invariant. *)

Taken == {t \in Appends : t <= taken}

EditorInv ==
  /\ script \in Scripts /\ taken \in Nat /\ sent \in Nat /\ taken <= sent /\ sent <= Len(script)
  /\ DirectoryOK(fs)
  /\ ThreadOK(th, fs, taken \in Appends)
  /\ EditorsOK(ed, fs, Taken)
  /\ OneAsked(th, ed, taken)
  /\ Confirms(th, fs, taken)
  /\ DOMAIN tool = {"pc", "file", "marker", "took"} /\ tool.file \in Known(fs)
  /\ DOMAIN hist = {"lost", "doubted", "userClosed", "blind", "shared"}
  /\ TextLands

Stutter == UNCHANGED <<{t \in Appends : t <= sent}, Settled, OnDisk, hist.lost>>

(* A step that settles nothing and writes nothing. *)
LEMMA Rests ==
  ASSUME EditorInv, UNCHANGED <<script, sent, taken>>, Grows(fs, fs'),
         ThreadOK(th', fs', taken \in Appends), EditorsOK(ed', fs', Taken),
         OneAsked(th', ed', taken), Confirms(th', fs', taken),
         DOMAIN tool' = DOMAIN tool, tool'.file \in Known(fs'),
         DOMAIN hist' = DOMAIN hist, hist'.lost = hist.lost,
         (th.pc \in Resting <=> th'.pc \in Resting) \/ taken \notin Appends
  PROVE  EditorInv' /\ Stutter
<1>1. Appends' = Appends
  BY DEF Appends
<1>2. OnDisk' = OnDisk /\ OnDisk = Held(fs)
  BY DEF Grows, OnDisk, Held
<1>3. Settled' = Settled
  BY <1>1 DEF Settled, Resting
<1>4. TextLands'
  BY <1>2, <1>3 DEF EditorInv, TextLands
<1>5. Taken' = Taken /\ DirectoryOK(fs')
  BY <1>1 DEF Taken, Grows
<1>6. EditorInv'
  BY <1>1, <1>4, <1>5 DEF EditorInv
<1> QED BY <1>1, <1>2, <1>3, <1>6 DEF Stutter

(* The thread waits for nothing after a step. *)
LEMMA Idles ==
  ASSUME EditorInv, UNCHANGED <<script, sent, taken, tool>>, Grows(fs, fs'),
         DOMAIN hist' = DOMAIN hist, hist'.lost = hist.lost,
         ThreadOK(th', fs', taken \in Appends), th'.pc \notin Waiting,
         EditorsOK(ed', fs, Taken), AllSilent(ed'),
         (th.pc \in Resting <=> th'.pc \in Resting) \/ taken \notin Appends
  PROVE  EditorInv' /\ Stutter
<1>1. DirectoryOK(fs) /\ DirectoryOK(fs') /\ fs.next <= fs'.next /\ Held(fs) = Held(fs')
  BY DEF EditorInv, Grows
<1>2. EditorsOK(ed', fs', Taken)
  BY <1>1, EditorsStay
<1>3. OneAsked(th', ed', taken)
  BY SilentAsksNothing
<1>4. Confirms(th', fs', taken)
  BY DEF Confirms, Confirming, Waiting, Patient
<1>5. tool'.file \in Known(fs')
  BY <1>1, KnownGrows DEF EditorInv
<1> QED BY <1>2, <1>3, <1>4, <1>5, Rests

(* The thread asks an editor, and waits for its answer. *)
LEMMA Asks ==
  ASSUME EditorInv, UNCHANGED <<script, sent, taken, tool>>, Grows(fs, fs'),
         DOMAIN hist' = DOMAIN hist, hist'.lost = hist.lost,
         ThreadOK(th', fs', taken \in Appends), th'.pc \in Waiting, ~th'.reply.got,
         AllSilent(ed), NEW p, p = PeerOf(th'), NEW r \in Requests,
         r.file \in Known(fs'), r.op = "append" => r.text \in Taken,
         ed' = Posted(ed, p, r),
         th'.pc = "asked" => Live(ed[p]),
         th'.pc \in Confirming => r.op = "append" /\ r.text = taken,
         th.pc \notin Resting
  PROVE  EditorInv' /\ Stutter
<1>1. DirectoryOK(fs) /\ DirectoryOK(fs') /\ fs.next <= fs'.next /\ Held(fs) = Held(fs')
  BY DEF EditorInv, Grows
<1>2. EditorsOK(ed, fs', Taken)
  BY <1>1, EditorsStay DEF EditorInv
<1>3. DOMAIN ed' = Editors /\ \A n \in Editors : n # p => ed'[n] = ed[n]
  BY <1>2 DEF EditorsOK, Posted
<1>4. ASSUME p \in Editors PROVE EditorsOK(ed', fs', Taken) /\ OneAsked(th', ed', taken)
  <2>1. /\ EditorOK(ed'[p], fs', Taken) /\ ed'[p].st = ed[p].st
        /\ Len(ed'[p].inbox) = Len(ed[p].inbox) + 1 /\ ed'[p].inbox[Len(ed[p].inbox) + 1] = r
        /\ \A i \in 1..Len(ed[p].inbox) : ed'[p].inbox[i] = ed[p].inbox[i]
    BY <1>2, <1>4, SentEditor DEF EditorsOK, Posted
  <2>2. EditorsOK(ed', fs', Taken)
    BY <1>2, <1>3, <2>1 DEF EditorsOK
  <2>3. Len(ed[p].inbox) \in Nat
    BY <1>2, <1>4 DEF EditorsOK, EditorOK, InboxOK
  <2>4. th'.pc = "asked" => Live(ed'[p])
    BY <2>1 DEF Live
  <2>5. WasSent(ed, ed', p, r)
    BY <1>3, <2>1, <2>3 DEF WasSent
  <2>6. OneAsked(th', ed', taken)
    BY <1>4, <2>4, <2>5, AskedOne
  <2> QED BY <2>2, <2>6
<1>5. ASSUME p \notin Editors PROVE EditorsOK(ed', fs', Taken) /\ OneAsked(th', ed', taken)
  <2>1. \A n \in Editors : ed'[n] = ed[n]
    BY <1>3, <1>5
  <2>2. EditorsOK(ed', fs', Taken)
    BY <1>2, <1>3, <2>1 DEF EditorsOK
  <2>3. AllSilent(ed')
    BY <2>1 DEF AllSilent
  <2> QED BY <2>2, <2>3, SilentAsksNothing
<1>7. Confirms(th', fs', taken)
  BY DEF Confirms
<1>8. tool'.file \in Known(fs')
  BY <1>1, KnownGrows DEF EditorInv
<1>9. th'.pc \notin Resting
  BY DEF Waiting, Patient, Resting
<1> QED BY <1>4, <1>5, <1>7, <1>8, <1>9, Rests

LEMMA RequestKinds ==
  /\ \A r \in {QueryRequest, CopyRequest, QuitRequest} :
       r \in Requests /\ r.file = None /\ r.op # "append"
  /\ \A f \in Nat : \A r \in {OpenRequest(f), SetupRequest(f)} :
       r \in Requests /\ r.file = f /\ r.op # "append"
  /\ \A t \in Nat : \A c \in BOOLEAN :
       /\ AppendRequest(t, c) \in Requests /\ AppendRequest(t, c).file = None
       /\ AppendRequest(t, c).op = "append" /\ AppendRequest(t, c).text = t
  /\ \A w \in SUBSET Nat : \A c \in BOOLEAN :
       /\ PushRequest(w, c) \in Requests /\ PushRequest(w, c).file = None
       /\ PushRequest(w, c).op = "push"
<1>2. None \in Nat
  BY DEF None
<1>3. \A r \in {QueryRequest, CopyRequest, QuitRequest} :
        r \in Requests /\ r.file = None /\ r.op # "append"
  <2>1. QueryRequest \in Requests /\ QueryRequest.file = None /\ QueryRequest.op # "append"
    BY <1>2 DEF QueryRequest, Request, Requests
  <2>2. CopyRequest \in Requests /\ CopyRequest.file = None /\ CopyRequest.op # "append"
    BY <1>2 DEF CopyRequest, Request, Requests
  <2>3. QuitRequest \in Requests /\ QuitRequest.file = None /\ QuitRequest.op # "append"
    BY <1>2 DEF QuitRequest, Request, Requests
  <2> QED BY <2>1, <2>2, <2>3
<1>4. \A f \in Nat : \A r \in {OpenRequest(f), SetupRequest(f)} :
        r \in Requests /\ r.file = f /\ r.op # "append"
  <2> TAKE f \in Nat
  <2>1. OpenRequest(f) \in Requests /\ OpenRequest(f).file = f /\ OpenRequest(f).op # "append"
    BY <1>2 DEF OpenRequest, Request, Requests
  <2>2. SetupRequest(f) \in Requests /\ SetupRequest(f).file = f /\ SetupRequest(f).op # "append"
    BY <1>2 DEF SetupRequest, Request, Requests
  <2> QED BY <2>1, <2>2
<1>5. \A t \in Nat : \A c \in BOOLEAN :
        /\ AppendRequest(t, c) \in Requests /\ AppendRequest(t, c).file = None
        /\ AppendRequest(t, c).op = "append" /\ AppendRequest(t, c).text = t
  BY <1>2 DEF AppendRequest, Request, Requests
<1>6. \A w \in SUBSET Nat : \A c \in BOOLEAN :
        /\ PushRequest(w, c) \in Requests /\ PushRequest(w, c).file = None
        /\ PushRequest(w, c).op = "push"
  BY <1>2 DEF PushRequest, Request, Requests
<1> QED BY <1>3, <1>4, <1>5, <1>6

LEMMA InvFacts ==
  ASSUME EditorInv
  PROVE  /\ DirectoryOK(fs) /\ Grows(fs, fs) /\ None \in Known(fs) /\ Known(fs) \subseteq Nat
         /\ taken \in Nat /\ (taken \in Appends => taken \in Taken)
         /\ \A t \in Taken : t \in Nat
         /\ th.pc \notin Waiting \/ th.reply.got => AllSilent(ed)
<1>1. DirectoryOK(fs) /\ Grows(fs, fs)
  BY PassageMoved, 0 \in Nat DEF EditorInv
<1>2. None \in Known(fs) /\ Known(fs) \subseteq Nat
  BY <1>1, KnownGrows DEF Grows
<1>3. script \in Seq(Items) /\ taken \in Nat
  BY EditorAssumption DEF EditorInv
<1>4. (taken \in Appends => taken \in Taken) /\ \A t \in Taken : t \in Nat
  BY <1>3 DEF Taken, Appends
<1>5. th.pc \notin Waiting \/ th.reply.got => AllSilent(ed)
  BY SilentWhenIdle DEF EditorInv
<1> QED BY <1>1, <1>2, <1>3, <1>4, <1>5

(* The connection goes, and with it what was asked over it. *)
LEMMA DropsConnection ==
  ASSUME EditorInv
  PROVE  /\ EditorsOK(Dropped, fs, Taken)
         /\ th.conn.ed # None \/ th.pc \notin Waiting \/ th.reply.got => AllSilent(Dropped)
<1> DEFINE e2 == Dropped
<1>1. \A n \in Editors : /\ EditorOK(Orphaned(ed[n]), fs, Taken) /\ Silent(Orphaned(ed[n]).inbox)
                         /\ EditorOK(ed[n], fs, Taken)
  BY OrphanedEditor DEF EditorInv, EditorsOK
<1>2. DOMAIN e2 = Editors /\ \A n \in Editors :
        e2[n] = IF n = th.conn.ed THEN Orphaned(ed[n]) ELSE ed[n]
  BY DEF Dropped
<1> HIDE DEF e2
<1>3. EditorsOK(e2, fs, Taken)
  BY <1>1, <1>2 DEF EditorsOK
<1>4. ASSUME th.conn.ed # None PROVE AllSilent(e2)
  <2>1. \A n \in Editors : Silent(e2[n].inbox) \/ (n # PeerOf(th) /\ e2[n] = ed[n])
    BY <1>1, <1>2, <1>4 DEF PeerOf
  <2>2. OneAsked(th, ed, taken)
    BY DEF EditorInv
  <2> QED BY <2>1, <2>2, SilentWhenGivenUp
<1>5. ASSUME th.pc \notin Waiting \/ th.reply.got PROVE AllSilent(e2)
  BY <1>1, <1>2, <1>5, InvFacts DEF AllSilent
<1> QED BY <1>3, <1>4, <1>5 DEF e2

-----------------------------------------------------------------------------
(* The thread's steps. *)

(* Neither the files nor the editors change. *)
LEMMA GoesOn ==
  ASSUME EditorInv, UNCHANGED <<script, sent, taken, ed, fs, tool>>,
         DOMAIN hist' = DOMAIN hist, hist'.lost = hist.lost,
         ThreadOK(th', fs, taken \in Appends), th'.pc \notin Waiting, AllSilent(ed),
         (th.pc \in Resting <=> th'.pc \in Resting) \/ taken \notin Appends
  PROVE  EditorInv' /\ Stutter
<1>1. Grows(fs, fs') /\ EditorsOK(ed', fs, Taken) /\ AllSilent(ed') /\ ThreadOK(th', fs', taken \in Appends)
  BY InvFacts DEF EditorInv
<1> QED BY <1>1, Idles

LEMMA ShowStep == ASSUME EditorInv, Show PROVE EditorInv' /\ Stutter
<1>1. th.pc = "show" /\ taken \notin Appends /\ AllSilent(ed)
  BY InvFacts DEF Show, EditorInv, ThreadOK, ItemFits, Waiting, Patient
<1>2. script \in Seq(Items) /\ \A t \in Appends : t \in Nat
  BY EditorAssumption DEF EditorInv, Appends
<1>3. ThreadOK(th', fs, taken \in Appends) /\ th'.pc = "next"
  BY <1>1, <1>2 DEF Show, EditorInv, ThreadOK, ThreadFields, ItemFits, Delivering, Ensuring, Asking,
     Waiting, Patient
<1> QED BY <1>1, <1>3, GoesOn DEF Show, loopVars, Waiting, Patient

LEMMA EnsurePressStep == ASSUME EditorInv, EnsurePress PROVE EditorInv' /\ Stutter
<1>1. th.pc = "ensure" /\ taken \notin Appends /\ AllSilent(ed)
  BY InvFacts DEF EnsurePress, EditorInv, ThreadOK, ItemFits, Waiting, Patient
<1>2. ThreadOK(th', fs, taken \in Appends) /\ th'.pc \in {"next", "check"}
  BY <1>1 DEF EnsurePress, EditorInv, ThreadOK, ThreadFields, ItemFits, Delivering, Ensuring, Asking,
     Waiting, Patient
<1>3. DOMAIN hist' = DOMAIN hist /\ hist'.lost = hist.lost
  BY DEF EnsurePress, EditorInv
<1> QED BY <1>1, <1>2, <1>3, GoesOn DEF EnsurePress, loopVars, Waiting, Patient

LEMMA AppendTextStep == ASSUME EditorInv, AppendText PROVE EditorInv' /\ Stutter
<1>1. th.pc = "append" /\ taken \in Appends /\ AllSilent(ed)
  BY InvFacts DEF AppendText, EditorInv, ThreadOK, ItemFits, Delivering, Waiting, Patient
<1>2. /\ DOMAIN th'.indicator = {"u", "words"} /\ th'.indicator.words \subseteq Nat
      /\ th'.pc \in {"check", "deliver"} /\ th'.ctx = "text" /\ DOMAIN th' = ThreadFields
      /\ th'.target = th.target /\ th'.guard = th.guard /\ th'.continued = th.continued
      /\ th'.reply = th.reply
  BY DEF AppendText, EditorInv, ThreadOK, ThreadFields, ForgetCommittedPreview
<1>3. ThreadOK(th', fs, taken \in Appends)
  BY <1>1, <1>2 DEF EditorInv, ThreadOK, ItemFits, Delivering, Ensuring, Asking, Waiting, Patient
<1>4. th'.pc \notin Waiting /\ th'.pc \notin Resting /\ th.pc \notin Resting
  BY <1>1, <1>2 DEF Waiting, Patient, Resting
<1> QED BY <1>1, <1>3, <1>4, GoesOn DEF AppendText, loopVars

LEMMA ReconfigureStep == ASSUME EditorInv, Reconfigure PROVE EditorInv' /\ Stutter
<1>1. th.pc = "reload" /\ AllSilent(ed)
  BY InvFacts DEF Reconfigure, Waiting, Patient
<1>2. PICK mode : th' = [th EXCEPT !.pc = "probe", !.mode = mode]
  <2>1. CASE th' = [th EXCEPT !.pc = "probe"]
    <3>1. th' = [th EXCEPT !.pc = "probe", !.mode = th.mode]
      BY <2>1 DEF EditorInv, ThreadOK, ThreadFields
    <3> QED BY <3>1
  <2> QED BY <2>1 DEF Reconfigure
<1>3. /\ ThreadOK(th', fs, taken \in Appends) /\ th'.pc = "probe"
  BY <1>1, <1>2 DEF EditorInv, ThreadOK, ThreadFields, ItemFits, Delivering, Ensuring, Asking,
     Waiting, Patient
<1> QED BY <1>1, <1>3, GoesOn DEF Reconfigure, loopVars, Waiting, Patient, Resting

LEMMA WakeStep == ASSUME EditorInv, Wake PROVE EditorInv' /\ Stutter
<1>1. th.pc = "next" /\ AllSilent(ed)
  BY InvFacts DEF Wake, Waiting, Patient
<1>2. ThreadOK(th', fs, taken \in Appends) /\ th'.pc = "next"
  BY <1>1 DEF Wake, ReportUserClose, EditorInv, ThreadOK, ThreadFields, ItemFits, Delivering,
     Ensuring, Asking, Waiting, Patient
<1>3. EditorsOK(ed', fs, Taken) /\ AllSilent(ed')
  BY <1>1, DropsConnection DEF Wake, ReportUserClose, EditorInv, Waiting, Patient
<1>4. UNCHANGED <<script, sent, taken, tool, fs, hist>>
  BY DEF Wake, loopVars
<1>5. Grows(fs, fs') /\ ThreadOK(th', fs', taken \in Appends)
  BY <1>2, <1>4, InvFacts
<1> QED BY <1>1, <1>2, <1>3, <1>4, <1>5, Idles DEF Waiting, Patient

LEMMA TakeWorkStep == ASSUME EditorInv, TakeWork PROVE EditorInv' /\ Stutter
<1>1. th.pc = "next" /\ AllSilent(ed) /\ taken < sent /\ taken' = taken + 1
  BY InvFacts DEF TakeWork, Waiting, Patient
<1>2. /\ taken \in Nat /\ sent \in Nat /\ taken' \in 1..Len(script) /\ taken' <= sent
      /\ script \in Seq(Items) /\ script[taken'] \in Items /\ taken' \in DOMAIN script
  BY <1>1, EditorAssumption DEF EditorInv
<1>3. th'.pc = script[taken'].op /\ th'.pc \in {"ensure", "append", "show", "copy", "quit"}
  BY <1>1, <1>2 DEF TakeWork, Items, EditorInv, ThreadOK, ThreadFields
<1>4. taken' \in Appends <=> th'.pc = "append"
  BY <1>2, <1>3 DEF Appends
<1>5. ThreadOK(th', fs, taken' \in Appends)
  <2>1. /\ DOMAIN th' = ThreadFields /\ th'.ctx = th.ctx /\ th'.target = th.target
        /\ th'.guard = th.guard /\ th'.indicator = th.indicator
        /\ th'.continued = th.continued /\ th'.reply = th.reply
    BY DEF TakeWork, EditorInv, ThreadOK, ThreadFields
  <2>2. ~th.reply.got
    BY <1>1 DEF EditorInv, ThreadOK, Waiting, Patient
  <2> QED BY <1>3, <1>4, <2>1, <2>2 DEF EditorInv, ThreadOK, ItemFits, Delivering, Ensuring, Asking, Waiting, Patient
<1>6. UNCHANGED <<script, sent, tool, fs, hist>> /\ Appends' = Appends
  BY DEF TakeWork, loopVars, Appends
<1>7. EditorsOK(ed', fs, Taken) /\ AllSilent(ed')
  BY <1>1, DropsConnection DEF TakeWork, EditorInv, Waiting, Patient
<1>8. Taken \subseteq Taken' /\ \A t \in Appends : t \in Nat
  BY <1>1, <1>2, <1>6 DEF Taken, Appends
<1>9. EditorsOK(ed', fs', Taken')
  BY <1>6, <1>7, <1>8, InvFacts, EditorsStay DEF Grows
<1>10. OneAsked(th', ed', taken')
  BY <1>7, SilentAsksNothing
<1>11. Confirms(th', fs', taken')
  BY <1>3 DEF Confirms, Confirming
<1>12. Settled' = Settled
  BY <1>1, <1>2, <1>3, <1>6, <1>8 DEF Settled, Resting
<1>13. TextLands'
  BY <1>6, <1>12 DEF EditorInv, TextLands, OnDisk
<1>14. EditorInv'
  <2>1. DirectoryOK(fs') /\ ThreadOK(th', fs', taken' \in Appends')
        /\ DOMAIN tool' = {"pc", "file", "marker", "took"} /\ tool'.file \in Known(fs')
        /\ DOMAIN hist' = {"lost", "doubted", "userClosed", "blind", "shared"}
    BY <1>5, <1>6 DEF EditorInv
  <2>2. script' \in Scripts /\ taken' \in Nat /\ sent' \in Nat /\ taken' <= sent' /\ sent' <= Len(script')
    BY <1>2, <1>6 DEF EditorInv
  <2> QED BY <1>9, <1>10, <1>11, <1>13, <2>1, <2>2 DEF EditorInv
<1> QED BY <1>6, <1>12, <1>14 DEF Stutter, OnDisk

LEMMA WaitEnds ==
  ASSUME EditorInv, th.pc \in Patient \cup Asking
  PROVE  /\ th.pc \in Patient => th.conn.ed # None
         /\ th.pc \in Asking => th.conn.ed = None
         /\ Failed => ~th.reply.got
BY DEF EditorInv, ThreadOK, Failed, PeerGone, TimedOut, Abandoned, Unanswered

LEMMA ConnectionReached ==
  ASSUME EditorInv, Reachable
  PROVE  th.conn.ed \in Editors /\ th.conn.ed # None /\ Live(ed[th.conn.ed])
BY EditorAssumption DEF Reachable, Editors, None

LEMMA CopyBufferStep == ASSUME EditorInv, CopyBuffer PROVE EditorInv' /\ Stutter
<1>1. th.pc = "copy" /\ taken \notin Appends /\ AllSilent(ed) /\ ~th.reply.got
  BY InvFacts DEF CopyBuffer, EditorInv, ThreadOK, ItemFits, Waiting, Patient
<1>2. UNCHANGED <<script, sent, taken, tool, fs, hist>>
  BY DEF CopyBuffer, loopVars
<1>3. CASE ed' = ed /\ \/ th' = [th EXCEPT !.pc = "next"]
                       \/ th' = [th EXCEPT !.pc = "next", !.conn = NoConn]
  <2>1. /\ DOMAIN th' = ThreadFields /\ th'.pc = "next" /\ th'.ctx = th.ctx /\ th'.target = th.target
        /\ th'.guard = th.guard /\ th'.indicator = th.indicator
        /\ th'.continued = th.continued /\ th'.reply = th.reply
    BY <1>3, ZenonT(40) DEF EditorInv, ThreadOK, ThreadFields
  <2>2. ThreadOK(th', fs, taken \in Appends)
    BY <1>1, <2>1 DEF EditorInv, ThreadOK, ItemFits, Delivering, Ensuring, Asking, Waiting, Patient
  <2> QED BY <1>1, <1>2, <1>3, <2>1, <2>2, GoesOn DEF Waiting, Patient
<1>4. CASE Reachable /\ AskTo(th.conn.ed, CopyRequest) /\ th' = [th EXCEPT !.pc = "copying"]
  <2>1. /\ ThreadOK(th', fs, taken \in Appends) /\ th'.pc = "copying" /\ ~th'.reply.got
        /\ th.conn.ed = PeerOf(th') /\ th.conn.ed \in Editors
    BY <1>1, <1>4, ConnectionReached DEF EditorInv, ThreadOK, ThreadFields, ItemFits, Delivering, Ensuring,
       Asking, Waiting, Patient, PeerOf
  <2>2. Grows(fs, fs') /\ ThreadOK(th', fs', taken \in Appends) /\ None \in Known(fs')
    BY <1>2, <2>1, InvFacts
  <2>3. th'.pc \in Waiting /\ th'.pc \notin Confirming /\ th'.pc # "asked" /\ th.pc \notin Resting
    BY <1>1, <2>1 DEF Waiting, Patient, Confirming, Resting
  <2>4. ed' = Posted(ed, th.conn.ed, CopyRequest)
    BY <1>4 DEF AskTo, Posted
  <2>5. PICK r \in Requests : r = CopyRequest /\ r.file = None /\ r.op # "append"
    BY RequestKinds
  <2> QED BY <1>1, <1>2, <2>1, <2>2, <2>3, <2>4, <2>5, Asks
<1> QED BY <1>3, <1>4 DEF CopyBuffer

LEMMA CopiedStep == ASSUME EditorInv, Copied PROVE EditorInv' /\ Stutter
<1>1. th.pc = "copying" /\ taken \notin Appends
  BY DEF Copied, Answered, EditorInv, ThreadOK, ItemFits
<1>2. UNCHANGED <<script, sent, taken, tool, fs, hist>>
  BY DEF Copied, loopVars
<1>3. /\ DOMAIN th' = ThreadFields /\ th'.pc = "next" /\ th'.ctx = th.ctx /\ th'.target = th.target
      /\ th'.guard = th.guard /\ th'.indicator = th.indicator
      /\ th'.continued = th.continued /\ ~th'.reply.got
  <2>1. CASE th' = [th EXCEPT !.pc = "next", !.reply = NoReply]
    BY <2>1 DEF EditorInv, ThreadOK, ThreadFields, NoReply
  <2>2. CASE th' = [th EXCEPT !.pc = "next", !.conn = NoConn] /\ Failed
    BY <1>1, <2>2, WaitEnds DEF EditorInv, ThreadOK, ThreadFields, Patient
  <2> QED BY <2>1, <2>2 DEF Copied
<1>4. ThreadOK(th', fs, taken \in Appends)
  BY <1>1, <1>3 DEF EditorInv, ThreadOK, ItemFits, Delivering, Ensuring, Asking, Waiting, Patient
<1>5. th'.pc \notin Waiting
  BY <1>3 DEF Waiting, Patient
<1>6. EditorsOK(ed', fs, Taken) /\ AllSilent(ed')
  <2>1. th.conn.ed # None
    BY <1>1 DEF EditorInv, ThreadOK, Patient
  <2> QED BY <2>1, InvFacts, DropsConnection DEF Copied, Answered, EditorInv
<1>7. Grows(fs, fs') /\ ThreadOK(th', fs', taken \in Appends)
  BY <1>2, <1>4, InvFacts
<1> QED BY <1>1, <1>2, <1>5, <1>6, <1>7, Idles

LEMMA SentOne ==
  ASSUME NEW d, NEW told, NEW e, EditorsOK(e, d, told), NEW p, NEW r \in Requests,
         r.file \in Known(d), r.op = "push",
         NEW e2, e2 = Posted(e, p, r)
  PROVE  EditorsOK(e2, d, told) /\ (AllSilent(e) => AllSilent(e2))
<1>1. DOMAIN e2 = Editors /\ \A n \in Editors : n # p => e2[n] = e[n]
  BY DEF EditorsOK, Posted
<1>2. CASE p \in Editors
  <2>1. /\ EditorOK(e2[p], d, told) /\ Len(e2[p].inbox) = Len(e[p].inbox) + 1
        /\ e2[p].inbox[Len(e[p].inbox) + 1] = r
        /\ \A i \in 1..Len(e[p].inbox) : e2[p].inbox[i] = e[p].inbox[i]
    BY <1>2, SentEditor DEF EditorsOK, Posted
  <2>2. Len(e[p].inbox) \in Nat
    BY <1>2 DEF EditorsOK, EditorOK, InboxOK
  <2>3. ASSUME AllSilent(e) PROVE Silent(e2[p].inbox)
    <3>1. Silent(e[p].inbox)
      BY <1>2, <2>3 DEF AllSilent
    <3> SUFFICES ASSUME NEW i \in 1..Len(e2[p].inbox) PROVE Quiet(e2[p].inbox[i])
      BY DEF Silent
    <3>2. CASE i \in 1..Len(e[p].inbox)
      BY <2>1, <3>1, <3>2 DEF Silent
    <3>3. CASE i = Len(e[p].inbox) + 1
      BY <2>1, <3>3 DEF Quiet
    <3> QED BY <2>1, <2>2, <3>2, <3>3
  <2> QED BY <1>1, <2>1, <2>3 DEF EditorsOK, AllSilent
<1>3. CASE p \notin Editors
  BY <1>1, <1>3 DEF EditorsOK, AllSilent
<1> QED BY <1>2, <1>3

LEMMA EndBatchStep == ASSUME EditorInv, EndBatch PROVE EditorInv' /\ Stutter
<1>1. th.pc = "next" /\ AllSilent(ed) /\ ~th.reply.got
  BY InvFacts DEF EndBatch, EditorInv, ThreadOK, Waiting, Patient
<1>2. UNCHANGED <<script, sent, taken, tool, fs, hist>>
  BY DEF EndBatch, loopVars
<1>3. /\ DOMAIN th' = ThreadFields /\ th'.pc = "next" /\ th'.ctx = th.ctx /\ th'.target = th.target
      /\ th'.guard = th.guard /\ th'.indicator = th.indicator
      /\ th'.continued = th.continued /\ th'.reply = th.reply
  BY <1>1, ZenonT(40) DEF EndBatch, EditorInv, ThreadOK, ThreadFields
<1>4. ThreadOK(th', fs, taken \in Appends)
  BY <1>1, <1>3 DEF EditorInv, ThreadOK, ItemFits, Delivering, Ensuring, Asking, Waiting, Patient
<1>5. EditorsOK(ed', fs, Taken) /\ AllSilent(ed')
  <2>1. CASE ed' = ed
    BY <1>1, <2>1 DEF EditorInv
  <2>2. CASE AskTo(th.conn.ed, PushRequest(Placed(th).words, Placed(th).continued))
    <3>1. Placed(th).words \in SUBSET Nat /\ Placed(th).continued \in BOOLEAN
      BY DEF Placed, Continues, EditorInv, ThreadOK
    <3>2. PICK r \in Requests : /\ r = PushRequest(Placed(th).words, Placed(th).continued)
                                /\ r.file = None /\ r.op = "push"
      BY <3>1, RequestKinds
    <3>3. r.file \in Known(fs) /\ ed' = Posted(ed, th.conn.ed, r)
      BY <2>2, <3>2, InvFacts DEF AskTo, Posted
    <3>4. EditorsOK(ed, fs, Taken)
      BY DEF EditorInv
    <3> QED BY <1>1, <3>2, <3>3, <3>4, SentOne
  <2> QED BY <2>1, <2>2 DEF EndBatch
<1>6. Grows(fs, fs') /\ ThreadOK(th', fs', taken \in Appends)
  BY <1>2, <1>4, InvFacts
<1> QED BY <1>1, <1>2, <1>3, <1>5, <1>6, Idles DEF Waiting, Patient, Resting

(* The thread finds itself without an editor. *)
LEMMA LeftUnattached ==
  ASSUME NEW d, DirectoryOK(d), NEW h, NEW text \in BOOLEAN, ThreadOK(h, d, text),
         h.pc \in Ensuring, NEW g, g = Unattached(h)
  PROVE  /\ ThreadOK(g, d, text) /\ g.pc \notin Waiting /\ ~g.reply.got
         /\ g.pc \notin Resting
<1>1. /\ DOMAIN g = ThreadFields /\ g.pc \in {"reload", "probe"} /\ g.ctx = h.ctx /\ g.target = h.target
      /\ g.guard = h.guard /\ g.indicator = h.indicator
      /\ g.continued = h.continued /\ g.reply = NoReply /\ g.conn = NoConn
  BY DEF Unattached, ThreadOK, ThreadFields
<1>2. ~g.reply.got /\ g.conn.ed = None
  BY <1>1 DEF NoReply, NoConn
<1>3. ThreadOK(g, d, text)
  BY <1>1, <1>2 DEF ThreadOK, ItemFits, Delivering, Ensuring, Asking, Waiting, Patient
<1> QED BY <1>1, <1>2, <1>3 DEF Waiting, Patient, Resting

LEMMA CheckStep == ASSUME EditorInv, Check PROVE EditorInv' /\ Stutter
<1>1. th.pc = "check" /\ AllSilent(ed) /\ ~th.reply.got
  BY InvFacts DEF Check, EditorInv, ThreadOK, Waiting, Patient
<1>2. UNCHANGED <<script, sent, taken, tool, fs, hist>>
  BY DEF Check, loopVars
<1>3. CASE ed' = ed /\ th' = Unattached(th)
  <2>1. DirectoryOK(fs) /\ ThreadOK(th, fs, taken \in Appends) /\ th.pc \in Ensuring
        /\ (taken \in Appends) \in BOOLEAN
    BY <1>1 DEF EditorInv, Ensuring
  <2>2. /\ ThreadOK(th', fs, taken \in Appends) /\ th'.pc \notin Waiting /\ th'.pc \notin Resting
    BY <1>3, <2>1, LeftUnattached
  <2> QED BY <1>1, <1>2, <1>3, <2>2, GoesOn DEF Resting
<1>4. CASE Reachable /\ AskTo(th.conn.ed, QueryRequest) /\ th' = [th EXCEPT !.pc = "pinned"]
  <2>1. /\ ThreadOK(th', fs, taken \in Appends) /\ th'.pc = "pinned" /\ ~th'.reply.got
        /\ th.conn.ed = PeerOf(th') /\ th.conn.ed \in Editors
    BY <1>1, <1>4, ConnectionReached DEF EditorInv, ThreadOK, ThreadFields, ItemFits, Delivering, Ensuring,
       Asking, Waiting, Patient, PeerOf
  <2>2. Grows(fs, fs') /\ ThreadOK(th', fs', taken \in Appends) /\ None \in Known(fs')
    BY <1>2, <2>1, InvFacts
  <2>3. th'.pc \in Waiting /\ th'.pc \notin Confirming /\ th'.pc # "asked" /\ th.pc \notin Resting
    BY <1>1, <2>1 DEF Waiting, Patient, Confirming, Resting
  <2>4. ed' = Posted(ed, th.conn.ed, QueryRequest)
    BY <1>4 DEF AskTo, Posted
  <2>5. PICK r \in Requests : r = QueryRequest /\ r.file = None /\ r.op # "append"
    BY RequestKinds
  <2> QED BY <1>1, <1>2, <2>1, <2>2, <2>3, <2>4, <2>5, Asks
<1> QED BY <1>3, <1>4 DEF Check

(* `ensure` ends, whatever the window is to show; the directory may have
   changed with it. *)
LEMMA EnsureLeft ==
  ASSUME EditorInv, UNCHANGED <<script, sent, taken, tool>>, Grows(fs, fs'),
         DOMAIN hist' = DOMAIN hist, hist'.lost = hist.lost,
         th.pc \in Ensuring, NEW conn, NEW g, g \in {AfterEnsure(th), Adopt(th, conn)},
         NEW shown, NEW attached,
         th' \in Showing(g, shown, attached),
         EditorsOK(ed', fs, Taken), AllSilent(ed')
  PROVE  EditorInv' /\ Stutter
<1> DEFINE text == taken \in Appends
<1>1. ThreadOK(th, fs, text) /\ DirectoryOK(fs) /\ text \in BOOLEAN
  BY DEF EditorInv
<1>1a. DirectoryOK(fs') /\ fs.next <= fs'.next
  BY DEF Grows
<1> HIDE DEF text
<1>2. /\ ThreadOK(g, fs, text) /\ g.pc \notin Waiting /\ ~g.reply.got
      /\ g.pc \in Resting => ~text
  BY <1>1, EnsureEnds
<1>3. ThreadOK(th', fs, text) /\ th'.pc = g.pc
  BY <1>2, ThreadShows
<1>4. ThreadOK(th', fs', text)
  BY <1>1, <1>1a, <1>3, ThreadStays
<1>5. th.pc \notin Resting
  BY DEF Ensuring, Asking, Resting
<1>6. (th.pc \in Resting <=> th'.pc \in Resting) \/ taken \notin Appends
  BY <1>2, <1>3, <1>5 DEF text
<1> QED BY <1>2, <1>3, <1>4, <1>6, Idles DEF text

LEMMA StillPinnedStep == ASSUME EditorInv, StillPinned PROVE EditorInv' /\ Stutter
<1>1. th.pc = "pinned" /\ th.pc \in Ensuring /\ th.conn.ed # None
  BY DEF StillPinned, Answered, EditorInv, ThreadOK, Patient, Ensuring
<1>2. UNCHANGED <<script, sent, taken, tool, fs, hist>> /\ Grows(fs, fs')
  BY InvFacts DEF StillPinned, loopVars
<1>3. CASE /\ Answered("pinned") /\ ed' = ed
           /\ th' = [AfterEnsure(th) EXCEPT !.shown = IF th.ctx = "press" THEN NoPush ELSE @]
  <2>1. AllSilent(ed') /\ EditorsOK(ed', fs, Taken)
    BY <1>3, InvFacts DEF Answered, EditorInv
  <2>2. PICK g, shown : g = AfterEnsure(th) /\ th' \in Showing(g, shown, FALSE)
    BY <1>3 DEF Showing
  <2> QED BY <1>1, <1>2, <2>1, <2>2, EnsureLeft
<1>4. CASE th' = Unattached(th) /\ ed' = Dropped
  <2>1. DirectoryOK(fs) /\ ThreadOK(th, fs, taken \in Appends) /\ (taken \in Appends) \in BOOLEAN
    BY DEF EditorInv
  <2>2. /\ ThreadOK(th', fs, taken \in Appends) /\ th'.pc \notin Waiting /\ th'.pc \notin Resting
    BY <1>1, <1>4, <2>1, LeftUnattached
  <2>3. EditorsOK(ed', fs, Taken) /\ AllSilent(ed')
    BY <1>1, <1>4, DropsConnection
  <2>4. ThreadOK(th', fs', taken \in Appends) /\ th.pc \notin Resting
    BY <1>1, <1>2, <2>2 DEF Resting
  <2> QED BY <1>2, <2>2, <2>3, <2>4, Idles
<1> QED BY <1>3, <1>4 DEF StillPinned

(* Nothing is on the socket. *)
LEMMA NowhereLeft ==
  ASSUME NEW d, DirectoryOK(d), NEW h, NEW text \in BOOLEAN, ThreadOK(h, d, text),
         h.pc \in Ensuring, ~h.reply.got, NEW g, g = Nowhere(h)
  PROVE  /\ ThreadOK(g, d, text) /\ g.pc \notin Waiting
         /\ g.pc \in Resting => ~text
<1>1. CASE g = AfterEnsure(h)
  BY <1>1, EnsureEnds
<1>2. CASE g # AfterEnsure(h)
  <2>1. /\ DOMAIN g = ThreadFields /\ g.pc \in {"open", "weigh"} /\ g.ctx = h.ctx /\ g.target = h.target
        /\ g.guard = h.guard /\ g.indicator = h.indicator
        /\ g.continued = h.continued /\ g.reply = h.reply
    BY <1>2 DEF Nowhere, ThreadOK, ThreadFields
  <2>2. ThreadOK(g, d, text)
    BY <2>1 DEF ThreadOK, ItemFits, Delivering, Ensuring, Asking, Waiting, Patient
  <2> QED BY <2>1, <2>2 DEF Waiting, Patient, Resting
<1> QED BY <1>1, <1>2

(* Nobody listens, or nothing more is tried. *)
LEMMA UnlistenedLeft ==
  ASSUME NEW d, DirectoryOK(d), NEW h, NEW text \in BOOLEAN, ThreadOK(h, d, text),
         h.pc \in Ensuring, ~h.reply.got, h.conn.ed = None,
         NEW g, g = AfterEnsure(h) \/ g = Nowhere(h) \/ g = [h EXCEPT !.pc = "clearing"]
  PROVE  /\ ThreadOK(g, d, text) /\ g.pc \notin Waiting
         /\ g.pc \in Resting => ~text
<1>1. CASE g = AfterEnsure(h)
  BY <1>1, EnsureEnds
<1>2. CASE g = Nowhere(h)
  BY <1>2, NowhereLeft
<1>3. CASE g = [h EXCEPT !.pc = "clearing"]
  <2>1. /\ DOMAIN g = ThreadFields /\ g.pc = "clearing" /\ g.ctx = h.ctx /\ g.target = h.target
        /\ g.guard = h.guard /\ g.indicator = h.indicator /\ g.conn = h.conn
        /\ g.continued = h.continued /\ g.reply = h.reply
    BY <1>3 DEF ThreadOK, ThreadFields
  <2>2. ThreadOK(g, d, text)
    BY <2>1 DEF ThreadOK, ItemFits, Delivering, Ensuring, Asking, Waiting, Patient
  <2> QED BY <2>1, <2>2 DEF Waiting, Patient, Resting
<1> QED BY <1>1, <1>2, <1>3

LEMMA ListeningEditor ==
  ASSUME Listening
  PROVE  sock.at \in Editors /\ sock.at # None /\ Live(ed[sock.at])
BY EditorAssumption DEF Listening, Editors, None

LEMMA ProbeStep == ASSUME EditorInv, Probe PROVE EditorInv' /\ Stutter
<1>1. /\ th.pc = "probe" /\ AllSilent(ed) /\ ~th.reply.got /\ th.pc \in Ensuring
      /\ th.conn.ed = None /\ th.pc \notin Resting
  BY InvFacts DEF Probe, EditorInv, ThreadOK, Waiting, Patient, Ensuring, Asking, Resting
<1>2. UNCHANGED <<script, sent, taken, tool, fs, hist>>
  BY DEF Probe, loopVars
<1>3. CASE ~Listening
  <2>1. DirectoryOK(fs) /\ ThreadOK(th, fs, taken \in Appends) /\ (taken \in Appends) \in BOOLEAN
    BY DEF EditorInv
  <2>2. /\ th' = Nowhere(th) \/ th' = [th EXCEPT !.pc = "clearing"]
        /\ ed' = ed
    BY <1>3 DEF Probe, Unlistened
  <2>3. /\ ThreadOK(th', fs, taken \in Appends) /\ th'.pc \notin Waiting
        /\ th'.pc \in Resting => taken \notin Appends
    BY <1>1, <2>1, <2>2, UnlistenedLeft
  <2>4. (th.pc \in Resting <=> th'.pc \in Resting) \/ taken \notin Appends
    BY <1>1, <2>3
  <2> QED BY <1>1, <1>2, <2>2, <2>3, <2>4, GoesOn
<1>4. CASE Listening
  <2>1. /\ th' = [th EXCEPT !.pc = "asked", !.target = [NoConn EXCEPT !.ed = sock.at]]
        /\ ed' = Posted(ed, sock.at, QueryRequest)
    BY <1>4 DEF Probe, AskTo, Posted
  <2>2. sock.at \in Editors /\ sock.at # None /\ Live(ed[sock.at])
    BY <1>4, ListeningEditor
  <2>3. /\ DOMAIN th' = ThreadFields /\ th'.pc = "asked" /\ th'.ctx = th.ctx
        /\ th'.target = [NoConn EXCEPT !.ed = sock.at] /\ th'.conn = th.conn
        /\ th'.guard = th.guard /\ th'.indicator = th.indicator
        /\ th'.continued = th.continued /\ th'.reply = th.reply
    BY <2>1 DEF EditorInv, ThreadOK, ThreadFields
  <2>4. DOMAIN th'.target = {"ed", "file"} /\ th'.target.file = None /\ th'.target.ed = sock.at
    BY <2>3 DEF NoConn
  <2>5. None \in Known(fs)
    BY InvFacts
  <2>6. ThreadOK(th', fs, taken \in Appends)
    BY <1>1, <2>3, <2>4, <2>5 DEF EditorInv, ThreadOK, ItemFits, Delivering, Ensuring, Asking, Waiting, Patient
  <2>7. Grows(fs, fs') /\ ThreadOK(th', fs', taken \in Appends) /\ None \in Known(fs')
    BY <1>2, <2>6, InvFacts
  <2>8. th'.pc \in Waiting /\ th'.pc \notin Confirming /\ sock.at = PeerOf(th')
    BY <1>1, <2>3, <2>4 DEF Waiting, Patient, Confirming, PeerOf
  <2>9. PICK r \in Requests : r = QueryRequest /\ r.file = None /\ r.op # "append"
    BY RequestKinds
  <2> QED BY <1>1, <1>2, <2>1, <2>2, <2>3, <2>7, <2>8, <2>9, Asks
<1> QED BY <1>3, <1>4

LEMMA ClearsSocketStep == ASSUME EditorInv, ClearsSocket PROVE EditorInv' /\ Stutter
<1>1. /\ th.pc = "clearing" /\ AllSilent(ed) /\ ~th.reply.got /\ th.pc \in Ensuring
      /\ th.conn.ed = None /\ th.pc \notin Resting
  BY InvFacts DEF ClearsSocket, EditorInv, ThreadOK, Waiting, Patient, Ensuring, Asking, Resting
<1>2. UNCHANGED <<script, sent, taken, tool, fs, hist, ed>>
  BY DEF ClearsSocket, loopVars
<1>3. DirectoryOK(fs) /\ ThreadOK(th, fs, taken \in Appends) /\ (taken \in Appends) \in BOOLEAN
  BY DEF EditorInv
<1>4. th' = AfterEnsure(th) \/ th' = Nowhere(th)
  BY DEF ClearsSocket
<1>5. /\ ThreadOK(th', fs, taken \in Appends) /\ th'.pc \notin Waiting
      /\ th'.pc \in Resting => taken \notin Appends
  BY <1>1, <1>3, <1>4, UnlistenedLeft
<1>6. (th.pc \in Resting <=> th'.pc \in Resting) \/ taken \notin Appends
  BY <1>1, <1>5
<1> QED BY <1>1, <1>2, <1>5, <1>6, GoesOn

LEMMA ProbeAgainStep == ASSUME EditorInv, ProbeAgain PROVE EditorInv' /\ Stutter
<1>1. th.pc = "asked" /\ ~th.reply.got /\ ~Live(ed[PeerOf(th)]) /\ th.conn.ed = None
  BY DEF ProbeAgain, PeerGone, Unanswered, Peer, PeerOf, EditorInv, ThreadOK, Asking
<1>2. AllSilent(ed)
  BY <1>1 DEF EditorInv, OneAsked, Awaited, AllSilent, Silent
<1>3. /\ DOMAIN th' = ThreadFields /\ th'.pc = "probe" /\ th'.ctx = th.ctx
      /\ th'.target = NoConn /\ th'.conn = th.conn
      /\ th'.guard = th.guard /\ th'.indicator = th.indicator
      /\ th'.continued = th.continued /\ th'.reply = th.reply
  BY DEF ProbeAgain, EditorInv, ThreadOK, ThreadFields
<1>4. DOMAIN th'.target = {"ed", "file"} /\ th'.target.file \in Known(fs)
  BY <1>3, InvFacts DEF NoConn
<1>5. ThreadOK(th', fs, taken \in Appends)
  BY <1>1, <1>3, <1>4 DEF EditorInv, ThreadOK, ItemFits, Delivering, Ensuring, Asking, Waiting, Patient
<1>6. th'.pc \notin Waiting /\ th'.pc \notin Resting /\ th.pc \notin Resting
  BY <1>1, <1>3 DEF Waiting, Patient, Resting
<1> QED BY <1>2, <1>5, <1>6, GoesOn DEF ProbeAgain, loopVars

LEMMA EnsureFailed ==
  ASSUME EditorInv, EnsureFails, UNCHANGED <<script, sent, taken, tool>>, th.pc \in Ensuring,
         DOMAIN hist' = DOMAIN hist, hist'.lost = hist.lost,
         EditorsOK(ed', fs, Taken), AllSilent(ed')
  PROVE  EditorInv' /\ Stutter
<1>1. th.guard \in Nat /\ DirectoryOK(fs)
  BY InvFacts DEF EditorInv, ThreadOK
<1>2. Grows(fs, fs')
  BY <1>1, PassageMoved DEF EnsureFails
<1>3. PICK g, conn : g \in {AfterEnsure(th), Adopt(th, conn)} /\ th' \in Showing(g, NoPush, FALSE)
  BY DEF EnsureFails, Showing
<1> QED BY <1>2, <1>3, EnsureLeft

(* What the thread is told to open or to set up is a file that was given a name. *)
LEMMA TargetStays ==
  ASSUME NEW d, NEW d2, DirectoryOK(d), DirectoryOK(d2), d.next <= d2.next,
         NEW h, NEW text, ThreadOK(h, d, text), h.pc \in Ensuring,
         NEW g, DOMAIN g = ThreadFields, g.pc \in {"editing", "setup", "stopping"},
         g.ctx = h.ctx, DOMAIN g.target = {"ed", "file"}, g.target.file \in Known(d2),
         g.guard \in Known(d2), g.indicator = h.indicator, g.continued = h.continued,
         g.reply = NoReply, g.conn = h.conn, h.conn.ed = None
  PROVE  /\ ThreadOK(g, d2, text) /\ g.pc \in Waiting /\ ~g.reply.got
         /\ g.pc \notin Confirming /\ g.pc # "asked" /\ PeerOf(g) = g.target.ed
<1>1. ~g.reply.got
  BY DEF NoReply
<1>2. g.pc \in Waiting /\ g.pc \notin Patient /\ g.pc \in Asking /\ g.pc \notin Confirming
  BY DEF Waiting, Patient, Asking, Confirming
<1>3. ItemFits(g, text)
  BY DEF ThreadOK, ItemFits, Delivering, Ensuring, Asking
<1> QED BY <1>1, <1>2, <1>3 DEF ThreadOK, PeerOf

LEMMA IdentifyStep == ASSUME EditorInv, Identify PROVE EditorInv' /\ Stutter
<1>1. /\ th.pc = "asked" /\ th.reply.got /\ AllSilent(ed) /\ th.pc \in Ensuring /\ th.conn.ed = None
      /\ th.pc \notin Resting
  BY InvFacts DEF Identify, Answered, EditorInv, ThreadOK, Ensuring, Asking, Resting
<1>2. UNCHANGED <<script, sent, taken, tool, hist>>
  BY DEF Identify, loopVars
<1>3. ThreadOK(th, fs, taken \in Appends) /\ DirectoryOK(fs) /\ EditorsOK(ed, fs, Taken)
  BY DEF EditorInv
<1> DEFINE own == th.reply.own
           n == th.target.ed
<1>4. CASE EnsureFails /\ ed' = ed
  BY <1>1, <1>2, <1>3, <1>4, EnsureFailed
<1>5. CASE /\ AskTo(n, QuitRequest) /\ fs' = fs
           /\ th' = [th EXCEPT !.pc = "stopping", !.reply = NoReply]
  <2>1. /\ DOMAIN th' = ThreadFields /\ th'.pc = "stopping" /\ th'.ctx = th.ctx
        /\ th'.target = th.target /\ th'.conn = th.conn
        /\ th'.guard = th.guard /\ th'.indicator = th.indicator
        /\ th'.continued = th.continued /\ th'.reply = NoReply
    BY <1>3, <1>5 DEF ThreadOK, ThreadFields
  <2>2. Grows(fs, fs') /\ None \in Known(fs') /\ DirectoryOK(fs') /\ fs.next <= fs'.next
    BY <1>5, InvFacts DEF Grows
  <2>3. DOMAIN th.target = {"ed", "file"} /\ th.target.file \in Known(fs') /\ th.guard \in Known(fs')
    BY <1>3, <1>5 DEF ThreadOK
  <2>4. /\ ThreadOK(th', fs', taken \in Appends) /\ th'.pc \in Waiting /\ ~th'.reply.got
        /\ th'.pc \notin Confirming /\ th'.pc # "asked" /\ PeerOf(th') = n
    BY <1>1, <1>3, <2>1, <2>2, <2>3, TargetStays
  <2>5. PICK r \in Requests : r = QuitRequest /\ r.file = None /\ r.op # "append"
    BY RequestKinds
  <2>6. ed' = Posted(ed, n, r)
    BY <1>5, <2>5 DEF AskTo, Posted
  <2> QED BY <1>1, <1>2, <2>2, <2>4, <2>5, <2>6, Asks
<1>6. CASE /\ Adoptable(own) # None /\ AskTo(n, SetupRequest(Adoptable(own))) /\ fs' = fs
           /\ th' = [th EXCEPT !.pc = "setup", !.reply = NoReply, !.target.file = Adoptable(own)]
  <2> DEFINE file == Adoptable(own)
  <2>1. file \in Known(fs) /\ file \in Nat
    BY <1>3, <1>6, FilesAssumption DEF Adoptable, DirectoryOK, Known, Files
  <2> HIDE DEF file
  <2>2. /\ DOMAIN th' = ThreadFields /\ th'.pc = "setup" /\ th'.ctx = th.ctx
        /\ th'.target = [th.target EXCEPT !.file = file] /\ th'.conn = th.conn
        /\ th'.guard = th.guard /\ th'.indicator = th.indicator
        /\ th'.continued = th.continued /\ th'.reply = NoReply
    BY <1>3, <1>6 DEF ThreadOK, ThreadFields, file
  <2>3. Grows(fs, fs') /\ None \in Known(fs') /\ DirectoryOK(fs') /\ fs.next <= fs'.next
    BY <1>6, InvFacts DEF Grows
  <2>4. /\ DOMAIN th'.target = {"ed", "file"} /\ th'.target.file \in Known(fs') /\ th'.target.ed = n
        /\ th'.guard \in Known(fs')
    BY <1>3, <1>6, <2>1, <2>2 DEF ThreadOK
  <2>5. /\ ThreadOK(th', fs', taken \in Appends) /\ th'.pc \in Waiting /\ ~th'.reply.got
        /\ th'.pc \notin Confirming /\ th'.pc # "asked" /\ PeerOf(th') = n
    BY <1>1, <1>3, <2>2, <2>3, <2>4, TargetStays
  <2>6. PICK r \in Requests : r = SetupRequest(file) /\ r.file = file /\ r.op # "append"
    BY <2>1, RequestKinds
  <2>7. ed' = Posted(ed, n, r) /\ r.file \in Known(fs')
    BY <1>6, <2>1, <2>6 DEF AskTo, Posted, file
  <2> QED BY <1>1, <1>2, <2>3, <2>5, <2>6, <2>7, Asks
<1>7. CASE /\ Pending(fs) # None \/ NameLeft(fs)
           /\ AskTo(n, OpenRequest(ClaimedFile(fs)))
           /\ fs' = Claimed(fs)
           /\ th' = [th EXCEPT !.pc = "editing", !.reply = NoReply,
                               !.target.file = ClaimedFile(fs), !.guard = ClaimedFile(fs)]
  <2> DEFINE file == ClaimedFile(fs)
  <2>1. Grows(fs, fs') /\ file \in Known(fs')
    BY <1>3, <1>7, ClaimedPassage
  <2>2. None \in Known(fs') /\ DirectoryOK(fs') /\ fs.next <= fs'.next /\ file \in Nat
    <3>1. DirectoryOK(fs') /\ fs.next <= fs'.next
      BY <2>1 DEF Grows
    <3>2. None \in Known(fs') /\ Known(fs') \subseteq Nat
      BY <3>1, FilesAssumption DEF DirectoryOK, Known, None
    <3> HIDE DEF file
    <3> QED BY <2>1, <3>1, <3>2
  <2>3. /\ DOMAIN th' = ThreadFields /\ th'.pc = "editing" /\ th'.ctx = th.ctx
        /\ th'.target = [th.target EXCEPT !.file = file] /\ th'.conn = th.conn
        /\ th'.guard = file /\ th'.indicator = th.indicator
        /\ th'.continued = th.continued /\ th'.reply = NoReply
    BY <1>3, <1>7 DEF ThreadOK, ThreadFields
  <2> HIDE DEF file
  <2>4. /\ DOMAIN th'.target = {"ed", "file"} /\ th'.target.file = file /\ th'.target.ed = n
    BY <1>3, <2>3 DEF ThreadOK
  <2>5. /\ ThreadOK(th', fs', taken \in Appends) /\ th'.pc \in Waiting /\ ~th'.reply.got
        /\ th'.pc \notin Confirming /\ th'.pc # "asked" /\ PeerOf(th') = n
    BY <1>1, <1>3, <2>1, <2>2, <2>3, <2>4, TargetStays
  <2>6. PICK r \in Requests : r = OpenRequest(file) /\ r.file = file /\ r.op # "append"
    BY <2>2, RequestKinds
  <2>7. ed' = Posted(ed, n, r)
    BY <1>7, <2>6 DEF AskTo, Posted, file
  <2> QED BY <1>1, <1>2, <2>1, <2>5, <2>6, <2>7, Asks
<1> QED BY <1>4, <1>5, <1>6, <1>7 DEF Identify

LEMMA OpenedBufferStep == ASSUME EditorInv, OpenedBuffer PROVE EditorInv' /\ Stutter
<1>1. /\ th.pc = "editing" /\ AllSilent(ed) /\ th.pc \in Ensuring /\ th.conn.ed = None
      /\ th.pc \notin Resting
  BY InvFacts DEF OpenedBuffer, Answered, EditorInv, ThreadOK, Ensuring, Asking, Resting
<1>2. UNCHANGED <<script, sent, taken, tool, fs, hist>>
  BY DEF OpenedBuffer, loopVars
<1>3. ThreadOK(th, fs, taken \in Appends)
  BY DEF EditorInv
<1>4. /\ DOMAIN th' = ThreadFields /\ th'.pc = "setup" /\ th'.ctx = th.ctx
      /\ th'.target = th.target /\ th'.conn = th.conn
      /\ th'.guard = th.guard /\ th'.indicator = th.indicator
      /\ th'.continued = th.continued /\ th'.reply = NoReply
  BY <1>3 DEF OpenedBuffer, ThreadOK, ThreadFields
<1>5. /\ Grows(fs, fs') /\ DirectoryOK(fs) /\ DirectoryOK(fs') /\ fs.next <= fs'.next
      /\ Known(fs') \subseteq Nat
  BY <1>2, InvFacts DEF Grows
<1>6. DOMAIN th.target = {"ed", "file"} /\ th.target.file \in Known(fs') /\ th.guard \in Known(fs')
  BY <1>2, <1>3 DEF ThreadOK
<1>7. /\ ThreadOK(th', fs', taken \in Appends) /\ th'.pc \in Waiting /\ ~th'.reply.got
      /\ th'.pc \notin Confirming /\ th'.pc # "asked" /\ PeerOf(th') = th.target.ed
  BY <1>1, <1>3, <1>4, <1>5, <1>6, TargetStays
<1>8. PICK r \in Requests : r = SetupRequest(th.target.file) /\ r.file = th.target.file /\ r.op # "append"
  BY <1>5, <1>6, RequestKinds
<1>9. ed' = Posted(ed, th.target.ed, r) /\ r.file \in Known(fs')
  BY <1>6, <1>8 DEF OpenedBuffer, AskTo, Posted
<1> QED BY <1>1, <1>2, <1>5, <1>7, <1>8, <1>9, Asks

(* Whether the pointer goes or stays, what was written is still there. *)
LEMMA SettlesKeeps ==
  ASSUME EditorInv, NEW file \in Nat, SettlesPassage(file)
  PROVE  Grows(fs, fs') /\ DOMAIN hist' = DOMAIN hist /\ hist'.lost = hist.lost
<1>1. Grows(fs, fs')
  BY InvFacts, PassageMoved DEF SettlesPassage, EditorInv
<1>2. DOMAIN hist' = DOMAIN hist /\ hist'.lost = hist.lost
  BY DEF SettlesPassage, EditorInv
<1> QED BY <1>1, <1>2

LEMMA AttachedStep == ASSUME EditorInv, Attached PROVE EditorInv' /\ Stutter
<1>1. th.pc = "setup" /\ AllSilent(ed) /\ th.pc \in Ensuring
  BY InvFacts DEF Attached, Answered, Ensuring, Asking
<1>2. UNCHANGED <<script, sent, taken, tool, ed>>
  BY DEF Attached, loopVars
<1>3. th.target.file \in Nat /\ DirectoryOK(fs)
  BY InvFacts DEF EditorInv, ThreadOK
<1>4. Grows(fs, fs') /\ DOMAIN hist' = DOMAIN hist /\ hist'.lost = hist.lost
  BY <1>3, PassageMoved, SettlesKeeps DEF Attached
<1>5. PICK g, shown : g = Adopt(th, th.target) /\ th' \in Showing(g, shown, FALSE)
  BY DEF Attached, Showing
<1>6. EditorsOK(ed', fs, Taken) /\ AllSilent(ed')
  BY <1>1, <1>2 DEF EditorInv
<1> QED BY <1>1, <1>2, <1>4, <1>5, <1>6, EnsureLeft

LEMMA AttachFailsStep == ASSUME EditorInv, AttachFails PROVE EditorInv' /\ Stutter
<1>1. th.pc \in {"asked", "editing", "setup", "stopping"} /\ th.pc \in Ensuring /\ th.conn.ed = None
  BY DEF AttachFails, TimedOut, Unanswered, Refused, Answered, EditorInv, ThreadOK, Ensuring, Asking
<1>2. UNCHANGED <<script, sent, taken, tool>> /\ DOMAIN hist' = DOMAIN hist /\ hist'.lost = hist.lost
  BY DEF AttachFails, loopVars, EditorInv
<1>3. \A n \in Editors : /\ EditorOK(Orphaned(ed[n]), fs, Taken) /\ Silent(Orphaned(ed[n]).inbox)
                         /\ EditorOK(ed[n], fs, Taken)
  BY OrphanedEditor DEF EditorInv, EditorsOK
<1>4. DOMAIN ed' = Editors /\ \A n \in Editors :
        ed'[n] = IF n = th.target.ed THEN Orphaned(ed[n]) ELSE ed[n]
  BY DEF AttachFails
<1>5. EditorsOK(ed', fs, Taken)
  BY <1>3, <1>4 DEF EditorsOK
<1>6. AllSilent(ed')
  <2>1. \A n \in Editors : Silent(ed'[n].inbox) \/ (n # PeerOf(th) /\ ed'[n] = ed[n])
    BY <1>1, <1>3, <1>4 DEF PeerOf
  <2>2. OneAsked(th, ed, taken)
    BY DEF EditorInv
  <2> QED BY <2>1, <2>2, SilentWhenGivenUp
<1>7. EnsureFails
  BY DEF AttachFails
<1> QED BY <1>1, <1>2, <1>5, <1>6, <1>7, EnsureFailed

LEMMA StoppedStep == ASSUME EditorInv, Stopped PROVE EditorInv' /\ Stutter
<1>1. /\ th.pc = "stopping" /\ AllSilent(ed) /\ th.pc \in Ensuring /\ th.conn.ed = None
      /\ th.pc \notin Resting
  BY InvFacts DEF Stopped, Answered, EditorInv, ThreadOK, Ensuring, Asking, Resting
<1>2. UNCHANGED <<script, sent, taken, tool, fs, hist, ed>>
  BY DEF Stopped, loopVars
<1>3. ThreadOK(th, fs, taken \in Appends) /\ DirectoryOK(fs) /\ None \in Known(fs)
      /\ (taken \in Appends) \in BOOLEAN
  BY InvFacts DEF EditorInv
<1> DEFINE h == [th EXCEPT !.reply = NoReply, !.target = NoConn]
<1>4. /\ DOMAIN h = ThreadFields /\ h.pc = th.pc /\ h.ctx = th.ctx
      /\ h.target = NoConn /\ h.conn = th.conn
      /\ h.guard = th.guard /\ h.indicator = th.indicator
      /\ h.continued = th.continued /\ h.reply = NoReply
  BY <1>3 DEF ThreadOK, ThreadFields
<1>5. DOMAIN NoConn = {"ed", "file"} /\ NoConn.file = None /\ ~NoReply.got
  BY DEF NoConn, NoReply
<1>6. th' = AfterEnsure(h) \/ th' = Nowhere(h) \/ th' = [h EXCEPT !.pc = "clearing"]
  BY DEF Stopped, Unlistened
<1> HIDE DEF h
<1>7. ThreadOK(h, fs, taken \in Appends)
  BY <1>3, <1>4, <1>5 DEF ThreadOK, ItemFits
<1>8. /\ ThreadOK(th', fs, taken \in Appends) /\ th'.pc \notin Waiting
      /\ th'.pc \in Resting => taken \notin Appends
  <2>1. h.pc \in Ensuring /\ ~h.reply.got /\ h.conn.ed = None
    BY <1>1, <1>4, <1>5
  <2> QED BY <1>3, <1>6, <1>7, <2>1, UnlistenedLeft
<1>9. (th.pc \in Resting <=> th'.pc \in Resting) \/ taken \notin Appends
  BY <1>1, <1>8
<1> QED BY <1>1, <1>2, <1>8, <1>9, GoesOn

LEMMA WeighStep == ASSUME EditorInv, WeighAlive \/ WeighClosed PROVE EditorInv' /\ Stutter
<1>1. /\ th.pc \in {"weigh", "weighed"} /\ AllSilent(ed) /\ th.pc \in Ensuring /\ ~th.reply.got
      /\ th.pc \notin Resting
  BY InvFacts DEF WeighAlive, WeighClosed, EditorInv, ThreadOK, Ensuring, Resting, Waiting, Patient
<1>2. UNCHANGED <<script, sent, taken, tool, fs, hist, ed>> /\ Grows(fs, fs')
  BY InvFacts DEF WeighAlive, WeighClosed, loopVars
<1>3. ThreadOK(th, fs, taken \in Appends) /\ EditorsOK(ed', fs, Taken) /\ AllSilent(ed')
  BY <1>1, <1>2 DEF EditorInv
<1>4. CASE th' = AfterEnsure(th)
  <2>1. PICK g, conn : g \in {AfterEnsure(th), Adopt(th, conn)} /\ th' \in Showing(g, NoPush, FALSE)
    BY <1>4 DEF Showing
  <2> QED BY <1>1, <1>2, <1>3, <2>1, EnsureLeft
<1>5. CASE th' = [th EXCEPT !.pc = "weighed"] \/ th' = [th EXCEPT !.pc = "open"]
  <2>1. /\ DOMAIN th' = ThreadFields /\ th'.pc \in {"weighed", "open"} /\ th'.ctx = th.ctx
        /\ th'.target = th.target /\ th'.guard = th.guard /\ th'.indicator = th.indicator
        /\ th'.continued = th.continued /\ th'.reply = th.reply
    BY <1>3, <1>5 DEF ThreadOK, ThreadFields
  <2>2. ThreadOK(th', fs, taken \in Appends)
    BY <1>1, <1>3, <2>1 DEF ThreadOK, ItemFits, Delivering, Ensuring, Asking, Waiting, Patient
  <2>3. th'.pc \notin Waiting /\ th'.pc \notin Resting
    BY <2>1 DEF Waiting, Patient, Resting
  <2> QED BY <1>1, <1>2, <2>2, <2>3, GoesOn
<1> QED BY <1>4, <1>5 DEF WeighAlive, WeighClosed

LEMMA OpenPaneStep == ASSUME EditorInv, OpenPane PROVE EditorInv' /\ Stutter
<1>1. /\ th.pc = "open" /\ AllSilent(ed) /\ th.pc \in Ensuring /\ ~th.reply.got
      /\ th.pc \notin Resting
  BY InvFacts DEF OpenPane, EditorInv, ThreadOK, Ensuring, Resting, Waiting, Patient
<1>2. UNCHANGED <<script, sent, taken, tool, hist, ed>>
  BY DEF OpenPane, loopVars
<1>3. /\ ThreadOK(th, fs, taken \in Appends) /\ EditorsOK(ed', fs, Taken) /\ AllSilent(ed')
      /\ DirectoryOK(fs)
  BY <1>1, <1>2 DEF EditorInv
<1>4. CASE fs' = fs /\ th' = [AfterEnsure(th) EXCEPT !.attached = FALSE]
  <2>1. PICK g, conn : g \in {AfterEnsure(th), Adopt(th, conn)} /\ th' \in Showing(g, NoPush, FALSE)
    BY <1>4 DEF Showing
  <2>2. Grows(fs, fs')
    BY <1>4, InvFacts
  <2> QED BY <1>1, <1>2, <1>3, <2>1, <2>2, EnsureLeft
<1>5. CASE /\ Pending(fs) # None \/ NameLeft(fs)
           /\ fs' = Claimed(fs)
           /\ th' = [th EXCEPT !.pc = "opening", !.attached = FALSE,
                               !.guard = ClaimedFile(fs), !.marker = sock.markers + 1,
                               !.target.file = ClaimedFile(fs)]
  <2> DEFINE file == ClaimedFile(fs)
  <2>1. Grows(fs, fs') /\ file \in Known(fs')
    BY <1>3, <1>5, ClaimedPassage
  <2>2. /\ DOMAIN th' = ThreadFields /\ th'.pc = "opening" /\ th'.ctx = th.ctx
        /\ th'.target = [th.target EXCEPT !.file = file]
        /\ th'.guard = file /\ th'.indicator = th.indicator
        /\ th'.continued = th.continued /\ th'.reply = th.reply
    BY <1>3, <1>5 DEF ThreadOK, ThreadFields
  <2> HIDE DEF file
  <2>3. DOMAIN th'.target = {"ed", "file"} /\ th'.target.file = file
    BY <1>3, <2>2 DEF ThreadOK
  <2>4. ThreadOK(th', fs', taken \in Appends)
    BY <1>1, <1>3, <2>1, <2>2, <2>3 DEF ThreadOK, ItemFits, Delivering, Ensuring, Asking, Waiting, Patient
  <2>5. th'.pc \notin Waiting /\ th'.pc \notin Resting
    BY <2>2 DEF Waiting, Patient, Resting
  <2> QED BY <1>1, <1>2, <1>3, <2>1, <2>4, <2>5, Idles
<1> QED BY <1>4, <1>5 DEF OpenPane

LEMMA PaneFailsStep == ASSUME EditorInv, PaneFails PROVE EditorInv' /\ Stutter
<1>1. th.pc \in {"opening", "awaiting"} /\ AllSilent(ed) /\ th.pc \in Ensuring
  BY InvFacts DEF PaneFails, Ensuring, Waiting, Patient
<1>2. UNCHANGED <<script, sent, taken, tool, hist, ed>> /\ EnsureFails
  BY DEF PaneFails, loopVars
<1>3. EditorsOK(ed', fs, Taken) /\ AllSilent(ed')
  BY <1>1, <1>2 DEF EditorInv
<1> QED BY <1>1, <1>2, <1>3, EnsureFailed

LEMMA PaneOpenedStep == ASSUME EditorInv, PaneOpened PROVE EditorInv' /\ Stutter
<1>1. /\ th.pc = "opening" /\ AllSilent(ed) /\ ~th.reply.got
  BY InvFacts DEF PaneOpened, EditorInv, ThreadOK, Waiting, Patient
<1>2. ThreadOK(th, fs, taken \in Appends)
  BY DEF EditorInv
<1>3. /\ DOMAIN th' = ThreadFields /\ th'.pc = "awaiting" /\ th'.ctx = th.ctx
      /\ th'.target = [th.target EXCEPT !.ed = host.answer]
      /\ th'.guard = th.guard /\ th'.indicator = th.indicator
      /\ th'.continued = th.continued /\ th'.reply = th.reply
  BY <1>2 DEF PaneOpened, ThreadOK, ThreadFields
<1>4. DOMAIN th'.target = {"ed", "file"} /\ th'.target.file = th.target.file
  BY <1>2, <1>3 DEF ThreadOK
<1>5. ThreadOK(th', fs, taken \in Appends)
  BY <1>1, <1>2, <1>3, <1>4 DEF ThreadOK, ItemFits, Delivering, Ensuring, Asking, Waiting, Patient
<1>6. th'.pc \notin Waiting /\ th'.pc \notin Resting /\ th.pc \notin Resting
  BY <1>1, <1>3 DEF Waiting, Patient, Resting
<1> QED BY <1>1, <1>5, <1>6, GoesOn DEF PaneOpened, loopVars

LEMMA PaneAttachedStep == ASSUME EditorInv, PaneAttached PROVE EditorInv' /\ Stutter
<1> DEFINE n == th.target.ed
           file == th.target.file
<1>1. th.pc = "awaiting" /\ AllSilent(ed) /\ th.pc \in Ensuring
  BY InvFacts DEF PaneAttached, Ensuring, Waiting, Patient
<1>2. UNCHANGED <<script, sent, taken, tool>>
  BY DEF PaneAttached, loopVars
<1>3. file \in Known(fs) /\ file \in Nat /\ DirectoryOK(fs) /\ EditorsOK(ed, fs, Taken)
  BY InvFacts DEF EditorInv, ThreadOK
<1>4. Grows(fs, fs') /\ DOMAIN hist' = DOMAIN hist /\ hist'.lost = hist.lost
  BY <1>3, SettlesKeeps DEF PaneAttached
<1>5. PICK g, shown : g = Adopt(th, th.target) /\ th' \in Showing(g, shown, TRUE)
  BY DEF PaneAttached, Showing
<1>6. EditorsOK(ed', fs, Taken) /\ AllSilent(ed')
  <2>1. \A m \in Editors :
          /\ EditorOK(SetUp(Opened(ed[m], fs, file), file), fs, Taken)
          /\ SetUp(Opened(ed[m], fs, file), file).inbox = ed[m].inbox
    BY <1>3, OpenedEditor, SetUpEditor DEF EditorsOK
  <2>2. DOMAIN ed' = Editors /\ \A m \in Editors :
          ed'[m] = IF m = n THEN SetUp(Opened(ed[m], fs, file), file) ELSE ed[m]
    BY <1>3 DEF PaneAttached, EditorsOK
  <2> QED BY <1>1, <1>3, <2>1, <2>2 DEF EditorsOK, AllSilent
<1> QED BY <1>1, <1>2, <1>4, <1>5, <1>6, EnsureLeft

LEMMA DeliverStep == ASSUME EditorInv, Deliver PROVE EditorInv' /\ Stutter
<1>1. /\ th.pc = "deliver" /\ AllSilent(ed) /\ ~th.reply.got /\ taken \in Appends
      /\ th.pc \notin Resting
  BY InvFacts DEF Deliver, EditorInv, ThreadOK, ItemFits, Delivering, Resting, Waiting, Patient
<1>2. UNCHANGED <<script, sent, taken, tool, fs, hist>>
  BY DEF Deliver, loopVars
<1>3. ThreadOK(th, fs, taken \in Appends)
  BY DEF EditorInv
<1>4. CASE ed' = ed /\ th' = [th EXCEPT !.pc = "passage", !.conn = NoConn]
  <2>1. /\ DOMAIN th' = ThreadFields /\ th'.pc = "passage" /\ th'.ctx = th.ctx
        /\ th'.target = th.target /\ th'.guard = th.guard /\ th'.indicator = th.indicator
        /\ th'.continued = th.continued /\ th'.reply = th.reply
    BY <1>3, <1>4 DEF ThreadOK, ThreadFields
  <2>2. ThreadOK(th', fs, taken \in Appends)
    BY <1>1, <1>3, <2>1 DEF ThreadOK, ItemFits, Delivering, Ensuring, Asking, Waiting, Patient
  <2>3. th'.pc \notin Waiting /\ th'.pc \notin Resting
    BY <2>1 DEF Waiting, Patient, Resting
  <2> QED BY <1>1, <1>2, <1>4, <2>2, <2>3, GoesOn
<1>5. CASE Reachable
  <2>1. PICK continued \in BOOLEAN : /\ AskTo(th.conn.ed, AppendRequest(taken, continued))
                                     /\ th' = [th EXCEPT !.pc = "appending", !.continued = continued]
    BY <1>5 DEF Deliver, Continues
  <2>2. /\ DOMAIN th' = ThreadFields /\ th'.pc = "appending" /\ th'.ctx = th.ctx
        /\ th'.target = th.target /\ th'.guard = th.guard /\ th'.indicator = th.indicator
        /\ th'.continued \in BOOLEAN /\ th'.reply = th.reply /\ th'.conn = th.conn
    BY <1>3, <2>1 DEF ThreadOK, ThreadFields
  <2>3. th.conn.ed \in Editors /\ th.conn.ed # None
    BY <1>5, ConnectionReached
  <2>4. ThreadOK(th', fs, taken \in Appends)
    BY <1>1, <1>3, <2>2, <2>3 DEF ThreadOK, ItemFits, Delivering, Ensuring, Asking, Waiting, Patient
  <2>5. Grows(fs, fs') /\ ThreadOK(th', fs', taken \in Appends) /\ None \in Known(fs')
    BY <1>2, <2>4, InvFacts
  <2>6. th'.pc \in Waiting /\ ~th'.reply.got /\ th'.pc # "asked" /\ PeerOf(th') = th.conn.ed
    BY <1>1, <2>2, <2>3 DEF Waiting, Patient, PeerOf
  <2>7. taken \in Taken /\ taken \in Nat
    BY <1>1, InvFacts
  <2>8. PICK r \in Requests : /\ r = AppendRequest(taken, continued) /\ r.file = None
                              /\ r.op = "append" /\ r.text = taken
    BY <2>7, RequestKinds
  <2>9. ed' = Posted(ed, th.conn.ed, r)
    BY <2>1, <2>8 DEF AskTo, Posted
  <2> QED BY <1>1, <1>2, <2>5, <2>6, <2>7, <2>8, <2>9, Asks
<1> QED BY <1>4, <1>5 DEF Deliver

(* The step that settles the item: its text is in a file, or reported lost. *)
LEMMA Settles ==
  ASSUME EditorInv, UNCHANGED <<script, sent, taken, tool>>, taken \in Appends,
         th.pc \notin Resting, th'.pc = "next", ThreadOK(th', fs', taken \in Appends),
         EditorsOK(ed, fs', Taken), ed' = ed, AllSilent(ed),
         DOMAIN hist' = DOMAIN hist, DirectoryOK(fs'), fs.next <= fs'.next,
         \/ Held(fs') = Held(fs) \cup {taken} /\ hist'.lost = hist.lost
         \/ Held(fs') = Held(fs) /\ hist'.lost = hist.lost \cup {taken}
  PROVE  EditorInv' /\ D!Settle(taken)
<1>1. Appends' = Appends
  BY DEF Appends
<1>2. OnDisk' = Held(fs') /\ OnDisk = Held(fs)
  BY DEF OnDisk, Held
<1>3. taken \in Nat /\ sent \in Nat /\ taken <= sent /\ \A t \in Appends : t \in Nat
  BY EditorAssumption DEF EditorInv, Appends
<1>4. Settled' = Settled \cup {taken} /\ Settled = {t \in Appends : t < taken}
  BY <1>1, <1>3 DEF Settled, Resting
<1>5. TextLands'
  BY <1>2, <1>4 DEF EditorInv, TextLands
<1>6. OneAsked(th', ed', taken)
  BY SilentAsksNothing
<1>7. Confirms(th', fs', taken)
  BY DEF Confirms, Confirming
<1>8. tool'.file \in Known(fs') /\ DirectoryOK(fs)
  BY KnownGrows DEF EditorInv
<1>9. Taken' = Taken
  BY <1>1 DEF Taken
<1>10. EditorInv'
  BY <1>1, <1>5, <1>6, <1>7, <1>8, <1>9 DEF EditorInv
<1>11. D!Settle(taken)
  BY <1>1, <1>2, <1>3, <1>4 DEF D!Settle
<1> QED BY <1>10, <1>11

LEMMA ConfirmedStep == ASSUME EditorInv, Confirmed PROVE EditorInv' /\ D!Settle(taken)
<1>1. /\ th.pc \in Confirming /\ AllSilent(ed) /\ taken \in Appends /\ taken \in Held(fs)
      /\ th.pc \notin Resting
  BY InvFacts DEF Confirmed, EditorInv, ThreadOK, ItemFits, Delivering, Resting, Confirming, Confirms
<1>2. UNCHANGED <<script, sent, taken, tool, fs, hist, ed>>
  BY DEF Confirmed, loopVars
<1>3. ThreadOK(th, fs, taken \in Appends)
  BY DEF EditorInv
<1>4. /\ DOMAIN th' = ThreadFields /\ th'.pc = "next" /\ th'.ctx = th.ctx
      /\ th'.target = th.target /\ th'.guard = th.guard /\ th'.indicator = th.indicator
      /\ th'.continued = th.continued /\ th'.reply = NoReply
  BY <1>3 DEF Confirmed, ThreadOK, ThreadFields
<1>5. ThreadOK(th', fs, taken \in Appends)
  <2>1. ~NoReply.got
    BY DEF NoReply
  <2> QED BY <1>3, <1>4, <2>1 DEF ThreadOK, ItemFits, Delivering, Ensuring, Asking, Waiting, Patient
<1>6. /\ Held(fs') = Held(fs) \cup {taken} /\ DirectoryOK(fs') /\ fs.next <= fs'.next
      /\ EditorsOK(ed, fs', Taken) /\ ThreadOK(th', fs', taken \in Appends)
  BY <1>1, <1>2, <1>5, InvFacts DEF Grows, EditorInv
<1> QED BY <1>1, <1>2, <1>4, <1>6, Settles

LEMMA WritePassageStep == ASSUME EditorInv, WritePassage PROVE EditorInv' /\ D!Settle(taken)
<1>1. /\ th.pc = "passage" /\ AllSilent(ed) /\ taken \in Appends /\ th.pc \notin Resting
      /\ ~th.reply.got
  BY InvFacts DEF WritePassage, EditorInv, ThreadOK, ItemFits, Delivering, Resting, Waiting, Patient
<1>2. UNCHANGED <<script, sent, taken, tool, ed>> /\ DOMAIN hist' = DOMAIN hist
  BY DEF WritePassage, loopVars, EditorInv
<1>3. ThreadOK(th, fs, taken \in Appends) /\ DirectoryOK(fs) /\ taken \in Nat
  BY DEF EditorInv
<1>4. /\ DOMAIN th' = ThreadFields /\ th'.pc = "next" /\ th'.ctx = th.ctx
      /\ th'.target = th.target /\ th'.guard = th.guard /\ th'.indicator = th.indicator
      /\ th'.continued = th.continued /\ th'.reply = th.reply
  <2>1. PICK paragraph : th' = [th EXCEPT !.pc = "next", !.paragraph = paragraph]
    BY DEF WritePassage
  <2> QED BY <1>3, <2>1 DEF ThreadOK, ThreadFields
<1>5. ThreadOK(th', fs, taken \in Appends)
  BY <1>1, <1>3, <1>4 DEF ThreadOK, ItemFits, Delivering, Ensuring, Asking, Waiting, Patient
<1>6. /\ DirectoryOK(fs') /\ fs.next <= fs'.next
      /\ \/ Held(fs') = Held(fs) \cup {taken} /\ hist'.lost = hist.lost
         \/ Held(fs') = Held(fs) /\ hist'.lost = hist.lost \cup {taken}
  <2> DEFINE continued == Continues(th.paragraph, Utterance(taken), "passage")
  <2>1. CASE /\ Writable(fs)
             /\ fs' \in {AppendPending(fs, taken, continued), AppendUnpointed(fs, taken, continued)}
             /\ hist' = [hist EXCEPT !.doubted = IF th.doubt THEN @ \cup {taken} ELSE @]
    <3>1. Gains(fs, fs', taken)
      BY <1>3, <2>1, AppendedPending
    <3>2. hist'.lost = hist.lost
      BY <2>1 DEF EditorInv
    <3> QED BY <3>1, <3>2 DEF Gains
  <2>2. CASE /\ hist' = [hist EXCEPT !.lost = @ \cup {taken}]
             /\ \/ fs' = fs
                \/ NameLeft(fs) /\ fs' = [WithNewFile(fs) EXCEPT !.pointer = fs.next]
    <3>1. Grows(fs, fs')
      <4>1. CASE fs' = fs
        BY <4>1, InvFacts
      <4>2. CASE NameLeft(fs) /\ fs' = [WithNewFile(fs) EXCEPT !.pointer = fs.next]
        <5> DEFINE e == WithNewFile(fs)
        <5>1. Grows(fs, e)
          BY <1>3, <4>2, NewFile
        <5>2. fs.next \in Nat /\ fs' = [e EXCEPT !.pointer = fs.next]
          BY <1>3, <4>2, FilesAssumption DEF DirectoryOK
        <5> HIDE DEF e
        <5>3. DirectoryOK(e) /\ Grows(e, fs')
          BY <5>1, <5>2, Repointed DEF Grows
        <5>4. fs.next \in Nat /\ e.next \in Nat /\ fs'.next \in Nat
          BY <5>2, <5>3, FilesAssumption DEF DirectoryOK, Grows
        <5> QED BY <5>1, <5>3, <5>4 DEF Grows
      <4> QED BY <2>2, <4>1, <4>2
    <3>2. hist'.lost = hist.lost \cup {taken}
      BY <2>2 DEF EditorInv
    <3> QED BY <3>1, <3>2 DEF Grows
  <2> QED BY <2>1, <2>2 DEF WritePassage
<1>7. ThreadOK(th', fs', taken \in Appends)
  BY <1>3, <1>5, <1>6, ThreadStays
<1>8. EditorsOK(ed, fs', Taken)
  <2>1. EditorsOK(ed, fs, Taken) /\ Held(fs) \subseteq Held(fs')
    BY <1>6 DEF EditorInv
  <2> QED BY <1>3, <1>6, <2>1, EditorsStay
<1> QED BY <1>1, <1>2, <1>4, <1>6, <1>7, <1>8, Settles

LEMMA ReconnectStep == ASSUME EditorInv, Reconnect PROVE EditorInv' /\ Stutter
<1>1. /\ th.pc = "appending" /\ ~th.reply.got /\ taken \in Appends /\ th.conn.ed # None
      /\ th.pc \notin Resting
  BY DEF Reconnect, TimedOut, Unanswered, EditorInv, ThreadOK, ItemFits, Delivering, Resting, Patient
<1>2. UNCHANGED <<script, sent, taken, tool, fs, hist>> /\ Grows(fs, fs')
  BY InvFacts DEF Reconnect, loopVars
<1>3. ThreadOK(th, fs, taken \in Appends) /\ None \in Known(fs)
  BY InvFacts DEF EditorInv
<1>4. /\ DOMAIN th' = ThreadFields /\ th'.pc = "probe" /\ th'.ctx = "retry"
      /\ th'.target = th.target /\ th'.guard = None /\ th'.indicator = th.indicator
      /\ th'.continued = th.continued /\ th'.reply = th.reply /\ th'.conn = NoConn
  BY <1>3 DEF Reconnect, ThreadOK, ThreadFields
<1>5. ThreadOK(th', fs, taken \in Appends)
  <2>1. NoConn.ed = None
    BY DEF NoConn
  <2> QED BY <1>1, <1>3, <1>4, <2>1 DEF ThreadOK, ItemFits, Delivering, Ensuring, Asking, Waiting, Patient
<1>6. EditorsOK(ed', fs, Taken) /\ AllSilent(ed')
  BY <1>1, DropsConnection DEF Reconnect
<1>7. ThreadOK(th', fs', taken \in Appends) /\ th'.pc \notin Waiting /\ th'.pc \notin Resting
  BY <1>2, <1>4, <1>5 DEF Waiting, Patient, Resting
<1> QED BY <1>1, <1>2, <1>6, <1>7, Idles

LEMMA RepeatAppendStep == ASSUME EditorInv, RepeatAppend PROVE EditorInv' /\ Stutter
<1>1. /\ th.pc = "again" /\ ~th.reply.got /\ taken \in Appends /\ AllSilent(ed)
      /\ th.pc \notin Resting
  BY InvFacts DEF RepeatAppend, EditorInv, ThreadOK, ItemFits, Delivering, Resting, Waiting, Patient
<1>2. UNCHANGED <<script, sent, taken, tool, fs>> /\ Grows(fs, fs')
      /\ DOMAIN hist' = DOMAIN hist /\ hist'.lost = hist.lost
  BY InvFacts DEF RepeatAppend, loopVars, EditorInv
<1>3. ThreadOK(th, fs, taken \in Appends)
  BY DEF EditorInv
<1>4. CASE SameFile(th) /\ Reachable
  <2>1. /\ AskTo(th.conn.ed, AppendRequest(taken, th.continued))
        /\ th' = [th EXCEPT !.pc = "repeating"]
    BY <1>4 DEF RepeatAppend
  <2>2. /\ DOMAIN th' = ThreadFields /\ th'.pc = "repeating" /\ th'.ctx = th.ctx
        /\ th'.target = th.target /\ th'.guard = th.guard /\ th'.indicator = th.indicator
        /\ th'.continued = th.continued /\ th'.reply = th.reply /\ th'.conn = th.conn
    BY <1>3, <2>1 DEF ThreadOK, ThreadFields
  <2>3. th.conn.ed \in Editors /\ th.conn.ed # None /\ th.continued \in BOOLEAN
    BY <1>3, <1>4, ConnectionReached DEF ThreadOK
  <2>4. ThreadOK(th', fs, taken \in Appends)
    BY <1>1, <1>3, <2>2, <2>3 DEF ThreadOK, ItemFits, Delivering, Ensuring, Asking, Waiting, Patient
  <2>5. fs' = fs /\ ThreadOK(th', fs', taken \in Appends) /\ None \in Known(fs')
    BY <1>2, <2>4, InvFacts
  <2>6. th'.pc \in Waiting /\ ~th'.reply.got /\ th'.pc # "asked" /\ PeerOf(th') = th.conn.ed
    BY <1>1, <2>2, <2>3 DEF Waiting, Patient, PeerOf
  <2>7. taken \in Taken /\ taken \in Nat
    BY <1>1, InvFacts
  <2>8. PICK r \in Requests : /\ r = AppendRequest(taken, th.continued) /\ r.file = None
                              /\ r.op = "append" /\ r.text = taken
    BY <2>3, <2>7, RequestKinds
  <2>9. ed' = Posted(ed, th.conn.ed, r)
    BY <2>1, <2>8 DEF AskTo, Posted
  <2> QED BY <1>1, <1>2, <2>5, <2>6, <2>7, <2>8, <2>9, Asks
<1>5. CASE ~(SameFile(th) /\ Reachable)
  <2>1. th' = [th EXCEPT !.pc = "passage", !.doubt = TRUE, !.conn = NoConn] /\ ed' = Dropped
    BY <1>5 DEF RepeatAppend
  <2>2. /\ DOMAIN th' = ThreadFields /\ th'.pc = "passage" /\ th'.ctx = th.ctx
        /\ th'.target = th.target /\ th'.guard = th.guard /\ th'.indicator = th.indicator
        /\ th'.continued = th.continued /\ th'.reply = th.reply
    BY <1>3, <2>1 DEF ThreadOK, ThreadFields
  <2>3. ThreadOK(th', fs, taken \in Appends)
    BY <1>1, <1>3, <2>2 DEF ThreadOK, ItemFits, Delivering, Ensuring, Asking, Waiting, Patient
  <2>4. ThreadOK(th', fs', taken \in Appends) /\ th'.pc \notin Waiting /\ th'.pc \notin Resting
    BY <1>2, <2>2, <2>3 DEF Waiting, Patient, Resting
  <2>5. th.pc \notin Waiting
    BY <1>1 DEF Waiting, Patient
  <2>6. EditorsOK(ed', fs, Taken) /\ AllSilent(ed')
    BY <2>1, <2>5, DropsConnection
  <2> QED BY <1>1, <1>2, <2>4, <2>6, Idles
<1> QED BY <1>4, <1>5

LEMMA UnconfirmedStep == ASSUME EditorInv, Unconfirmed PROVE EditorInv' /\ Stutter
<1>1. /\ th.pc \in Confirming /\ taken \in Appends /\ th.conn.ed # None
      /\ th.pc \notin Resting
  BY DEF Unconfirmed, EditorInv, ThreadOK, ItemFits, Delivering, Resting, Patient, Confirming
<1>2. UNCHANGED <<script, sent, taken, tool, fs, hist>> /\ Grows(fs, fs')
  BY InvFacts DEF Unconfirmed, loopVars
<1>3. ThreadOK(th, fs, taken \in Appends)
  BY DEF EditorInv
<1>4. /\ DOMAIN th' = ThreadFields /\ th'.pc = "passage" /\ th'.ctx = th.ctx
      /\ th'.target = th.target /\ th'.guard = th.guard /\ th'.indicator = th.indicator
      /\ th'.continued = th.continued /\ th'.reply = NoReply
  BY <1>3 DEF Unconfirmed, Undelivered, ThreadOK, ThreadFields
<1>5. ThreadOK(th', fs, taken \in Appends)
  <2>1. ~NoReply.got
    BY DEF NoReply
  <2> QED BY <1>1, <1>3, <1>4, <2>1 DEF ThreadOK, ItemFits, Delivering, Ensuring, Asking, Waiting, Patient
<1>6. EditorsOK(ed', fs, Taken) /\ AllSilent(ed')
  BY <1>1, DropsConnection DEF Unconfirmed
<1>7. ThreadOK(th', fs', taken \in Appends) /\ th'.pc \notin Waiting /\ th'.pc \notin Resting
  BY <1>2, <1>4, <1>5 DEF Waiting, Patient, Resting
<1> QED BY <1>1, <1>2, <1>6, <1>7, Idles

LEMMA LeaveStep == ASSUME EditorInv, Leave PROVE EditorInv' /\ Stutter
<1>1. /\ th.pc = "quit" /\ ~th.reply.got /\ taken \notin Appends /\ AllSilent(ed)
  BY InvFacts DEF Leave, EditorInv, ThreadOK, ItemFits, Waiting, Patient
<1>2. UNCHANGED <<script, sent, taken, tool, fs, hist>> /\ Grows(fs, fs')
  BY InvFacts DEF Leave, loopVars
<1>3. ThreadOK(th, fs, taken \in Appends) /\ EditorsOK(ed, fs, Taken) /\ DirectoryOK(fs)
      /\ None \in Known(fs)
  BY InvFacts DEF EditorInv
<1>4. /\ DOMAIN th' = ThreadFields /\ th'.pc = "done" /\ th'.ctx = th.ctx
      /\ th'.target = th.target /\ th'.guard = th.guard /\ th'.indicator = th.indicator
      /\ th'.continued = th.continued /\ th'.reply = th.reply
  BY <1>3 DEF Leave, ThreadOK, ThreadFields
<1>5. ThreadOK(th', fs, taken \in Appends)
  BY <1>1, <1>3, <1>4 DEF ThreadOK, ItemFits, Delivering, Ensuring, Asking, Waiting, Patient
<1>6. EditorsOK(ed', fs, Taken) /\ AllSilent(ed')
  <2> DEFINE push == PushRequest({}, FALSE)
  <2>1. push \in Requests /\ push.file = None /\ push.op = "push"
    BY RequestKinds, FALSE \in BOOLEAN, {} \in SUBSET Nat
  <2> HIDE DEF push
  <2>2. \A n \in Editors : EditorOK(Exited(ed[n]), fs, Taken) /\ Silent(Exited(ed[n]).inbox)
    BY <1>3, GoneEditor, EmptyInbox DEF EditorsOK
  <2>3. \A n \in Editors : EditorOK(Sent(ed[n], push), fs, Taken)
    BY <1>3, <2>1, SentEditor DEF EditorsOK
  <2>4. \A n \in Editors : /\ EditorOK(Orphaned(Sent(ed[n], push)), fs, Taken)
                           /\ Silent(Orphaned(Sent(ed[n], push)).inbox)
    BY <2>3, OrphanedEditor
  <2>5. DOMAIN ed' = Editors /\ \A n \in Editors :
          ed'[n] \in {Exited(ed[n]), Orphaned(Sent(ed[n], push)), ed[n]}
    BY DEF Leave, push
  <2> QED BY <1>1, <1>3, <2>2, <2>4, <2>5 DEF EditorsOK, AllSilent
<1>7. ThreadOK(th', fs', taken \in Appends) /\ th'.pc \notin Waiting
  BY <1>2, <1>4, <1>5 DEF Waiting, Patient
<1> QED BY <1>1, <1>2, <1>6, <1>7, Idles

-----------------------------------------------------------------------------
(* What the pane's thread, the user and the tool do to editors: none is asked
   anything. *)

Calmly(e, e2) == Silent(e2.inbox) \/ (e2.inbox = e.inbox /\ (Live(e) => Live(e2)))

LEMMA EditorsGoOn ==
  ASSUME EditorInv, UNCHANGED <<script, sent, taken, th, fs>>,
         DOMAIN tool' = DOMAIN tool, tool'.file \in Known(fs),
         DOMAIN hist' = DOMAIN hist, hist'.lost = hist.lost, DOMAIN ed' = Editors,
         \A n \in Editors : EditorOK(ed'[n], fs, Taken) /\ Calmly(ed[n], ed'[n])
  PROVE  EditorInv' /\ Stutter
<1>1. ThreadOK(th, fs, taken \in Appends) /\ OneAsked(th, ed, taken) /\ Confirms(th, fs, taken)
  BY DEF EditorInv
<1>2. OneAsked(th, ed', taken)
  BY <1>1, OneAskedStill DEF Calmly
<1>3. EditorsOK(ed', fs, Taken)
  BY DEF EditorsOK
<1>4. /\ Grows(fs, fs') /\ ThreadOK(th', fs', taken \in Appends) /\ EditorsOK(ed', fs', Taken)
      /\ OneAsked(th', ed', taken) /\ Confirms(th', fs', taken) /\ tool'.file \in Known(fs')
  BY <1>1, <1>2, <1>3, InvFacts
<1> QED BY <1>4, Rests

(* The parts a step of another process leaves alone. *)
Aside == UNCHANGED <<script, sent, taken, th, fs>>

LEMMA EditorFacts ==
  ASSUME EditorInv
  PROVE  /\ DOMAIN ed = Editors /\ DirectoryOK(fs) /\ tool.file \in Known(fs) /\ th.guard \in Known(fs)
         /\ \A n \in Editors :
              /\ EditorOK(ed[n], fs, Taken) /\ ed[n].start \in Known(fs) /\ Calmly(ed[n], ed[n])
              /\ EditorOK(Exited(ed[n]), fs, Taken) /\ Calmly(ed[n], Exited(ed[n]))
<1>1. /\ DOMAIN ed = Editors /\ DirectoryOK(fs) /\ tool.file \in Known(fs) /\ th.guard \in Known(fs)
      /\ \A n \in Editors : EditorOK(ed[n], fs, Taken)
  BY DEF EditorInv, EditorsOK, ThreadOK
<1>2. \A n \in Editors : EditorOK(Exited(ed[n]), fs, Taken) /\ Exited(ed[n]).inbox = <<>>
  BY <1>1, GoneEditor
<1>3. \A n \in Editors : ed[n].start \in Known(fs)
  BY <1>1 DEF EditorOK
<1> QED BY <1>1, <1>2, <1>3, EmptyInbox DEF Calmly

LEMMA EditorGone ==
  ASSUME EditorInv, NEW n
  PROVE  /\ DOMAIN Without(n) = Editors
         /\ \A m \in Editors : EditorOK(Without(n)[m], fs, Taken) /\ Calmly(ed[m], Without(n)[m])
BY EditorFacts DEF Without

LEMMA EditorStarts ==
  ASSUME EditorInv, NEW e, DOMAIN e = Editors,
         \A m \in Editors : EditorOK(e[m], fs, Taken) /\ Calmly(ed[m], e[m]),
         NEW slot, NEW kind, NEW marker, NEW file \in Known(fs), NEW st,
         NEW new, new \in {Launched(kind, marker, file), [Launched(kind, marker, file) EXCEPT !.st = st]},
         NEW e2, e2 = [e EXCEPT ![slot] = new]
  PROVE  /\ DOMAIN e2 = Editors
         /\ \A m \in Editors : EditorOK(e2[m], fs, Taken) /\ Calmly(ed[m], e2[m])
<1> DEFINE l == Launched(kind, marker, file)
<1>1. EditorOK(l, fs, Taken) /\ l.inbox = <<>>
  BY FreshEditor DEF EditorInv
<1> HIDE DEF l
<1>2. EditorOK([l EXCEPT !.st = st], fs, Taken) /\ [l EXCEPT !.st = st].inbox = <<>>
  BY <1>1, StagedEditor
<1>3. EditorOK(new, fs, Taken) /\ Silent(new.inbox)
  BY <1>1, <1>2, EmptyInbox DEF l
<1> QED BY <1>3 DEF Calmly

LEMMA HostStep == ASSUME EditorInv, Host PROVE EditorInv' /\ Stutter
<1>1. Aside /\ tool' = tool /\ hist' = hist
  BY DEF Host, HostNotices, HostDrops, HostCloses, HostOpens, Aside, loopVars
<1>2. /\ DOMAIN ed' = Editors
      /\ \A m \in Editors : EditorOK(ed'[m], fs, Taken) /\ Calmly(ed[m], ed'[m])
  <2>1. CASE ed' = ed
    BY <2>1, EditorFacts
  <2>2. CASE ed' = Without(host.pane)
    BY <2>2, EditorGone
  <2>3. CASE ed' = [Without(host.pane) EXCEPT ![Slot] = Launched("pane", th.marker, th.guard)]
    <3>1. PICK e, slot, kind, new :
            /\ e = Without(host.pane) /\ ed' = [e EXCEPT ![slot] = new]
            /\ new = Launched(kind, th.marker, th.guard)
      BY <2>3
    <3>2. /\ DOMAIN e = Editors
          /\ \A m \in Editors : EditorOK(e[m], fs, Taken) /\ Calmly(ed[m], e[m])
      BY <3>1, EditorGone
    <3>3. th.guard \in Known(fs)
      BY EditorFacts
    <3> QED BY <3>1, <3>2, <3>3, EditorStarts
  <2> QED BY <2>1, <2>2, <2>3 DEF Host, HostNotices, HostDrops, HostCloses, HostOpens
<1>3. tool'.file \in Known(fs)
  BY <1>1, EditorFacts
<1> QED BY <1>1, <1>2, <1>3, EditorsGoOn DEF Aside

LEMMA EditorChanges ==
  ASSUME EditorInv, Aside, tool' = tool, DOMAIN hist' = DOMAIN hist, hist'.lost = hist.lost,
         NEW n \in Editors, NEW new, EditorOK(new, fs, Taken), Calmly(ed[n], new),
         ed' = [ed EXCEPT ![n] = new]
  PROVE  EditorInv' /\ Stutter
<1>1. /\ DOMAIN ed' = Editors
      /\ \A m \in Editors : EditorOK(ed'[m], fs, Taken) /\ Calmly(ed[m], ed'[m])
  BY EditorFacts
<1>2. tool'.file \in Known(fs)
  BY EditorFacts
<1> QED BY <1>1, <1>2, EditorsGoOn DEF Aside

LEMMA EditorLeaves ==
  ASSUME EditorInv, Aside, tool' = tool, DOMAIN hist' = DOMAIN hist, hist'.lost = hist.lost,
         NEW n, ed' = Without(n)
  PROVE  EditorInv' /\ Stutter
<1>1. tool'.file \in Known(fs)
  BY EditorFacts
<1> QED BY <1>1, EditorGone, EditorsGoOn DEF Aside

LEMMA ByUserKeeps ==
  ASSUME EditorInv
  PROVE  DOMAIN ByUser = DOMAIN hist /\ ByUser.lost = hist.lost
BY DEF ByUser, EditorInv

LEMMA ListensStep ==
  ASSUME EditorInv, NEW n \in Editors, EditorListens(n)
  PROVE  EditorInv' /\ Stutter
<1>1. Aside /\ tool' = tool /\ hist' = hist
  BY DEF EditorListens, Aside, loopVars
<1>2. CASE ed' = Without(n)
  BY <1>1, <1>2, EditorLeaves
<1>3. CASE ed' = [ed EXCEPT ![n].st = "bare"]
  <2> DEFINE new == [ed[n] EXCEPT !.st = "bare"]
  <2>1. EditorOK(new, fs, Taken) /\ new.inbox = ed[n].inbox /\ new.st = "bare"
    BY EditorFacts, StagedEditor
  <2>2. ed' = [ed EXCEPT ![n] = new]
    BY <1>3
  <2> HIDE DEF new
  <2>3. Calmly(ed[n], new)
    BY <2>1 DEF Calmly, Live
  <2> QED BY <1>1, <2>1, <2>2, <2>3, EditorChanges
<1> QED BY <1>2, <1>3 DEF EditorListens

LEMMA ReadyStep ==
  ASSUME EditorInv, NEW n \in Editors, EditorGetsReady(n)
  PROVE  EditorInv' /\ Stutter
<1>1. Aside /\ tool' = tool /\ hist' = hist
  BY DEF EditorGetsReady, Aside, loopVars
<1> DEFINE new == Ready(ed[n], fs)
<1>2. EditorOK(new, fs, Taken) /\ new.inbox = ed[n].inbox /\ new.st = "up"
  BY EditorFacts, ReadyEditor
<1>3. ed' = [ed EXCEPT ![n] = new]
  BY DEF EditorGetsReady
<1> HIDE DEF new
<1>4. Calmly(ed[n], new)
  BY <1>2 DEF Calmly, Live
<1> QED BY <1>1, <1>2, <1>3, <1>4, EditorChanges

LEMMA HangsStep ==
  ASSUME EditorInv, NEW n \in Editors, Hangs(n) \/ Resumes(n)
  PROVE  EditorInv' /\ Stutter
<1>1. Aside /\ tool' = tool /\ hist' = hist
  BY DEF Hangs, Resumes, Aside, loopVars
<1>2. PICK hang : ed' = [ed EXCEPT ![n].hang = hang]
  BY DEF Hangs, Resumes
<1> DEFINE new == [ed[n] EXCEPT !.hang = hang]
<1>3. EditorOK(new, fs, Taken) /\ new.inbox = ed[n].inbox /\ new.st = ed[n].st
  BY EditorFacts, HangingEditor
<1>4. ed' = [ed EXCEPT ![n] = new]
  BY <1>2
<1> HIDE DEF new
<1>5. Calmly(ed[n], new)
  BY <1>3 DEF Calmly, Live
<1> QED BY <1>1, <1>3, <1>4, <1>5, EditorChanges

LEMMA LeavesStep ==
  ASSUME EditorInv, NEW n \in Editors, Dies(n) \/ UserQuits(n)
  PROVE  EditorInv' /\ Stutter
<1>1. Aside /\ tool' = tool /\ ed' = Without(n)
  BY DEF Dies, UserQuits, Aside, loopVars
<1>2. DOMAIN hist' = DOMAIN hist /\ hist'.lost = hist.lost
  BY ByUserKeeps DEF Dies, UserQuits
<1> QED BY <1>1, <1>2, EditorLeaves

LEMMA RestartsStep ==
  ASSUME EditorInv, NEW n \in Editors, UserRestarts(n)
  PROVE  EditorInv' /\ Stutter
<1>1. Aside /\ tool' = tool /\ hist' = ByUser
  BY DEF UserRestarts, Aside, loopVars
<1>2. PICK e, slot, kind, marker, file, st, new :
        /\ e = Without(n) /\ file = ed[n].start
        /\ new = [Launched(kind, marker, file) EXCEPT !.st = st]
        /\ ed' = [e EXCEPT ![slot] = new]
  BY DEF UserRestarts
<1>3. DOMAIN e = Editors /\ \A m \in Editors : EditorOK(e[m], fs, Taken) /\ Calmly(ed[m], e[m])
  BY <1>2, EditorGone
<1>4. file \in Known(fs) /\ tool'.file \in Known(fs)
  BY <1>1, <1>2, EditorFacts
<1>5. DOMAIN ed' = Editors /\ \A m \in Editors : EditorOK(ed'[m], fs, Taken) /\ Calmly(ed[m], ed'[m])
  BY <1>2, <1>3, <1>4, EditorStarts, ZenonT(40)
<1> QED BY <1>1, <1>4, <1>5, ByUserKeeps, EditorsGoOn DEF Aside

LEMMA DeletesStep ==
  ASSUME EditorInv, NEW n \in Editors, UserDeletes(n)
  PROVE  EditorInv' /\ Stutter
<1>1. Aside /\ tool' = tool /\ hist' = hist
  BY DEF UserDeletes, Aside, loopVars
<1> DEFINE S == {ed[n].pinned}
           new == [ed[n] EXCEPT !.loaded = @ \ S]
<1>2. ed' = [ed EXCEPT ![n] = new]
  BY DEF UserDeletes
<1> HIDE DEF S
<1>3. EditorOK(new, fs, Taken) /\ new.inbox = ed[n].inbox /\ new.st = ed[n].st
  BY EditorFacts, UnloadedEditor
<1> HIDE DEF new
<1>4. Calmly(ed[n], new)
  BY <1>3 DEF Calmly, Live
<1> QED BY <1>1, <1>2, <1>3, <1>4, EditorChanges

LEMMA WindowStep == ASSUME EditorInv, UserClosesWindow PROVE EditorInv' /\ Stutter
<1>1. Aside /\ tool' = tool /\ ed' = ed /\ hist' = ByUser
  BY DEF UserClosesWindow, Aside, loopVars
<1>2. /\ DOMAIN ed' = Editors /\ tool'.file \in Known(fs)
      /\ \A m \in Editors : EditorOK(ed'[m], fs, Taken) /\ Calmly(ed[m], ed'[m])
  BY <1>1, EditorFacts
<1> QED BY <1>1, <1>2, ByUserKeeps, EditorsGoOn DEF Aside

LEMMA DirectoryMoves ==
  ASSUME EditorInv, UNCHANGED <<script, sent, taken, th, ed>>, Grows(fs, fs'),
         DOMAIN hist' = DOMAIN hist, hist'.lost = hist.lost, DOMAIN tool' = DOMAIN tool, tool'.file \in Known(fs')
  PROVE  EditorInv' /\ Stutter
<1>1. /\ DirectoryOK(fs) /\ DirectoryOK(fs') /\ fs.next <= fs'.next /\ Held(fs') = Held(fs)
      /\ ThreadOK(th, fs, taken \in Appends) /\ EditorsOK(ed, fs, Taken)
      /\ OneAsked(th, ed, taken) /\ Confirms(th, fs, taken)
  BY DEF EditorInv, Grows
<1>2. ThreadOK(th', fs', taken \in Appends)
  BY <1>1, ThreadStays
<1>3. EditorsOK(ed', fs', Taken)
  BY <1>1, EditorsStay
<1>4. OneAsked(th', ed', taken) /\ Confirms(th', fs', taken)
  BY <1>1 DEF Confirms
<1> QED BY <1>2, <1>3, <1>4, Rests

LEMMA ToolStep == ASSUME EditorInv, Tool PROVE EditorInv' /\ Stutter
<1>1. /\ UNCHANGED <<script, sent, taken, th>>
      /\ DOMAIN hist' = DOMAIN hist /\ hist'.lost = hist.lost
  BY DEF Tool, ToolChecks, ToolClears, ToolTakes, ToolMarks, ToolRuns, toolRest, loopVars, EditorInv
<1>2. DOMAIN tool' = DOMAIN tool
  BY DEF Tool, ToolChecks, ToolClears, ToolTakes, ToolMarks, ToolRuns, EditorInv
<1>3. DirectoryOK(fs) /\ Grows(fs, fs) /\ tool.file \in Known(fs) /\ None \in Known(fs) /\ tool.file \in Nat
  BY InvFacts DEF EditorInv
<1>4. CASE ToolChecks \/ ToolClears \/ ToolMarks
  <2>1. fs' = fs /\ ed' = ed /\ tool'.file = tool.file
    BY <1>4 DEF ToolChecks, ToolClears, ToolMarks, toolRest, EditorInv
  <2>2. Grows(fs, fs') /\ tool'.file \in Known(fs')
    BY <1>3, <2>1
  <2> QED BY <1>1, <1>2, <2>1, <2>2, DirectoryMoves
<1>5. CASE ToolTakes
  <2>1. ed' = ed
    BY <1>5 DEF ToolTakes
  <2>2. Grows(fs, fs') /\ tool'.file \in Known(fs')
    <3>1. CASE Pending(fs) # None /\ fs' = Take(fs) /\ tool'.file = Pending(fs)
      <4>1. Grows(fs, fs')
        BY <1>3, <3>1, PassageMoved
      <4>2. Pending(fs) \in Known(fs)
        BY <1>3, <3>1, PendingThere, FilesAssumption DEF DirectoryOK, Known, Files
      <4>3. Known(fs) \subseteq Known(fs')
        BY <1>3, <4>1, KnownGrows DEF Grows
      <4> QED BY <3>1, <4>1, <4>2, <4>3
    <3>2. CASE NameLeft(fs) /\ fs' = WithNewFile(fs) /\ tool'.file = fs.next
      <4>1. Grows(fs, fs') /\ fs'.next = fs.next + 1
        BY <1>3, <3>2, NewFile
      <4> QED BY <1>3, <3>2, <4>1, FilesAssumption DEF DirectoryOK, Known
    <3>3. CASE fs' = fs /\ tool'.file = tool.file
      BY <1>3, <3>3
    <3> QED BY <1>5, <3>1, <3>2, <3>3 DEF ToolTakes, EditorInv
  <2> QED BY <1>1, <1>2, <2>1, <2>2, DirectoryMoves
<1>6. CASE ToolRuns
  <2>1. tool'.file = None
    BY <1>6 DEF ToolRuns, EditorInv
  <2>2. CASE ed' = ed /\ fs' \in {Restore(fs, tool.file), fs, Unclaimed(fs, tool.file)}
    <3>1. Grows(fs, fs')
      BY <1>3, <2>2, PassageMoved
    <3>2. None \in Known(fs')
      BY <1>3, <3>1, KnownGrows DEF Grows
    <3> QED BY <1>1, <1>2, <2>1, <2>2, <3>1, <3>2, DirectoryMoves
  <2>3. CASE fs' = fs /\ ed' = [ed EXCEPT ![Slot] = Launched("user", tool.marker, tool.file)]
    <3>1. PICK e, slot, kind, marker, new :
            /\ e = ed /\ ed' = [e EXCEPT ![slot] = new]
            /\ new = Launched(kind, marker, tool.file)
      BY <2>3
    <3>2. DOMAIN e = Editors /\ \A m \in Editors : EditorOK(e[m], fs, Taken) /\ Calmly(ed[m], e[m])
      BY <3>1, EditorFacts
    <3>3. DOMAIN ed' = Editors /\ \A m \in Editors : EditorOK(ed'[m], fs, Taken) /\ Calmly(ed[m], ed'[m])
      BY <1>3, <3>1, <3>2, EditorStarts
    <3>4. tool'.file \in Known(fs)
      BY <1>3, <2>1
    <3> QED BY <1>1, <1>2, <2>3, <3>3, <3>4, EditorsGoOn
  <2> QED BY <1>6, <2>2, <2>3 DEF ToolRuns
<1> QED BY <1>4, <1>5, <1>6 DEF Tool

-----------------------------------------------------------------------------
(* An editor runs what it was sent. *)

LEMMA RunsFacts ==
  ASSUME EditorInv, NEW n \in Editors, ed[n].inbox # <<>>,
         NEW e2, DOMAIN e2 = Editors, \A m \in Editors : m # n => e2[m] = ed[m],
         e2[n].st = ed[n].st, e2[n].inbox = Tail(ed[n].inbox)
  PROVE  /\ Next1(n) \in Requests /\ Next1(n).file \in Known(fs)
         /\ Next1(n).op = "append" => Next1(n).text \in Taken
         /\ EditorOK(Popped(n), fs, Taken) /\ Popped(n).st = ed[n].st
         /\ Popped(n).text = ed[n].text /\ Popped(n).pinned = ed[n].pinned
         /\ Popped(n).loaded = ed[n].loaded /\ Popped(n).last = ed[n].last
         /\ Popped(n).inbox = Tail(ed[n].inbox)
         /\ Quiet(Next1(n)) => OneAsked(th, e2, taken)
         /\ ~Quiet(Next1(n)) => /\ AllSilent(e2) /\ th.pc \in Waiting /\ ~th.reply.got
                                /\ th.pc \in Confirming => Next1(n).op = "append" /\ Next1(n).text = taken
<1>1. EditorOK(ed[n], fs, Taken)
  BY EditorFacts
<1>2. /\ EditorOK(Answering(ed[n]), fs, Taken) /\ Answering(ed[n]).st = ed[n].st
      /\ Answering(ed[n]).pinned = ed[n].pinned /\ Answering(ed[n]).loaded = ed[n].loaded
      /\ Answering(ed[n]).text = ed[n].text /\ Answering(ed[n]).last = ed[n].last
      /\ Answering(ed[n]).inbox = Tail(ed[n].inbox)
      /\ TookHead(ed[n].inbox, Tail(ed[n].inbox))
      /\ Head(ed[n].inbox) = ed[n].inbox[1]
      /\ Head(ed[n].inbox) \in Requests /\ Head(ed[n].inbox).file \in Known(fs)
      /\ Head(ed[n].inbox).op = "append" => Head(ed[n].inbox).text \in Taken
  BY <1>1, PoppedEditor
<1>3. Popped(n) = Answering(ed[n])
  BY DEF Popped, Answering
<1>4. OneAsked(th, ed, taken) /\ TookHead(ed[n].inbox, e2[n].inbox)
  BY <1>2 DEF EditorInv
<1>5. /\ Quiet(ed[n].inbox[1]) => OneAsked(th, e2, taken)
      /\ ~Quiet(ed[n].inbox[1]) => AllSilent(e2) /\ Awaited(th, ed, n, 1, taken)
  BY <1>4, TookRequest
<1> QED BY <1>2, <1>3, <1>5 DEF Next1, Awaited

(* A request nobody waits for is taken off the queue. *)
LEMMA TakesQuietly ==
  ASSUME EditorInv, Aside, tool' = tool, hist' = hist, NEW n \in Editors,
         ed[n].inbox # <<>>, Quiet(Next1(n)),
         NEW new, EditorOK(new, fs, Taken), new.st = ed[n].st, new.inbox = Tail(ed[n].inbox),
         ed' = [ed EXCEPT ![n] = new]
  PROVE  EditorInv' /\ Stutter
<1>1. /\ DOMAIN ed' = Editors /\ ed'[n] = new
      /\ \A m \in Editors : m # n => ed'[m] = ed[m]
      /\ \A m \in Editors : EditorOK(ed[m], fs, Taken)
  BY EditorFacts
<1>2. OneAsked(th, ed', taken)
  BY <1>1, RunsFacts
<1>3. EditorsOK(ed', fs, Taken)
  BY <1>1 DEF EditorsOK
<1>4. /\ ThreadOK(th, fs, taken \in Appends) /\ Confirms(th, fs, taken)
      /\ Grows(fs, fs) /\ tool.file \in Known(fs)
  BY InvFacts DEF EditorInv
<1>5. /\ Grows(fs, fs') /\ ThreadOK(th', fs', taken \in Appends) /\ EditorsOK(ed', fs', Taken)
      /\ OneAsked(th', ed', taken) /\ Confirms(th', fs', taken) /\ tool'.file \in Known(fs')
      /\ UNCHANGED <<script, sent, taken>> /\ th' = th
  BY <1>2, <1>3, <1>4 DEF Aside
<1> QED BY <1>5, Rests

LEMMA RunPushStep ==
  ASSUME EditorInv, NEW n \in Editors, RunPush(n) \/ Discards(n)
  PROVE  EditorInv' /\ Stutter
<1>1. Aside /\ tool' = tool /\ hist' = hist /\ ed[n].inbox # <<>> /\ Quiet(Next1(n))
  BY DEF RunPush, Discards, Runs, Quiet, Aside, loopVars
<1>2. PICK e2 : e2 = [ed EXCEPT ![n] = Popped(n)]
  OBVIOUS
<1>3. DOMAIN e2 = Editors /\ \A m \in Editors : m # n => e2[m] = ed[m]
  BY <1>2, EditorFacts
<1>4. e2[n] = Popped(n) /\ Popped(n).st = ed[n].st /\ Popped(n).inbox = Tail(ed[n].inbox)
  BY <1>2, EditorFacts DEF Popped, EditorOK, EditorFields
<1>5. EditorOK(Popped(n), fs, Taken)
  BY <1>1, <1>3, <1>4, RunsFacts
<1>6. CASE ed' = [ed EXCEPT ![n] = Popped(n)]
  <2> DEFINE new == Popped(n)
  <2>1. EditorOK(new, fs, Taken) /\ new.st = ed[n].st /\ new.inbox = Tail(ed[n].inbox)
        /\ ed' = [ed EXCEPT ![n] = new]
    BY <1>4, <1>5, <1>6
  <2> HIDE DEF new
  <2> QED BY <1>1, <2>1, TakesQuietly
<1>7. CASE ed' = [ed EXCEPT ![n] = Pushed(Popped(n), Next1(n).words, Next1(n).continued)]
  <2> DEFINE new == Pushed(Popped(n), Next1(n).words, Next1(n).continued)
  <2>1. EditorOK(new, fs, Taken) /\ new.st = ed[n].st /\ new.inbox = Tail(ed[n].inbox)
    BY <1>4, <1>5, PushedEditor
  <2>2. ed' = [ed EXCEPT ![n] = new]
    BY <1>7
  <2> HIDE DEF new
  <2> QED BY <1>1, <2>1, <2>2, TakesQuietly
<1> QED BY <1>6, <1>7 DEF RunPush, Discards

(* The thread reads an answer it waits for. *)
Hears(h, ok, own) == [h EXCEPT !.reply = [got |-> TRUE, ok |-> ok, own |-> own]]

LEMMA Replied ==
  ASSUME NEW d, NEW h, NEW text, ThreadOK(h, d, text), h.pc \in Waiting, NEW ok, NEW own,
         NEW g, g = Hears(h, ok, own)
  PROVE  ThreadOK(g, d, text) /\ g.pc = h.pc /\ g.reply.got /\ g.reply.ok = ok
<1>1. /\ DOMAIN g = ThreadFields /\ g.pc = h.pc /\ g.ctx = h.ctx /\ g.target = h.target
      /\ g.conn = h.conn /\ g.guard = h.guard /\ g.indicator = h.indicator
      /\ g.continued = h.continued /\ g.reply = [got |-> TRUE, ok |-> ok, own |-> own]
  BY DEF ThreadOK, ThreadFields, Hears
<1>2. ThreadOK(g, d, text)
  BY <1>1 DEF ThreadOK, ItemFits
<1> QED BY <1>1, <1>2

LEMMA Replies ==
  ASSUME EditorInv, NEW n \in Editors, ed[n].inbox # <<>>, Next1(n).op # "push",
         NEW ok, Answer(n, ok),
         NEW d, DirectoryOK(d), fs.next <= d.next, Held(fs) \subseteq Held(d),
         Next1(n).op = "append" /\ ok => Next1(n).text \in Held(d),
         NEW e, Quiet(Next1(n)) => OneAsked(th, e, taken), ~Quiet(Next1(n)) => AllSilent(e)
  PROVE  /\ ThreadOK(th', d, taken \in Appends) /\ OneAsked(th', e, taken)
         /\ Confirms(th', d, taken) /\ th'.pc = th.pc
<1>1. /\ DirectoryOK(fs) /\ ThreadOK(th, fs, taken \in Appends) /\ Confirms(th, fs, taken)
  BY DEF EditorInv
<1>2. ThreadOK(th, d, taken \in Appends) /\ Confirms(th, d, taken)
  BY <1>1, ThreadStays DEF Confirms
<1>3. CASE Quiet(Next1(n))
  <2>1. th' = th
    BY <1>3 DEF Answer, Quiet
  <2> QED BY <1>2, <1>3, <2>1
<1>4. CASE ~Quiet(Next1(n))
  <2>1. PICK own : th' = Hears(th, ok, own)
    BY <1>4 DEF Answer, Quiet, Hears
  <2>2. PICK e2 : e2 = [ed EXCEPT ![n] = Popped(n)]
    OBVIOUS
  <2>3. DOMAIN e2 = Editors /\ \A m \in Editors : m # n => e2[m] = ed[m]
    BY <2>2, EditorFacts
  <2>4. e2[n].st = ed[n].st /\ e2[n].inbox = Tail(ed[n].inbox)
    BY <2>2, EditorFacts DEF Popped, EditorOK, EditorFields
  <2>5. /\ th.pc \in Waiting
        /\ th.pc \in Confirming => Next1(n).op = "append" /\ Next1(n).text = taken
    BY <1>4, <2>3, <2>4, RunsFacts
  <2>6. ThreadOK(th', d, taken \in Appends) /\ th'.pc = th.pc /\ th'.reply.ok = ok
    BY <1>2, <2>1, <2>5, Replied
  <2>7. OneAsked(th', e, taken)
    BY <1>4, SilentAsksNothing
  <2>8. Confirms(th', d, taken)
    BY <2>5, <2>6 DEF Confirms
  <2> QED BY <2>6, <2>7, <2>8
<1> QED BY <1>3, <1>4

Elsewhere == UNCHANGED <<script, sent, taken, tool, hist>>

LEMMA AnswersOne ==
  ASSUME EditorInv, Elsewhere, fs' = fs, NEW n \in Editors, ed[n].inbox # <<>>,
         Next1(n).op # "push", NEW ok, Answer(n, ok),
         Next1(n).op = "append" /\ ok => Next1(n).text \in Held(fs),
         NEW new, EditorOK(new, fs, Taken), new.st = ed[n].st, new.inbox = Tail(ed[n].inbox),
         ed' = [ed EXCEPT ![n] = new]
  PROVE  EditorInv' /\ Stutter
<1>1. /\ DOMAIN ed' = Editors /\ ed'[n] = new
      /\ \A m \in Editors : m # n => ed'[m] = ed[m]
      /\ \A m \in Editors : EditorOK(ed[m], fs, Taken)
  BY EditorFacts
<1>2. /\ Quiet(Next1(n)) => OneAsked(th, ed', taken)
      /\ ~Quiet(Next1(n)) => AllSilent(ed')
  BY <1>1, RunsFacts
<1>3. EditorsOK(ed', fs, Taken)
  BY <1>1 DEF EditorsOK
<1>4. /\ DirectoryOK(fs) /\ Grows(fs, fs) /\ fs.next <= fs.next /\ tool.file \in Known(fs)
  BY InvFacts DEF EditorInv, Grows
<1>5. /\ ThreadOK(th', fs, taken \in Appends) /\ OneAsked(th', ed', taken)
      /\ Confirms(th', fs, taken) /\ th'.pc = th.pc
  BY <1>2, <1>4, Replies
<1>6. /\ Grows(fs, fs') /\ ThreadOK(th', fs', taken \in Appends) /\ EditorsOK(ed', fs', Taken)
      /\ OneAsked(th', ed', taken) /\ Confirms(th', fs', taken) /\ tool'.file \in Known(fs')
      /\ UNCHANGED <<script, sent, taken, tool, hist>>
  BY <1>3, <1>4, <1>5 DEF Elsewhere
<1> QED BY <1>5, <1>6, Rests

(* The editor without the request it is at. *)
LEMMA AfterRequest ==
  ASSUME EditorInv, NEW n \in Editors, ed[n].inbox # <<>>
  PROVE  /\ Next1(n) \in Requests /\ Next1(n).file \in Known(fs)
         /\ Next1(n).op = "append" => Next1(n).text \in Taken
         /\ EditorOK(Popped(n), fs, Taken) /\ Popped(n).st = ed[n].st
         /\ Popped(n).inbox = Tail(ed[n].inbox) /\ Popped(n).text = ed[n].text
         /\ Popped(n).pinned = ed[n].pinned /\ Popped(n).loaded = ed[n].loaded
         /\ Popped(n).last = ed[n].last
<1>1. PICK e2 : e2 = [ed EXCEPT ![n] = Popped(n)]
  OBVIOUS
<1>2. DOMAIN e2 = Editors /\ \A m \in Editors : m # n => e2[m] = ed[m]
  BY <1>1, EditorFacts
<1>3. e2[n].st = ed[n].st /\ e2[n].inbox = Tail(ed[n].inbox)
  BY <1>1, EditorFacts DEF Popped, EditorOK, EditorFields
<1> QED BY <1>2, <1>3, RunsFacts

LEMMA AnswersStep ==
  ASSUME EditorInv, NEW n \in Editors, RunQuery(n) \/ RunOpen(n) \/ RunSetup(n)
  PROVE  EditorInv' /\ Stutter
<1>1. /\ Elsewhere /\ fs' = fs /\ ed[n].inbox # <<>>
      /\ Next1(n).op # "push" /\ Next1(n).op # "append"
  BY DEF RunQuery, RunOpen, RunSetup, Runs, Elsewhere, loopVars
<1>2. PICK ok : Answer(n, ok)
  BY DEF RunQuery, RunOpen, RunSetup
<1>3. /\ EditorOK(Popped(n), fs, Taken) /\ Popped(n).st = ed[n].st
      /\ Popped(n).inbox = Tail(ed[n].inbox) /\ Next1(n).file \in Known(fs) /\ DirectoryOK(fs)
  BY <1>1, AfterRequest DEF EditorInv
<1>4. PICK new : /\ ed' = [ed EXCEPT ![n] = new]
                 /\ new \in {Popped(n), Opened(Popped(n), fs, Next1(n).file),
                             SetUp(Popped(n), Next1(n).file)}
  BY DEF RunQuery, RunOpen, RunSetup
<1>5. EditorOK(new, fs, Taken) /\ new.st = ed[n].st /\ new.inbox = Tail(ed[n].inbox)
  BY <1>3, <1>4, OpenedEditor, SetUpEditor
<1> QED BY <1>1, <1>2, <1>4, <1>5, AnswersOne

LEMMA RunQuitStep ==
  ASSUME EditorInv, NEW n \in Editors, RunQuit(n)
  PROVE  EditorInv' /\ Stutter
<1>1. /\ Elsewhere /\ fs' = fs /\ ed[n].inbox # <<>>
      /\ Next1(n).op # "push" /\ Next1(n).op # "append" /\ Answer(n, TRUE) /\ ed' = Without(n)
  BY DEF RunQuit, Runs, Elsewhere, loopVars
<1>2. /\ DOMAIN ed' = Editors /\ \A m \in Editors : EditorOK(ed'[m], fs, Taken) /\ Calmly(ed[m], ed'[m])
      /\ OneAsked(th, ed, taken) /\ tool.file \in Known(fs)
  BY <1>1, EditorGone DEF EditorInv
<1>3. OneAsked(th, ed', taken)
  BY <1>2, OneAskedStill DEF Calmly
<1>4. ASSUME ~Quiet(Next1(n)) PROVE AllSilent(ed')
  <2>1. PICK e2 : e2 = [ed EXCEPT ![n] = Popped(n)]
    OBVIOUS
  <2>2. DOMAIN e2 = Editors /\ \A m \in Editors : m # n => e2[m] = ed[m]
    BY <2>1, EditorFacts
  <2>3. e2[n].st = ed[n].st /\ e2[n].inbox = Tail(ed[n].inbox)
    BY <1>1, <2>1, EditorFacts, AfterRequest
  <2>4. AllSilent(e2)
    BY <1>1, <1>4, <2>2, <2>3, RunsFacts
  <2>5. ed'[n].inbox = <<>> /\ \A m \in Editors : m # n => ed'[m] = ed[m]
    BY <1>1, EditorFacts, GoneEditor DEF Without
  <2> QED BY <2>2, <2>4, <2>5, EmptyInbox DEF AllSilent
<1>5. DirectoryOK(fs) /\ Grows(fs, fs) /\ fs.next <= fs.next
  BY InvFacts DEF Grows
<1>6. /\ ThreadOK(th', fs, taken \in Appends) /\ OneAsked(th', ed', taken)
      /\ Confirms(th', fs, taken) /\ th'.pc = th.pc
  BY <1>1, <1>3, <1>4, <1>5, Replies
<1>7. EditorsOK(ed', fs, Taken)
  BY <1>2 DEF EditorsOK
<1>8. /\ Grows(fs, fs') /\ ThreadOK(th', fs', taken \in Appends) /\ EditorsOK(ed', fs', Taken)
      /\ OneAsked(th', ed', taken) /\ Confirms(th', fs', taken) /\ tool'.file \in Known(fs')
      /\ UNCHANGED <<script, sent, taken, tool, hist>>
  BY <1>1, <1>2, <1>5, <1>6, <1>7 DEF Elsewhere
<1> QED BY <1>6, <1>8, Rests

LEMMA SpokenTexts ==
  ASSUME EditorInv, NEW text \in Taken
  PROVE  /\ text \in Nat /\ text # None /\ text \in Appends /\ text <= sent
         /\ text \in UNION {DOMAIN s : s \in Scripts}
<1>1. script \in Seq(Items) /\ script \in Scripts /\ taken \in Nat /\ sent \in Nat /\ taken <= sent
  BY EditorAssumption DEF EditorInv
<1>2. text \in DOMAIN script /\ text <= taken /\ text \in Appends
  BY DEF Taken, Appends
<1>3. text \in 1..Len(script)
  BY <1>1, <1>2
<1> QED BY <1>1, <1>2, <1>3 DEF None

(* Nothing is written, or it was before. *)
LEMMA AppendsNothing ==
  ASSUME EditorInv, NEW n \in Editors, Runs(n), Next1(n).op = "append", Elsewhere, fs' = fs,
         NEW ok, Answer(n, ok), ok => Repeat(ed[n], Next1(n).text),
         ed' = [ed EXCEPT ![n] = Popped(n)]
  PROVE  EditorInv' /\ Stutter
<1>1. ed[n].inbox # <<>> /\ Next1(n).op # "push"
  BY DEF Runs
<1>2. /\ EditorOK(Popped(n), fs, Taken) /\ Popped(n).st = ed[n].st
      /\ Popped(n).inbox = Tail(ed[n].inbox) /\ Next1(n).text \in Taken
  BY <1>1, AfterRequest
<1>3. ASSUME ok PROVE Next1(n).text \in Held(fs)
  <2>1. ed[n].last[1] = Next1(n).text
    BY <1>3 DEF Repeat
  <2>2. ed[n].last[1] \in Held(fs) \cup {None}
    BY EditorFacts DEF EditorOK
  <2> QED BY <1>2, <2>1, <2>2, SpokenTexts
<1> DEFINE new == Popped(n)
<1>4. EditorOK(new, fs, Taken) /\ new.st = ed[n].st /\ new.inbox = Tail(ed[n].inbox)
      /\ ed' = [ed EXCEPT ![n] = new]
  BY <1>2
<1> HIDE DEF new
<1> QED BY <1>1, <1>3, <1>4, AnswersOne

(* The write asks, and the request waits behind the prompt. *)
LEMMA AppendAsks ==
  ASSUME EditorInv, NEW n \in Editors, Elsewhere, fs' = fs, th' = th,
         ed' = [ed EXCEPT ![n].hang = "prompt"]
  PROVE  EditorInv' /\ Stutter
<1> DEFINE new == [ed[n] EXCEPT !.hang = "prompt"]
<1>1. EditorOK(new, fs, Taken) /\ new.inbox = ed[n].inbox /\ new.st = ed[n].st
  BY EditorFacts, HangingEditor
<1>2. ed' = [ed EXCEPT ![n] = new]
  OBVIOUS
<1> HIDE DEF new
<1>3. Calmly(ed[n], new)
  BY <1>1 DEF Calmly, Live
<1> QED BY <1>1, <1>2, <1>3, EditorChanges DEF Aside, Elsewhere

(* The text is written: a late write, or the one the thread waits for. *)
LEMMA AppendWrites ==
  ASSUME EditorInv, NEW n \in Editors, Runs(n), Next1(n).op = "append", Elsewhere,
         Pinned(ed[n]) # None, ~Stale(ed[n], fs), Answer(n, TRUE),
         NEW new, new = Appended(Popped(n), Next1(n).text, Next1(n).continued),
         ed' = [ed EXCEPT ![n] = new],
         fs' = Overwrite(fs, Pinned(ed[n]),
                         Landed(ed[n].text[Pinned(ed[n])], Next1(n).text, Next1(n).continued))
  PROVE  EditorInv' /\ D!Write(Next1(n).text)
<1> DEFINE text == Next1(n).text
           c == Next1(n).continued
           e == Popped(n)
<1>1. ed[n].inbox # <<>> /\ Next1(n).op # "push"
  BY DEF Runs
<1>2. /\ EditorOK(e, fs, Taken) /\ e.st = ed[n].st
      /\ e.inbox = Tail(ed[n].inbox) /\ text \in Taken
      /\ e.text = ed[n].text /\ e.pinned = ed[n].pinned /\ e.loaded = ed[n].loaded
  BY <1>1, AfterRequest
<1>3. /\ text \in Nat /\ text \in Appends /\ text <= sent
      /\ DirectoryOK(fs) /\ EditorsOK(ed, fs, Taken)
  BY <1>2, SpokenTexts DEF EditorInv
<1>4. /\ Pinned(e) = Pinned(ed[n]) /\ ~Stale(e, fs)
  BY <1>2 DEF Pinned, Stale
<1>5. fs' = Overwrite(fs, Pinned(e), Landed(e.text[Pinned(e)], text, c))
      /\ new = Appended(e, text, c)
  BY <1>2, <1>4
<1> HIDE DEF e, text, c
<1>6. /\ Gains(fs, fs', text) /\ EditorOK(new, fs', Taken) /\ new.inbox = e.inbox /\ new.st = e.st
  <2>1. Pinned(e) # None
    BY <1>4
  <2>2. /\ Gains(fs, fs', text) /\ EditorOK(Appended(e, text, c), fs', Taken)
        /\ Appended(e, text, c).inbox = e.inbox /\ Appended(e, text, c).st = e.st
    BY <1>2, <1>3, <1>4, <1>5, <2>1, AppendedEditor
  <2> QED BY <1>5, <2>2
<1>7. /\ DirectoryOK(fs') /\ fs.next <= fs'.next /\ Held(fs') = Held(fs) \cup {text}
      /\ Held(fs) \subseteq Held(fs')
  BY <1>6 DEF Gains
<1>8. EditorsOK(ed, fs', Taken)
  BY <1>3, <1>7, EditorsStay
<1>9. /\ DOMAIN ed' = Editors /\ ed'[n] = new /\ \A m \in Editors : m # n => ed'[m] = ed[m]
      /\ EditorsOK(ed', fs', Taken)
  BY <1>6, <1>8 DEF EditorsOK
<1>10. /\ Quiet(Next1(n)) => OneAsked(th, ed', taken)
       /\ ~Quiet(Next1(n)) => AllSilent(ed')
  <2>1. ed'[n].st = ed[n].st /\ ed'[n].inbox = Tail(ed[n].inbox)
    BY <1>2, <1>6, <1>9
  <2> QED BY <1>1, <1>9, <2>1, RunsFacts
<1>11. Next1(n).text \in Held(fs')
  BY <1>7 DEF text
<1>12. /\ ThreadOK(th', fs', taken \in Appends) /\ OneAsked(th', ed', taken)
       /\ Confirms(th', fs', taken) /\ th'.pc = th.pc
  BY <1>1, <1>7, <1>10, <1>11, Replies
<1>13. UNCHANGED <<script, sent, taken, tool, hist>>
  BY DEF Elsewhere
<1>14. Appends' = Appends
  BY <1>13 DEF Appends
<1>15. OnDisk' = Held(fs') /\ OnDisk = Held(fs)
  BY DEF OnDisk, Held
<1>16. Settled' = Settled /\ Taken' = Taken
  BY <1>12, <1>13, <1>14 DEF Settled, Taken
<1>17. TextLands'
  BY <1>7, <1>13, <1>15, <1>16 DEF EditorInv, TextLands
<1>18. tool'.file \in Known(fs')
  BY <1>3, <1>7, <1>13, KnownGrows DEF EditorInv
<1>19. EditorInv'
  BY <1>7, <1>9, <1>12, <1>13, <1>14, <1>16, <1>17, <1>18 DEF EditorInv
<1>20. D!Write(text)
  BY <1>3, <1>7, <1>13, <1>14, <1>15, <1>16 DEF D!Write
<1> QED BY <1>19, <1>20 DEF text

LEMMA RunAppendStep ==
  ASSUME EditorInv, NEW n \in Editors, RunAppend(n)
  PROVE  EditorInv' /\ (Stutter \/ \E text \in UNION {DOMAIN s : s \in Scripts} : D!Write(text))
<1>1. Elsewhere /\ Runs(n) /\ Next1(n).op = "append"
  BY DEF RunAppend, Elsewhere, loopVars
<1>2. CASE /\ Pinned(ed[n]) = None \/ Repeat(ed[n], Next1(n).text)
           /\ Answer(n, Pinned(ed[n]) # None)
           /\ ed' = [ed EXCEPT ![n] = Popped(n)] /\ fs' = fs
  <2>1. Pinned(ed[n]) # None => Repeat(ed[n], Next1(n).text)
    BY <1>2
  <2> QED BY <1>1, <1>2, <2>1, AppendsNothing
<1>3. CASE /\ Answer(n, FALSE) /\ ed' = [ed EXCEPT ![n] = Popped(n)] /\ fs' = fs
  <2>1. FALSE => Repeat(ed[n], Next1(n).text)
    OBVIOUS
  <2> QED BY <1>1, <1>3, <2>1, AppendsNothing
<1>4. CASE ed' = [ed EXCEPT ![n].hang = "prompt"] /\ th' = th /\ fs' = fs
  BY <1>1, <1>4, AppendAsks
<1>5. CASE /\ Pinned(ed[n]) # None /\ ~Stale(ed[n], fs)
           /\ Answer(n, TRUE)
           /\ ed' = [ed EXCEPT ![n] = Appended(Popped(n), Next1(n).text, Next1(n).continued)]
           /\ fs' = [fs EXCEPT !.holds[Pinned(ed[n])] =
                       Landed(ed[n].text[Pinned(ed[n])], Next1(n).text, Next1(n).continued),
                               !.there = @ \cup {Pinned(ed[n])}]
  <2>1. PICK new : new = Appended(Popped(n), Next1(n).text, Next1(n).continued)
    OBVIOUS
  <2>2. fs' = Overwrite(fs, Pinned(ed[n]),
                 Landed(ed[n].text[Pinned(ed[n])], Next1(n).text, Next1(n).continued))
    BY <1>5 DEF Overwrite
  <2>3. ed' = [ed EXCEPT ![n] = new]
    BY <1>5, <2>1
  <2>4. EditorInv' /\ D!Write(Next1(n).text)
    BY <1>1, <1>5, <2>1, <2>2, <2>3, AppendWrites
  <2>5. Next1(n).text \in UNION {DOMAIN s : s \in Scripts}
    BY <1>1, AfterRequest, SpokenTexts DEF Runs
  <2> QED BY <2>4, <2>5
<1> QED BY <1>2, <1>3, <1>4, <1>5 DEF RunAppend

-----------------------------------------------------------------------------
(* The event loop, and the whole. *)

LEMMA LoopStep ==
  ASSUME EditorInv, SendItem \/ StartQuitting
  PROVE  EditorInv' /\ (Stutter \/ \E text \in UNION {DOMAIN s : s \in Scripts} : D!Send(text))
<1>1. UNCHANGED <<script, taken, th, ed, fs, tool, hist>>
  BY DEF SendItem, StartQuitting
<1>2. script \in Seq(Items) /\ script \in Scripts /\ taken \in Nat /\ sent \in Nat /\ taken <= sent
  BY EditorAssumption DEF EditorInv
<1>3. /\ sent' \in Nat /\ taken <= sent' /\ sent' <= Len(script)
      /\ sent' = sent \/ (sent' = sent + 1 /\ sent + 1 \in DOMAIN script)
  BY <1>2 DEF SendItem, StartQuitting, EditorInv
<1>4. Appends' = Appends /\ \A t \in Appends : t \in Nat
  BY <1>1, <1>2 DEF Appends
<1>5. Settled' = Settled /\ OnDisk' = OnDisk /\ Taken' = Taken
  BY <1>1, <1>4 DEF Settled, OnDisk, Taken
<1>6. EditorInv'
  BY <1>1, <1>3, <1>4, <1>5 DEF EditorInv, TextLands
<1>7. CASE sent' = sent + 1 /\ sent + 1 \in Appends
  <2>1. /\ {t \in Appends : t <= sent}' = {t \in Appends : t <= sent} \cup {sent + 1}
        /\ \A t \in {t \in Appends : t <= sent} : t < sent + 1
    BY <1>2, <1>4, <1>7
  <2>2. PICK item : item = sent + 1
    OBVIOUS
  <2>3. D!Send(item)
    BY <1>1, <1>5, <2>1, <2>2 DEF D!Send
  <2>4. item \in UNION {DOMAIN s : s \in Scripts}
    BY <1>2, <1>7, <2>2 DEF Appends
  <2> QED BY <1>6, <2>3, <2>4
<1>8. CASE ~(sent' = sent + 1 /\ sent + 1 \in Appends)
  <2>1. {t \in Appends : t <= sent}' = {t \in Appends : t <= sent}
    BY <1>2, <1>3, <1>4, <1>8
  <2> QED BY <1>1, <1>5, <1>6, <2>1 DEF Stutter
<1> QED BY <1>7, <1>8

LEMMA NothingYet == ASSUME Init PROVE EditorInv /\ D!Init
<1>1. script \in Seq(Items) /\ script \in Scripts /\ sent = 0 /\ taken = 0 /\ 0 <= Len(script)
  <2>1. script \in Seq(Items)
    BY EditorAssumption DEF Init
  <2> QED BY <2>1, LenProperties DEF Init
<1>2. Appends \subseteq 1..Len(script) /\ taken \notin Appends /\ Settled = {}
      /\ {t \in Appends : t <= sent} = {}
  BY <1>1 DEF Appends, Settled
<1>3. DirectoryOK(fs) /\ Held(fs) = {} /\ OnDisk = {} /\ None \in Known(fs)
  <2>1. fs = EmptyDirectory
    BY DEF Init
  <2>2. /\ DOMAIN fs = {"there", "holds", "pointer", "next"} /\ fs.there = {} /\ fs.next = 1
        /\ fs.pointer = None /\ fs.holds = [f \in Files |-> <<>>]
        /\ fs = [there |-> fs.there, holds |-> fs.holds, pointer |-> fs.pointer, next |-> fs.next]
    BY <2>1 DEF EmptyDirectory
  <2>3. fs.holds \in [Files -> Pages] /\ fs.there \in SUBSET Files /\ fs.pointer \in Nat
        /\ fs.next \in 1..(MaxFiles + 1)
    BY <2>2, NoTexts, FilesAssumption DEF None
  <2>4. DirectoryOK(fs)
    BY <2>2, <2>3 DEF DirectoryOK
  <2> QED BY <2>2, <2>4 DEF Held, OnDisk, Known, None
<1>4. ThreadOK(th, fs, taken \in Appends) /\ th.pc = "next" /\ ~th.reply.got
  <2>1. PICK mode : th =
          [pc |-> "next", mode |-> mode, ctx |-> "press", conn |-> NoConn, target |-> NoConn,
           guard |-> None, marker |-> None, paragraph |-> NoParagraph,
           indicator |-> NoIndicator, shown |-> NoPush, closed |-> FALSE,
           attached |-> FALSE, continued |-> FALSE, doubt |-> FALSE,
           reply |-> NoReply]
    BY DEF Init
  <2>2. /\ DOMAIN th = ThreadFields /\ th.pc = "next" /\ th.ctx = "press" /\ th.target = NoConn
        /\ th.guard = None /\ th.indicator = NoIndicator /\ th.continued = FALSE
        /\ th.reply = NoReply
    BY <2>1 DEF ThreadFields
  <2>3. /\ DOMAIN th.target = {"ed", "file"} /\ th.target.file = None /\ ~th.reply.got
        /\ DOMAIN th.indicator = {"u", "words"} /\ th.indicator.words = {}
    BY <2>2 DEF NoConn, NoReply, NoIndicator
  <2> QED BY <1>2, <1>3, <2>2, <2>3 DEF ThreadOK, ItemFits, Delivering, Ensuring, Asking, Waiting, Patient
<1>5. EditorsOK(ed, fs, Taken) /\ AllSilent(ed)
  <2>1. EditorOK(NoEditor, fs, Taken) /\ NoEditor.inbox = <<>>
    <3>1. PICK file \in Known(fs) : TRUE
      BY <1>3
    <3>2. PICK kind, marker : EditorOK(Launched(kind, marker, file), fs, Taken)
                              /\ EditorOK(NoEditor, fs, Taken) /\ NoEditor.inbox = <<>>
      BY <1>3, <3>1, FreshEditor
    <3> QED BY <3>2
  <2>2. DOMAIN ed = Editors /\ \A n \in Editors : ed[n] = NoEditor
    BY DEF Init
  <2> QED BY <2>1, <2>2, EmptyInbox DEF EditorsOK, AllSilent
<1>6. OneAsked(th, ed, taken) /\ Confirms(th, fs, taken)
  BY <1>4, <1>5, SilentAsksNothing DEF Confirms
<1>7. /\ DOMAIN tool = {"pc", "file", "marker", "took"} /\ tool.file \in Known(fs)
      /\ DOMAIN hist = {"lost", "doubted", "userClosed", "blind", "shared"} /\ hist.lost = {}
  BY <1>3 DEF Init
<1>8. EditorInv
  BY <1>1, <1>2, <1>3, <1>4, <1>5, <1>6, <1>7 DEF EditorInv, TextLands
<1>9. D!Init
  BY <1>2, <1>3, <1>7 DEF D!Init
<1> QED BY <1>8, <1>9

LEMMA ThreadStep == ASSUME EditorInv, Thread PROVE EditorInv' /\ (Stutter \/ (D!Settle(taken) /\ taken \in Appends))
<1>1. CASE Confirmed \/ WritePassage
  <2>1. EditorInv' /\ D!Settle(taken)
    BY <1>1, ConfirmedStep, WritePassageStep
  <2>2. taken \in Appends
    BY <2>1 DEF D!Settle
  <2> QED BY <2>1, <2>2
<1>2. CASE \/ Wake \/ TakeWork \/ Show \/ EnsurePress \/ AppendText \/ CopyBuffer \/ Copied
           \/ EndBatch \/ Reconfigure \/ Check \/ StillPinned
  BY <1>2, WakeStep, TakeWorkStep, ShowStep, EnsurePressStep, AppendTextStep, CopyBufferStep,
     CopiedStep, EndBatchStep, ReconfigureStep, CheckStep, StillPinnedStep
<1>3. CASE \/ Probe \/ ClearsSocket \/ ProbeAgain \/ Identify \/ OpenedBuffer \/ Attached \/ AttachFails
           \/ Stopped \/ WeighAlive \/ WeighClosed \/ OpenPane
  BY <1>3, ProbeStep, ClearsSocketStep, ProbeAgainStep, IdentifyStep, OpenedBufferStep, AttachedStep,
     AttachFailsStep, StoppedStep, WeighStep, OpenPaneStep
<1>4. CASE \/ PaneFails \/ PaneOpened \/ PaneAttached \/ Deliver \/ Reconnect \/ RepeatAppend
           \/ Unconfirmed \/ Leave
  BY <1>4, PaneFailsStep, PaneOpenedStep, PaneAttachedStep, DeliverStep, ReconnectStep,
     RepeatAppendStep, UnconfirmedStep, LeaveStep
<1> QED BY <1>1, <1>2, <1>3, <1>4 DEF Thread

LEMMA EditorStep ==
  ASSUME EditorInv, NEW n \in Editors,
         Nvim(n) \/ Discards(n) \/ Resumes(n) \/ Hangs(n) \/ Dies(n) \/ UserQuits(n)
           \/ UserRestarts(n) \/ UserDeletes(n)
  PROVE  EditorInv' /\ (Stutter \/ \E text \in UNION {DOMAIN s : s \in Scripts} : D!Write(text))
<1>1. CASE RunAppend(n)
  BY <1>1, RunAppendStep
<1>2. CASE \/ EditorListens(n) \/ EditorGetsReady(n) \/ RunQuery(n) \/ RunOpen(n)
           \/ RunSetup(n) \/ RunPush(n) \/ RunQuit(n)
  BY <1>2, ListensStep, ReadyStep, AnswersStep, RunPushStep, RunQuitStep
<1>3. CASE \/ Discards(n) \/ Resumes(n) \/ Hangs(n) \/ Dies(n) \/ UserQuits(n)
           \/ UserRestarts(n) \/ UserDeletes(n)
  BY <1>3, RunPushStep, HangsStep, LeavesStep, RestartsStep, DeletesStep
<1> QED BY <1>1, <1>2, <1>3 DEF Nvim

(* Every step keeps the invariant, and is a step of Delivery or none. *)
LEMMA StepDelivers ==
  ASSUME EditorInv, [Next]_vars
  PROVE  EditorInv' /\ (Stutter \/ D!Next)
<1>1. CASE UNCHANGED vars
  <2>1. UNCHANGED <<script, sent, taken, th, ed, fs, tool, hist>>
    BY <1>1 DEF vars
  <2>2. EditorInv'
    BY <2>1 DEF EditorInv, TextLands, Settled, OnDisk, Appends, Taken
  <2>3. Stutter
    BY <2>1 DEF Stutter, Settled, OnDisk, Appends
  <2> QED BY <2>2, <2>3
<1>2. CASE SendItem \/ StartQuitting
  BY <1>2, LoopStep DEF D!Next
<1>3. CASE Thread
  <2>1. EditorInv' /\ (Stutter \/ (D!Settle(taken) /\ taken \in Appends))
    BY <1>3, ThreadStep
  <2>2. taken \in Appends => taken \in UNION {DOMAIN s : s \in Scripts}
    BY InvFacts, SpokenTexts
  <2> QED BY <2>1, <2>2 DEF D!Next
<1>4. CASE Host \/ UserClosesWindow \/ Tool
  BY <1>4, HostStep, WindowStep, ToolStep
<1>5. ASSUME NEW n \in Editors,
             Nvim(n) \/ Discards(n) \/ Resumes(n) \/ Hangs(n) \/ Dies(n) \/ UserQuits(n)
               \/ UserRestarts(n) \/ UserDeletes(n)
      PROVE  EditorInv' /\ (Stutter \/ D!Next)
  BY <1>5, EditorStep DEF D!Next
<1> QED BY <1>1, <1>2, <1>3, <1>4, <1>5 DEF Next

LEMMA StepKeeps == EditorInv /\ [Next]_vars => EditorInv'
BY StepDelivers

LEMMA StepMaps == EditorInv /\ [Next]_vars => [D!Next]_(D!vars)
<1>1. Stutter => D!vars' = D!vars
  BY DEF Stutter, D!vars
<1> QED BY <1>1, StepDelivers

LEMMA AlwaysEditorInv == Spec => []EditorInv
<1>1. Init => EditorInv
  BY NothingYet
<1> QED BY <1>1, StepKeeps, PTL DEF Spec

(* A text the thread is done with is in a dictation file, or reported lost:
   editor.rs, the arms of `EditorWork::Append`, whatever the editors, the
   users, the files and `spokenpad editor` do meanwhile. *)
THEOREM TextIsKept == Spec => []TextLands
<1>1. EditorInv => TextLands
  BY DEF EditorInv
<1> QED BY <1>1, AlwaysEditorInv, PTL

(* The editor thread with the editors, the pane's thread and the files is a
   Delivery: it settles what it was sent in the order spoken, each text in a
   file or reported lost, and no text that is in a file goes from it. *)
THEOREM EditorDelivers == Spec => D!Init /\ [][D!Next]_(D!vars)
<1>1. Init => D!Init
  BY NothingYet
<1> QED BY <1>1, AlwaysEditorInv, StepMaps, PTL DEF Spec

=============================================================================
