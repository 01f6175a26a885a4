----------------------------- MODULE AppProofs -----------------------------
(***************************************************************************)
(* Proofs about UploadQueue, for every set of sync objects, names and      *)
(* sizes and every bound; and about SyncSchedule, for every day length,    *)
(* time of day, interval, window and bound.                                *)
(***************************************************************************)
EXTENDS UploadQueue, SyncSchedule, FiniteSetTheorems, TLAPS

Content == [no : Contents \cup {-1}, size : Nat, whole : BOOLEAN]
Ids     == Files \X Nat

Steps == {"idle", "none", "ended", "top", "wifi", "item", "begin", "look", "send", "create",
          "mark", "delete"}
AtAFile == {"begin", "look", "send", "create", "mark", "delete"}

UploadTypeOK ==
    /\ file \in [Files -> Content] /\ marks \subseteq Ids
    /\ pc \in [Uploaders -> Steps] /\ todo \in [Loops -> SUBSET Names]
    /\ name \in [Uploaders -> Files] /\ snap \in [Uploaders -> SUBSET Ids]
    /\ size \in [Uploaders -> Nat] /\ body \in [Uploaders -> Content]
    /\ writing \in Content
    /\ count \in 0 .. MaxChunks /\ nameOf \in [Contents -> Files]
    /\ uploads \in [Contents -> Nat]

(* A file's content has the file's name.                                   *)
NamesMatch ==
    /\ nameOf[0] = Local /\ \A c \in 1 .. count : nameOf[c] \in Names
    /\ \A f \in Files : Exists(f) => file[f].no <= count /\ nameOf[file[f].no] = f
    /\ writing # Absent => writing.no \in 1 .. count /\ writing.whole

(* What may become of the file of this name is of no account any more.     *)
Safe(c) == uploads[c] > 0 \/ Reused(c) \/ c \in torn

SafeName(n) ==
    /\ \E c \in 1 .. count : nameOf[c] = n
    /\ \A c \in 1 .. count : nameOf[c] = n => Safe(c)

SafeIds(S) == \A id \in S : id[1] \in Names => SafeName(id[1])

(* What an uploader has in hand.                                           *)
InHand(u) ==
    /\ u \in Loops /\ pc[u] \in AtAFile => name[u] \in Names
    /\ pc[u] \in {"look", "delete"} /\ name[u] \in Names => SafeName(name[u])
    /\ SafeIds(snap[u])
    /\ pc[u] \in {"create", "mark"} =>
         /\ body[u].no \in 0 .. count /\ nameOf[body[u].no] = name[u]
         /\ body[u].whole \/ body[u].no \in torn
    /\ pc[u] = "mark" /\ body[u].whole => uploads[body[u].no] > 0

UploadInv ==
    /\ UploadTypeOK /\ NamesMatch /\ NothingLost
    /\ SafeIds(marks)
    /\ \A u \in Uploaders : InHand(u)

Keeps ==
    /\ UNCHANGED <<count, nameOf>> /\ torn \subseteq torn'
    /\ \A c \in Contents : uploads[c] > 0 => uploads'[c] > 0

Same(u) == pc'[u] = pc[u] /\ name'[u] = name[u] /\ snap'[u] = snap[u] /\ body'[u] = body[u]

LEMMA Sets ==
    /\ Loops \subseteq Uploaders /\ Page \in Uploaders /\ Page \notin Loops
    /\ \A u \in Uploaders : u # Page => u \in Loops
    /\ Names \subseteq Files /\ Local \in Files /\ Local \notin Names /\ Sizes \subseteq Nat
    /\ MaxChunks \in Nat /\ Contents = 0 .. MaxChunks
BY UploadAssumption DEF Uploaders, Files, Contents, Chunks

LEMMA Numbers ==
    ASSUME UploadTypeOK
    PROVE  /\ count \in Nat /\ 0 .. count \subseteq Contents
           /\ 1 .. count \subseteq Contents /\ 1 .. count \subseteq 0 .. count
BY Sets DEF UploadTypeOK

(* Uploads and torn chunks are never taken back: what is safe stays so.    *)
LEMMA KeepsSafe ==
    ASSUME UploadTypeOK, Keeps
    PROVE  /\ \A c \in 1 .. count : Safe(c) => Safe(c)'
           /\ \A n \in Files : SafeName(n) => SafeName(n)'
           /\ \A S \in SUBSET Ids : SafeIds(S) => \A id \in S : id[1] \in Names => SafeName(id[1])'
<1>1. \A c \in 1 .. count : c \in Contents
  BY Numbers
<1>2. \A c \in 1 .. count : Safe(c) => Safe(c)'
  BY <1>1 DEF Keeps, Safe, Reused
<1>3. \A n \in Files : SafeName(n) => SafeName(n)'
  <2>. SUFFICES ASSUME NEW n \in Files, SafeName(n) PROVE SafeName(n)'
    OBVIOUS
  <2>1. count' = count /\ nameOf' = nameOf
    BY DEF Keeps
  <2>. QED
    BY <1>2, <2>1 DEF SafeName
<1>. QED
  BY <1>2, <1>3, Sets DEF SafeIds, Ids

(* The same as a chunk is begun: another of its name makes both reused.    *)
LEMMA BeginKeepsSafe ==
    ASSUME UploadTypeOK, NEW n0 \in Names, count < MaxChunks, count' = count + 1,
           nameOf' = [nameOf EXCEPT ![count + 1] = n0], UNCHANGED <<uploads, torn>>
    PROVE  /\ \A c \in 1 .. count : Safe(c) => Safe(c)'
           /\ \A c \in 1 .. count : nameOf[c] = n0 => Safe(c)'
           /\ \A n \in Files : SafeName(n) => SafeName(n)'
<1>1. /\ count \in Nat /\ count + 1 \in Contents /\ count + 1 \in 1 .. count'
      /\ \A c \in 1 .. count : c \in Contents /\ c # count + 1 /\ c \in 1 .. count'
  BY Sets DEF UploadTypeOK
<1>2. /\ \A c \in 1 .. count : nameOf'[c] = nameOf[c]
      /\ nameOf'[count + 1] = n0
  BY <1>1 DEF UploadTypeOK
<1>3. \A c \in 1 .. count : Reused(c) => Reused(c)'
  BY <1>1, <1>2 DEF Reused
<1>4. \A c \in 1 .. count : Safe(c) => Safe(c)'
  BY <1>3 DEF Safe
<1>5. ASSUME NEW c \in 1 .. count, NEW d, d = count + 1, nameOf[c] = n0
      PROVE  Reused(c)' /\ Reused(d)'
  <2>1. nameOf'[c] = nameOf'[d] /\ c # d /\ c \in 1 .. count' /\ d \in 1 .. count'
    BY <1>1, <1>2, <1>5
  <2>. QED
    BY <2>1 DEF Reused
<1>6. ASSUME NEW n \in Files, SafeName(n) PROVE SafeName(n)'
  <2>1. PICK d \in 1 .. count : nameOf[d] = n
    BY <1>6 DEF SafeName
  <2>2. \E c \in 1 .. count' : nameOf'[c] = n
    BY <1>1, <1>2, <2>1
  <2>3. ASSUME NEW c \in 1 .. count', nameOf'[c] = n PROVE Safe(c)'
    <3>1. CASE c \in 1 .. count
      BY <1>2, <1>4, <1>6, <2>3, <3>1 DEF SafeName
    <3>2. CASE c = count + 1
      <4>1. n = n0
        BY <1>2, <2>3, <3>2
      <4>. QED
        BY <1>5, <2>1, <3>2, <4>1 DEF Safe
    <3>. QED
      BY <1>1, <2>3, <3>1, <3>2
  <2>. QED
    BY <2>2, <2>3 DEF SafeName
<1>7. ASSUME NEW c \in 1 .. count, nameOf[c] = n0 PROVE Safe(c)'
  BY <1>1, <1>5, <1>7 DEF Safe
<1>. QED
  BY <1>4, <1>6, <1>7

LEMMA NotLost == NothingLost <=> \A c \in 1 .. count : file[nameOf[c]].no = c \/ Safe(c)
BY DEF NothingLost, Safe

LEMMA HandKeeps ==
    ASSUME UploadTypeOK, Keeps, NEW v \in Uploaders, InHand(v), Same(v)
    PROVE  InHand(v)'
<1>1. name[v] \in Files /\ snap[v] \in SUBSET Ids
  BY DEF UploadTypeOK
<1>2. pc[v] \in {"look", "delete"} /\ name[v] \in Names => SafeName(name[v])'
  <2>. SUFFICES ASSUME pc[v] \in {"look", "delete"}, name[v] \in Names
                PROVE  SafeName(name[v])'
    OBVIOUS
  <2>1. PICK n \in Files : n = name[v] /\ n = name'[v]
    BY <1>1 DEF Same
  <2>2. SafeName(n)
    BY <2>1 DEF InHand
  <2>3. SafeName(n)'
    BY <2>2, KeepsSafe
  <2>. QED
    BY <2>1, <2>3
<1>3. SafeIds(snap[v])'
  BY <1>1, KeepsSafe DEF InHand, SafeIds, Same
<1>4. pc[v] \in {"create", "mark"} => body[v].no \in Contents
  BY Numbers DEF InHand
<1>. QED
  BY <1>2, <1>3, <1>4 DEF InHand, Same, Keeps

(* With nothing in hand but what it remembers.                             *)
LEMMA HandEmpty ==
    ASSUME UploadTypeOK, Keeps, NEW v \in Uploaders, InHand(v), pc'[v] \notin AtAFile,
           snap'[v] = {} \/ snap'[v] = snap[v]
    PROVE  InHand(v)'
<1>1. snap[v] \in SUBSET Ids /\ SafeIds(snap[v])
  BY DEF UploadTypeOK, InHand
<1>2. SafeIds(snap[v])'
  BY <1>1, KeepsSafe DEF SafeIds
<1>. QED
  BY <1>2 DEF InHand, AtAFile

LEMMA LostKeeps ==
    ASSUME UploadTypeOK, NothingLost, Keeps,
           \A n \in Names : file'[n].no = file[n].no, NamesMatch
    PROVE  NothingLost'
<1>1. \A c \in 1 .. count : file[nameOf[c]].no = c \/ Safe(c)
  BY NotLost
<1>2. \A c \in 1 .. count : file'[nameOf[c]].no = c \/ Safe(c)'
  BY <1>1, KeepsSafe DEF NamesMatch
<1>3. count' = count /\ nameOf' = nameOf
  BY DEF Keeps
<1>. QED
  BY <1>2, <1>3 DEF NothingLost, Safe

(* What one uploader does without touching a file.                         *)
LEMMA UploaderStep ==
    ASSUME UploadInv, UploadTypeOK', Keeps, UNCHANGED <<file, writing>>,
           NEW u \in Uploaders, \A v \in Uploaders \ {u} : Same(v), InHand(u)',
           marks' = marks \/ SafeIds(marks)'
    PROVE  UploadInv'
<1>1. NamesMatch'
  BY DEF UploadInv, NamesMatch, Keeps, Exists
<1>2. NothingLost'
  BY LostKeeps DEF UploadInv
<1>3. SafeIds(marks)'
  <2>1. CASE marks' = marks
    <3>1. marks \in SUBSET Ids /\ SafeIds(marks)
      BY DEF UploadInv, UploadTypeOK
    <3>2. \A id \in marks : id[1] \in Names => SafeName(id[1])'
      BY <3>1, KeepsSafe DEF UploadInv
    <3>. QED
      BY <2>1, <3>2 DEF SafeIds
  <2>. QED
    BY <2>1
<1>4. \A v \in Uploaders : InHand(v)'
  BY HandKeeps DEF UploadInv
<1>. QED
  BY <1>1, <1>2, <1>3, <1>4 DEF UploadInv

(* Where Leave and Return take an uploader.                                *)
LEMMA ForgetTo ==
    ASSUME UploadTypeOK, NEW u \in Uploaders, Forget(u)
    PROVE  /\ snap'[u] = {} /\ snap' \in [Uploaders -> SUBSET Ids]
           /\ size' \in [Uploaders -> Nat] /\ body' \in [Uploaders -> Content]
           /\ \A v \in Uploaders \ {u} : snap'[v] = snap[v] /\ body'[v] = body[v]
<1>1. Absent \in Content
  BY DEF Absent, Content
<1>. HIDE DEF Absent, Content
<1>. QED
  BY <1>1 DEF Forget, UploadTypeOK

LEMMA GotoStep ==
    ASSUME UploadTypeOK, NEW u \in Uploaders, NEW to \in Steps, Goto(u, to)
    PROVE  /\ pc'[u] = to /\ pc' \in [Uploaders -> Steps]
           /\ \A v \in Uploaders \ {u} : pc'[v] = pc[v]
BY DEF Goto, UploadTypeOK

LEMMA BreakTo ==
    ASSUME UploadTypeOK, NEW u \in Loops, Break(u)
    PROVE  /\ pc'[u] = "top" /\ pc' \in [Uploaders -> Steps]
           /\ todo' \in [Loops -> SUBSET Names] /\ name' \in [Uploaders -> Files]
           /\ \A v \in Uploaders \ {u} : pc'[v] = pc[v] /\ name'[v] = name[v]
<1>1. u \in Uploaders /\ "top" \in Steps /\ Local \in Files
  BY Sets DEF Steps
<1>2. Goto(u, "top") /\ todo' = [todo EXCEPT ![u] = {}] /\ name' = [name EXCEPT ![u] = Local]
  BY DEF Break
<1>. QED
  BY <1>1, <1>2, GotoStep DEF UploadTypeOK

LEMMA LeaveTo ==
    ASSUME UploadTypeOK, NEW u \in Uploaders, Leave(u)
    PROVE  /\ pc'[u] \in {"idle", "top"} /\ snap'[u] = {} /\ \A v \in Uploaders \ {u} : Same(v)
           /\ pc' \in [Uploaders -> Steps] /\ todo' \in [Loops -> SUBSET Names]
           /\ name' \in [Uploaders -> Files] /\ snap' \in [Uploaders -> SUBSET Ids]
           /\ size' \in [Uploaders -> Nat] /\ body' \in [Uploaders -> Content]
<1>1. Forget(u)
  BY DEF Leave
<1>2. CASE u = Page
  <2>1. Goto(u, "idle") /\ UNCHANGED <<todo, name>> /\ "idle" \in Steps
    BY <1>2 DEF Leave, Steps
  <2>. QED
    BY <1>1, <2>1, ForgetTo, GotoStep DEF Same, UploadTypeOK
<1>3. CASE u # Page
  <2>1. Break(u) /\ u \in Loops
    BY <1>3, Sets DEF Leave
  <2>. QED
    BY <1>1, <2>1, ForgetTo, BreakTo DEF Same
<1>. QED
  BY <1>2, <1>3

LEMMA ReturnTo ==
    ASSUME UploadTypeOK, NEW u \in Uploaders, Return(u), UNCHANGED <<todo, name>>
    PROVE  /\ pc'[u] \in {"idle", "delete"} /\ snap'[u] = {}
           /\ \A v \in Uploaders \ {u} : Same(v)
           /\ pc' \in [Uploaders -> Steps] /\ snap' \in [Uploaders -> SUBSET Ids]
           /\ size' \in [Uploaders -> Nat] /\ body' \in [Uploaders -> Content]
<1> DEFINE to == IF u = Page THEN "idle" ELSE "delete"
<1>1. Forget(u) /\ Goto(u, to) /\ to \in Steps /\ to \in {"idle", "delete"}
  BY DEF Return, Steps
<1>. HIDE DEF to
<1>. QED
  BY <1>1, ForgetTo, GotoStep DEF Same

(***************************************************************************)
(* uploadIfNew, step by step.                                              *)
(***************************************************************************)
LEMMA BeginInv ==
    ASSUME UploadInv, NEW u \in Uploaders, Begin(u)
    PROVE  UploadInv'
<1>1. UploadTypeOK /\ InHand(u) /\ Keeps /\ UNCHANGED <<file, writing>> /\ marks' = marks
  BY DEF UploadInv, Begin, Keeps, shelf, written
<1>2. CASE Exists(name[u])
  <2>1. /\ snap' = [snap EXCEPT ![u] = marks] /\ size' = [size EXCEPT ![u] = file[name[u]].size]
        /\ pc' = [pc EXCEPT ![u] = IF <<name[u], file[name[u]].size>> \in marks THEN "look" ELSE "send"]
        /\ UNCHANGED <<body, todo, name>>
    BY <1>2 DEF Begin, Goto
  <2>2. /\ pc'[u] \in {"look", "send"} /\ snap'[u] = marks
        /\ pc'[u] = "look" => <<name[u], file[name[u]].size>> \in marks
    BY <1>1, <2>1 DEF UploadTypeOK
  <2>3. \A v \in Uploaders \ {u} : Same(v)
    BY <1>1, <2>1 DEF UploadTypeOK, Same
  <2>4. UploadTypeOK'
    BY <1>1, <2>1 DEF UploadTypeOK, Begin, shelf, control, written, Content, Steps
  <2>5. SafeIds(marks) /\ marks \in SUBSET Ids
    BY <1>1 DEF UploadInv, UploadTypeOK
  <2>6. \A id \in marks : id[1] \in Names => SafeName(id[1])'
    BY <1>1, <2>5, KeepsSafe
  <2>7. pc'[u] = "look" /\ name[u] \in Names => SafeName(name[u])'
    <3>. SUFFICES ASSUME NEW n \in Names, n = name[u], pc'[u] = "look"
                  PROVE  SafeName(n)'
      BY <2>1
    <3>1. SafeName(n)
      BY <2>2, <2>5 DEF SafeIds
    <3>. QED
      BY <1>1, <3>1, Sets, KeepsSafe
  <2>8. pc[u] = "begin" /\ (u \in Loops => name[u] \in Names)
    BY <1>1 DEF Begin, InHand, AtAFile
  <2>9. InHand(u)'
    BY <2>1, <2>2, <2>6, <2>7, <2>8 DEF InHand, SafeIds
  <2>. QED
    BY <1>1, <2>3, <2>4, <2>9, UploaderStep
<1>3. CASE ~Exists(name[u])
  <2>1. Leave(u)
    BY <1>3 DEF Begin
  <2>2. UploadTypeOK'
    BY <1>1, <2>1, LeaveTo DEF UploadTypeOK, Begin, shelf, control, written
  <2>3. InHand(u)'
    BY <1>1, <2>1, LeaveTo, HandEmpty DEF AtAFile
  <2>. QED
    BY <1>1, <2>1, <2>2, <2>3, LeaveTo, UploaderStep
<1>. QED
  BY <1>2, <1>3

LEMMA ReturnHand ==
    ASSUME UploadTypeOK, NEW u \in Uploaders, InHand(u), pc[u] \in AtAFile,
           Return(u), UNCHANGED <<todo, name>>, name[u] \in Names => SafeName(name[u])'
    PROVE  InHand(u)'
<1>1. u \in Loops => name[u] \in Names
  BY DEF InHand
<1>2. pc'[u] \in {"idle", "delete"} /\ snap'[u] = {} /\ name' = name
  BY ReturnTo
<1>. QED
  BY <1>1, <1>2 DEF InHand, SafeIds

LEMMA LookInv ==
    ASSUME UploadInv, NEW u \in Uploaders, Look(u)
    PROVE  UploadInv'
<1>1. /\ UploadTypeOK /\ InHand(u) /\ Keeps /\ UNCHANGED <<file, writing>> /\ marks' = marks
      /\ pc[u] = "look" /\ UNCHANGED <<todo, name>>
  BY DEF UploadInv, Look, Keeps, shelf, written
<1>2. ASSUME NEW n \in Names, n = name[u] PROVE SafeName(n)'
  <2>1. SafeName(n)
    BY <1>1, <1>2 DEF InHand
  <2>. QED
    BY <1>1, <2>1, Sets, KeepsSafe
<1>3. CASE Return(u)
  <2>1. UploadTypeOK'
    BY <1>1, <1>3, ReturnTo DEF UploadTypeOK, Look, shelf, control, written
  <2>2. InHand(u)'
    BY <1>1, <1>2, <1>3, ReturnHand DEF AtAFile
  <2>. QED
    BY <1>1, <1>3, <2>1, <2>2, ReturnTo, UploaderStep
<1>4. CASE Goto(u, "send") /\ UNCHANGED <<snap, size, body>>
  <2>1. "send" \in Steps
    BY DEF Steps
  <2>2. UploadTypeOK'
    BY <1>1, <1>4, <2>1, GotoStep DEF UploadTypeOK, Look, shelf, control, written
  <2>3. /\ \A v \in Uploaders \ {u} : Same(v)
        /\ pc'[u] = "send"
    BY <1>1, <1>4, <2>1, GotoStep DEF Same
  <2>4. SafeIds(snap[u]) /\ snap[u] \in SUBSET Ids
    BY <1>1 DEF InHand, UploadTypeOK
  <2>5. SafeIds(snap[u])'
    BY <1>1, <1>4, <2>4, KeepsSafe DEF SafeIds
  <2>6. InHand(u)'
    BY <1>1, <1>4, <2>3, <2>5 DEF InHand, AtAFile
  <2>. QED
    BY <1>1, <2>2, <2>3, <2>6, UploaderStep
<1>. QED
  BY <1>3, <1>4 DEF Look

LEMMA SendInv ==
    ASSUME UploadInv, NEW u \in Uploaders, Send(u)
    PROVE  UploadInv'
<1>1. /\ UploadTypeOK /\ NamesMatch /\ InHand(u) /\ Keeps /\ UNCHANGED <<file, writing>>
      /\ marks' = marks /\ pc[u] = "send"
  BY DEF UploadInv, Send, Keeps, shelf, written
<1>2. CASE Exists(name[u])
  <2>1. /\ body' = [body EXCEPT ![u] = file[name[u]]]
        /\ torn' = IF file[name[u]].whole THEN torn ELSE torn \cup {file[name[u]].no}
        /\ Goto(u, "create") /\ UNCHANGED <<snap, size, todo, name>>
    BY <1>2 DEF Send
  <2>2. "create" \in Steps /\ name[u] \in Files /\ file[name[u]] \in Content
    BY <1>1 DEF Steps, UploadTypeOK
  <2>3. UploadTypeOK'
    BY <1>1, <2>1, <2>2, GotoStep DEF UploadTypeOK, Send, shelf, control, written
  <2>4. /\ \A v \in Uploaders \ {u} : Same(v)
        /\ pc'[u] = "create" /\ body'[u] = file[name[u]]
    BY <1>1, <2>1, <2>2, GotoStep DEF Same, UploadTypeOK
  <2>5. SafeIds(snap[u]) /\ snap[u] \in SUBSET Ids
    BY <1>1 DEF InHand, UploadTypeOK
  <2>6. SafeIds(snap[u])'
    BY <1>1, <2>1, <2>5, KeepsSafe DEF SafeIds
  <2>7. file[name[u]].no \in 0 .. count /\ nameOf[file[name[u]].no] = name[u]
    <3>1. file[name[u]].no \in Contents \cup {-1} /\ file[name[u]].no >= 0
      BY <1>2, <2>2 DEF Content, Exists
    <3>2. file[name[u]].no <= count /\ nameOf[file[name[u]].no] = name[u]
      BY <1>1, <1>2, <2>2 DEF NamesMatch
    <3>. QED
      BY <1>1, <3>1, <3>2, Sets, Numbers
  <2>8. body'[u].whole \/ body'[u].no \in torn'
    BY <2>1, <2>4
  <2>9. u \in Loops => name[u] \in Names
    BY <1>1 DEF InHand, AtAFile
  <2>10. InHand(u)'
    BY <1>1, <2>1, <2>4, <2>6, <2>7, <2>8, <2>9 DEF InHand, Keeps
  <2>. QED
    BY <1>1, <2>3, <2>4, <2>10, UploaderStep
<1>3. CASE ~Exists(name[u])
  <2>1. Leave(u)
    BY <1>3 DEF Send
  <2>2. UploadTypeOK'
    BY <1>1, <2>1, LeaveTo DEF UploadTypeOK, Send, shelf, control, written
  <2>3. InHand(u)'
    BY <1>1, <2>1, LeaveTo, HandEmpty DEF AtAFile
  <2>. QED
    BY <1>1, <2>1, <2>2, <2>3, LeaveTo, UploaderStep
<1>. QED
  BY <1>2, <1>3

LEMMA StoredKeeps ==
    ASSUME UploadTypeOK, NEW u \in Uploaders, InHand(u), pc[u] = "create", Stored(u)
    PROVE  /\ uploads' \in [Contents -> Nat]
           /\ \A c \in Contents : uploads[c] > 0 => uploads'[c] > 0
           /\ body[u].whole => uploads'[body[u].no] > 0
<1>1. body[u].no \in Contents
  BY Numbers DEF InHand
<1>2. CASE body[u].whole
  <2>1. uploads' = [uploads EXCEPT ![body[u].no] = @ + 1]
    BY <1>2 DEF Stored
  <2>. QED
    BY <1>1, <2>1 DEF UploadTypeOK
<1>3. CASE ~body[u].whole
  BY <1>3 DEF Stored, UploadTypeOK
<1>. QED
  BY <1>2, <1>3

LEMMA CreateInv ==
    ASSUME UploadInv, NEW u \in Uploaders, Create(u)
    PROVE  UploadInv'
<1>1. /\ UploadTypeOK /\ InHand(u) /\ pc[u] = "create" /\ Stored(u) /\ Goto(u, "mark")
      /\ UNCHANGED <<file, marks, todo, name, snap, size, body, writing, count, nameOf, torn>>
  BY DEF UploadInv, Create, item, written
<1>2. Keeps
  BY <1>1, StoredKeeps DEF Keeps
<1>3. "mark" \in Steps
  BY DEF Steps
<1>4. UploadTypeOK'
  BY <1>1, <1>3, GotoStep, StoredKeeps DEF UploadTypeOK
<1>5. /\ \A v \in Uploaders \ {u} : Same(v)
      /\ pc'[u] = "mark"
  BY <1>1, <1>3, GotoStep DEF Same
<1>6. SafeIds(snap[u]) /\ snap[u] \in SUBSET Ids
  BY <1>1 DEF InHand, UploadTypeOK
<1>7. SafeIds(snap[u])'
  BY <1>1, <1>2, <1>6, KeepsSafe DEF SafeIds
<1>8. body[u].whole => uploads'[body[u].no] > 0
  BY <1>1, StoredKeeps
<1>9. InHand(u)'
  BY <1>1, <1>5, <1>7, <1>8 DEF InHand, AtAFile
<1>. QED
  BY <1>1, <1>2, <1>4, <1>5, <1>9, UploaderStep

LEMMA FailInv ==
    ASSUME UploadInv, NEW u \in Uploaders, ReplyLost(u) \/ NetworkFails(u)
    PROVE  UploadInv'
<1>1. UploadTypeOK /\ InHand(u) /\ Leave(u)
  BY DEF UploadInv, ReplyLost, NetworkFails
<1>2. CASE ReplyLost(u)
  <2>1. UNCHANGED <<file, marks, writing, count, nameOf, torn>>
    BY <1>2 DEF ReplyLost, written
  <2>2. Keeps /\ uploads' \in [Contents -> Nat]
    BY <1>1, <1>2, <2>1, StoredKeeps DEF ReplyLost, Keeps
  <2>3. UploadTypeOK'
    BY <1>1, <2>1, <2>2, LeaveTo DEF UploadTypeOK
  <2>4. InHand(u)'
    BY <1>1, <2>2, LeaveTo, HandEmpty DEF AtAFile
  <2>. QED
    BY <1>1, <2>1, <2>2, <2>3, <2>4, LeaveTo, UploaderStep
<1>3. CASE NetworkFails(u)
  <2>1. UNCHANGED <<file, marks, writing, count, nameOf, torn, uploads>>
    BY <1>3 DEF NetworkFails, shelf, written
  <2>2. Keeps
    BY <2>1 DEF Keeps
  <2>3. UploadTypeOK'
    BY <1>1, <2>1, LeaveTo DEF UploadTypeOK
  <2>4. InHand(u)'
    BY <1>1, <2>2, LeaveTo, HandEmpty DEF AtAFile
  <2>. QED
    BY <1>1, <2>1, <2>2, <2>3, <2>4, LeaveTo, UploaderStep
<1>. QED
  BY <1>2, <1>3

LEMMA MarkInv ==
    ASSUME UploadInv, NEW u \in Uploaders, Mark(u)
    PROVE  UploadInv'
<1>1. /\ UploadTypeOK /\ NamesMatch /\ InHand(u) /\ pc[u] = "mark" /\ Return(u)
      /\ marks' = snap[u] \cup {<<name[u], size[u]>>}
      /\ UNCHANGED <<file, todo, name, writing, count, nameOf, torn, uploads>>
  BY DEF UploadInv, Mark, Id, drive, written
<1>2. Keeps
  BY <1>1 DEF Keeps
<1>3. ASSUME NEW n \in Names, n = name[u]
      PROVE  SafeName(n) /\ SafeName(n)'
  <2>1. PICK d \in 1 .. count : d = body[u].no /\ nameOf[d] = n /\ Safe(d)
    <3>1. body[u].no \in 0 .. count /\ nameOf[body[u].no] = n
      BY <1>1, <1>3 DEF InHand
    <3>2. body[u].no # 0
      BY <1>1, <1>3, <3>1, Sets DEF NamesMatch
    <3>3. body[u].no \in 1 .. count
      BY <1>1, <3>1, <3>2, Numbers
    <3>4. uploads[body[u].no] > 0 \/ body[u].no \in torn
      BY <1>1 DEF InHand
    <3>. QED
      BY <3>1, <3>3, <3>4 DEF Safe
  <2>2. \A c \in 1 .. count : nameOf[c] = n => c = d \/ Reused(c)
    BY <2>1 DEF Reused
  <2>3. SafeName(n)
    BY <2>1, <2>2 DEF SafeName, Safe
  <2>. QED
    BY <1>1, <1>2, <2>3, Sets, KeepsSafe
<1>4. UploadTypeOK'
  <2>1. <<name[u], size[u]>> \in Ids /\ snap[u] \subseteq Ids
    BY <1>1 DEF UploadTypeOK, Ids
  <2>. QED
    BY <1>1, <2>1, ReturnTo DEF UploadTypeOK
<1>5. SafeIds(marks)'
  <2>1. SafeIds(snap[u]) /\ snap[u] \in SUBSET Ids
    BY <1>1 DEF InHand, UploadTypeOK
  <2>2. \A id \in snap[u] : id[1] \in Names => SafeName(id[1])'
    BY <1>1, <1>2, <2>1, KeepsSafe
  <2>3. ASSUME NEW id, id = <<name[u], size[u]>>, id[1] \in Names PROVE SafeName(id[1])'
    BY <1>3, <2>3
  <2>. QED
    BY <1>1, <2>2, <2>3 DEF SafeIds
<1>6. InHand(u)'
  BY <1>1, <1>3, ReturnHand DEF AtAFile
<1>. QED
  BY <1>1, <1>2, <1>4, <1>5, <1>6, ReturnTo, UploaderStep

(***************************************************************************)
(* The upload loop, and who starts and stops it.                           *)
(***************************************************************************)
LEMMA LoopTurnInv ==
    ASSUME UploadInv, NEW l \in Loops, Ended(l) \/ Turn(l) \/ CheckWifi(l) \/ NextItem(l) \/ Start(l)
    PROVE  UploadInv'
<1>1. /\ UploadTypeOK /\ InHand(l) /\ l \in Uploaders
      /\ UNCHANGED <<file, marks, snap, size, body, writing, count, nameOf, torn, uploads>>
  BY Sets DEF UploadInv, Ended, Turn, CheckWifi, NextItem, Start, shelf, item, written
<1>2. Keeps
  BY <1>1 DEF Keeps
<1>3. /\ "top" \in Steps /\ "ended" \in Steps /\ "wifi" \in Steps /\ "item" \in Steps
      /\ "begin" \in Steps
  BY DEF Steps
<1>4. ASSUME NEW to \in Steps, to \notin AtAFile, Goto(l, to), todo' \in [Loops -> SUBSET Names],
             UNCHANGED name
      PROVE  UploadInv'
  <2>1. UploadTypeOK'
    BY <1>1, <1>4, GotoStep DEF UploadTypeOK
  <2>2. InHand(l)'
    BY <1>1, <1>2, <1>4, GotoStep, HandEmpty
  <2>3. \A v \in Uploaders \ {l} : Same(v)
    BY <1>1, <1>4, GotoStep DEF Same
  <2>. QED
    BY <1>1, <1>2, <2>1, <2>2, <2>3, UploaderStep
<1>5. ASSUME Break(l)
      PROVE  UploadInv'
  <2>1. UploadTypeOK'
    BY <1>1, <1>5, BreakTo DEF UploadTypeOK
  <2>2. InHand(l)'
    BY <1>1, <1>2, <1>5, BreakTo, HandEmpty DEF AtAFile
  <2>3. \A v \in Uploaders \ {l} : Same(v)
    BY <1>1, <1>5, BreakTo DEF Same
  <2>. QED
    BY <1>1, <1>2, <2>1, <2>2, <2>3, UploaderStep
<1>6. CASE Ended(l) \/ Start(l)
  <2>1. PICK to \in {"ended", "top"} : Goto(l, to)
    BY <1>6 DEF Ended, Start
  <2>2. UNCHANGED <<todo, name>>
    BY <1>6 DEF Ended, Start, item
  <2>. QED
    BY <1>1, <1>3, <1>4, <2>1, <2>2 DEF AtAFile, UploadTypeOK
<1>7. CASE Turn(l)
  <2>1. PICK to \in {"wifi", "item"} : Goto(l, to)
    BY <1>7 DEF Turn
  <2>2. UNCHANGED name /\ todo' = [todo EXCEPT ![l] = {n \in Names : Exists(n)}]
    BY <1>7 DEF Turn, item
  <2>3. todo' \in [Loops -> SUBSET Names]
    BY <1>1, <2>2 DEF UploadTypeOK
  <2>. QED
    BY <1>3, <1>4, <2>1, <2>2, <2>3 DEF AtAFile
<1>8. CASE CheckWifi(l)
  <2>1. CASE wifi
    BY <1>1, <1>3, <1>4, <1>8, <2>1 DEF CheckWifi, AtAFile, UploadTypeOK
  <2>2. CASE ~wifi
    BY <1>5, <1>8, <2>2 DEF CheckWifi
  <2>. QED
    BY <2>1, <2>2
<1>9. CASE NextItem(l)
  <2>1. CASE Done(l)
    BY <1>5, <1>9, <2>1 DEF NextItem
  <2>2. CASE ~Done(l)
    <3>1. PICK n \in todo[l] : /\ todo' = [todo EXCEPT ![l] = @ \ {n}]
                               /\ name' = [name EXCEPT ![l] = n] /\ Goto(l, "begin")
      BY <1>9, <2>2 DEF NextItem
    <3>2. n \in Names /\ n \in Files
      BY <1>1, Sets DEF UploadTypeOK
    <3>3. UploadTypeOK'
      BY <1>1, <1>3, <3>1, <3>2, GotoStep DEF UploadTypeOK
    <3>4. /\ \A v \in Uploaders \ {l} : Same(v)
          /\ pc'[l] = "begin" /\ name'[l] = n
      BY <1>1, <1>3, <3>1, GotoStep DEF Same, UploadTypeOK
    <3>5. SafeIds(snap[l]) /\ snap[l] \in SUBSET Ids
      BY <1>1 DEF InHand, UploadTypeOK
    <3>6. SafeIds(snap[l])'
      BY <1>1, <1>2, <3>5, KeepsSafe DEF SafeIds
    <3>7. InHand(l)'
      BY <1>1, <3>2, <3>4, <3>6 DEF InHand
    <3>. QED
      BY <1>1, <1>2, <3>3, <3>4, <3>7, UploaderStep
  <2>. QED
    BY <2>1, <2>2
<1>. QED
  BY <1>6, <1>7, <1>8, <1>9

LEMMA DeleteInv ==
    ASSUME UploadInv, NEW l \in Loops, Delete(l)
    PROVE  UploadInv'
<1>1. /\ UploadTypeOK /\ NamesMatch /\ NothingLost /\ InHand(l) /\ l \in Uploaders /\ pc[l] = "delete"
      /\ UNCHANGED <<marks, snap, size, body, writing, count, nameOf, torn, uploads>>
      /\ name[l] \in Names
  BY Sets DEF UploadInv, InHand, AtAFile, Delete, drive, written
<1>2. Keeps /\ SafeIds(marks)'
  <2>1. Keeps
    BY <1>1 DEF Keeps
  <2>2. marks \in SUBSET Ids /\ SafeIds(marks)
    BY DEF UploadInv, UploadTypeOK
  <2>. QED
    BY <1>1, <2>1, <2>2, KeepsSafe DEF SafeIds
<1>3. CASE Exists(name[l])
  <2>1. /\ file' = [file EXCEPT ![name[l]] = Absent] /\ Goto(l, "item") /\ UNCHANGED <<todo, name>>
        /\ "item" \in Steps
    BY <1>3 DEF Delete, Steps
  <2>2. /\ file'[name[l]].no = -1
        /\ \A f \in Files \ {name[l]} : file'[f] = file[f]
    BY <1>1, <2>1, Sets DEF UploadTypeOK, Absent
  <2>3. UploadTypeOK'
    <3>1. Absent \in Content
      BY DEF Absent, Content
    <3>2. file' \in [Files -> Content]
      BY <1>1, <2>1, <3>1 DEF UploadTypeOK
    <3>. QED
      BY <1>1, <2>1, <3>2, GotoStep DEF UploadTypeOK
  <2>4. NamesMatch'
    <3>1. \A f \in Files : file'[f].no >= 0 => file'[f] = file[f]
      BY <2>2
    <3>. QED
      BY <1>1, <3>1 DEF NamesMatch, Exists
  <2>5. NothingLost'
    <3>1. SafeName(name[l])
      BY <1>1 DEF InHand
    <3>2. ASSUME NEW c \in 1 .. count PROVE file'[nameOf[c]].no = c \/ Safe(c)
      <4>1. CASE nameOf[c] = name[l]
        BY <3>1, <4>1 DEF SafeName
      <4>2. CASE nameOf[c] # name[l]
        BY <1>1, <2>2, <4>2, NotLost, Sets DEF NamesMatch
      <4>. QED
        BY <4>1, <4>2
    <3>. QED
      BY <1>1, <3>2 DEF NothingLost, Safe, Reused
  <2>6. \A v \in Uploaders \ {l} : Same(v)
    BY <1>1, <2>1, GotoStep DEF Same
  <2>7. InHand(l)'
    BY <1>1, <1>2, <2>1, GotoStep, HandEmpty DEF AtAFile
  <2>8. \A v \in Uploaders : InHand(v)'
    BY <1>1, <1>2, <2>6, <2>7, HandKeeps DEF UploadInv
  <2>. QED
    BY <1>2, <2>3, <2>4, <2>5, <2>8 DEF UploadInv
<1>4. CASE ~Exists(name[l])
  <2>1. Break(l) /\ UNCHANGED file
    BY <1>4 DEF Delete
  <2>2. UploadTypeOK'
    BY <1>1, <2>1, BreakTo DEF UploadTypeOK
  <2>3. InHand(l)'
    BY <1>1, <1>2, <2>1, BreakTo, HandEmpty DEF AtAFile
  <2>4. \A v \in Uploaders \ {l} : Same(v)
    BY <1>1, <2>1, BreakTo DEF Same
  <2>. QED
    BY <1>1, <1>2, <2>1, <2>2, <2>3, <2>4, UploaderStep
<1>. QED
  BY <1>3, <1>4

LEMMA PageUploadsInv ==
    ASSUME UploadInv, PageUploads
    PROVE  UploadInv'
<1>1. /\ UploadTypeOK /\ InHand(Page) /\ Page \in Uploaders /\ pc[Page] = "idle" /\ Goto(Page, "begin")
      /\ UNCHANGED <<file, marks, todo, snap, size, body, writing, count, nameOf, torn, uploads>>
      /\ name' = [name EXCEPT ![Page] = Local] /\ "begin" \in Steps
  BY Sets DEF UploadInv, PageUploads, shelf, written, Steps
<1>2. Keeps
  BY <1>1 DEF Keeps
<1>3. UploadTypeOK'
  BY <1>1, GotoStep, Sets DEF UploadTypeOK
<1>4. /\ \A v \in Uploaders \ {Page} : Same(v)
      /\ pc'[Page] = "begin"
  BY <1>1, GotoStep DEF Same, UploadTypeOK
<1>5. SafeIds(snap[Page]) /\ snap[Page] \in SUBSET Ids
  BY <1>1 DEF InHand, UploadTypeOK
<1>6. SafeIds(snap[Page])'
  BY <1>1, <1>2, <1>5, KeepsSafe DEF SafeIds
<1>7. InHand(Page)'
  BY <1>1, <1>4, <1>6, Sets DEF InHand
<1>. QED
  BY <1>1, <1>2, <1>3, <1>4, <1>7, UploaderStep

(* Taps, stops, settings, the Wi-Fi and what the user removes from Drive.  *)
LEMMA OutsideInv ==
    ASSUME UploadInv,
           UNCHANGED <<file, marks, pc, todo, name, snap, size, body, writing, count, nameOf, torn, uploads>>
    PROVE  UploadInv'
<1>1. UploadTypeOK /\ Keeps /\ UploadTypeOK'
  BY DEF UploadInv, UploadTypeOK, Keeps
<1>2. \A v \in Uploaders : Same(v)
  BY DEF Same
<1>3. InHand(Page)' /\ Page \in Uploaders
  BY <1>1, <1>2, HandKeeps, Sets DEF UploadInv
<1>. QED
  BY <1>1, <1>2, <1>3, UploaderStep

(***************************************************************************)
(* Chunks written, and the app killed.                                     *)
(***************************************************************************)
LEMMA BeginWriteInv ==
    ASSUME UploadInv, BeginWrite
    PROVE  UploadInv'
<1>1. PICK n0 \in Names, s \in Sizes :
        /\ nameOf' = [nameOf EXCEPT ![count + 1] = n0]
        /\ file' = [file EXCEPT ![n0] = [no |-> count + 1, size |-> 0, whole |-> FALSE]]
        /\ writing' = [no |-> count + 1, size |-> s, whole |-> TRUE]
  BY DEF BeginWrite
<1>2. /\ UploadTypeOK /\ NamesMatch /\ NothingLost /\ count < MaxChunks /\ count' = count + 1
      /\ UNCHANGED <<marks, pc, todo, name, snap, size, body, uploads, torn>>
  BY DEF UploadInv, BeginWrite, drive, item
<1>3. /\ count \in Nat /\ count + 1 \in Contents /\ n0 \in Files /\ s \in Nat
      /\ count + 1 \in 1 .. count' /\ count + 1 # -1 /\ count' \in 0 .. MaxChunks
      /\ \A c \in 0 .. count : c # count + 1 /\ c \in Contents
      /\ \A c \in 1 .. count' : c = count + 1 \/ c \in 1 .. count
  BY <1>2, Sets, Numbers DEF UploadTypeOK
<1>4. /\ nameOf'[count + 1] = n0 /\ \A c \in 0 .. count : nameOf'[c] = nameOf[c]
      /\ \A f \in Files \ {n0} : file'[f] = file[f]
      /\ file'[n0].no = count + 1
  BY <1>1, <1>2, <1>3 DEF UploadTypeOK
<1>5. /\ \A c \in 1 .. count : Safe(c) => Safe(c)'
      /\ \A c \in 1 .. count : nameOf[c] = n0 => Safe(c)'
      /\ \A n \in Files : SafeName(n) => SafeName(n)'
  <2>1. UploadTypeOK /\ n0 \in Names /\ count < MaxChunks /\ count' = count + 1
    BY <1>2
  <2>2. nameOf' = [nameOf EXCEPT ![count + 1] = n0] /\ UNCHANGED <<uploads, torn>>
    BY <1>1, <1>2
  <2>. QED
    BY <2>1, <2>2, BeginKeepsSafe
<1>6. UploadTypeOK'
  <2>1. /\ [no |-> count + 1, size |-> 0, whole |-> FALSE] \in Content
        /\ [no |-> count + 1, size |-> s, whole |-> TRUE] \in Content
    BY <1>3 DEF Content
  <2>. QED
    BY <1>1, <1>2, <1>3, <2>1 DEF UploadTypeOK
<1>7. NamesMatch'
  <2>1. nameOf'[0] = Local /\ \A c \in 1 .. count' : nameOf'[c] \in Names
    BY <1>2, <1>3, <1>4 DEF NamesMatch
  <2>2. ASSUME NEW f \in Files, file'[f].no >= 0
        PROVE  file'[f].no <= count' /\ nameOf'[file'[f].no] = f
    <3>1. CASE f = n0
      BY <1>2, <1>3, <1>4, <3>1
    <3>2. CASE f # n0
      <4>1. file'[f] = file[f] /\ file[f].no <= count /\ nameOf[file[f].no] = f
        BY <1>2, <1>4, <2>2, <3>2 DEF NamesMatch, Exists
      <4>2. file[f].no \in Contents \cup {-1}
        BY <1>2 DEF UploadTypeOK, Content
      <4>3. file[f].no \in 0 .. count
        BY <1>3, <2>2, <4>1, <4>2, Sets
      <4>. QED
        BY <1>2, <1>3, <1>4, <4>1, <4>3
    <3>. QED
      BY <3>1, <3>2
  <2>3. writing'.no \in 1 .. count' /\ writing'.whole
    BY <1>1, <1>3
  <2>. QED
    BY <2>1, <2>2, <2>3 DEF NamesMatch, Exists
<1>8. NothingLost'
  <2>1. ASSUME NEW c \in 1 .. count' PROVE file'[nameOf'[c]].no = c \/ Safe(c)'
    <3>1. CASE c = count + 1
      BY <1>4, <3>1
    <3>2. CASE c \in 1 .. count /\ nameOf[c] = n0
      BY <1>5, <3>2
    <3>3. CASE c \in 1 .. count /\ nameOf[c] # n0
      <4>1. nameOf'[c] = nameOf[c] /\ nameOf[c] \in Files
        BY <1>2, <1>4, <3>3, Sets, Numbers DEF NamesMatch
      <4>2. file[nameOf[c]].no = c \/ Safe(c)
        BY <1>2, <3>3, NotLost
      <4>3. file'[nameOf'[c]] = file[nameOf[c]]
        BY <1>4, <3>3, <4>1
      <4>. QED
        BY <1>5, <3>3, <4>2, <4>3
    <3>. QED
      BY <1>3, <3>1, <3>2, <3>3
  <2>. QED
    BY <2>1 DEF NothingLost, Safe
<1>9. ASSUME NEW S \in SUBSET Ids, SafeIds(S) PROVE SafeIds(S)'
  BY <1>5, <1>9, Sets DEF SafeIds, Ids
<1>10. SafeIds(marks)'
  BY <1>2, <1>9 DEF UploadInv, UploadTypeOK, SafeIds
<1>11. ASSUME NEW v \in Uploaders PROVE InHand(v)'
  <2>1. InHand(v) /\ name[v] \in Files /\ snap[v] \in SUBSET Ids
    BY <1>2 DEF UploadInv, UploadTypeOK
  <2>2. pc[v] \in {"look", "delete"} /\ name[v] \in Names => SafeName(name[v])'
    BY <1>2, <1>5, <2>1 DEF InHand
  <2>3. SafeIds(snap[v])'
    <3>1. SafeIds(snap[v])
      BY <2>1 DEF InHand
    <3>. QED
      BY <1>2, <1>9, <2>1, <3>1 DEF SafeIds
  <2>4. pc[v] \in {"create", "mark"} =>
          /\ body[v].no \in 0 .. count' /\ nameOf'[body[v].no] = name[v]
          /\ body[v].whole \/ body[v].no \in torn
    BY <1>2, <1>3, <1>4, <2>1 DEF InHand
  <2>. QED
    BY <1>2, <2>1, <2>2, <2>3, <2>4 DEF InHand
<1>. QED
  BY <1>6, <1>7, <1>8, <1>10, <1>11 DEF UploadInv

(* The file that is filled now held nothing, or a chunk of the same name.  *)
LEMMA FinishWriteInv ==
    ASSUME UploadInv, FinishWrite
    PROVE  UploadInv'
<1>1. /\ UploadTypeOK /\ NamesMatch /\ NothingLost /\ writing # Absent /\ writing' = Absent
      /\ UNCHANGED <<marks, pc, todo, name, snap, size, body, count, nameOf, torn, uploads>>
      /\ file' = IF Exists(nameOf[writing.no]) THEN [file EXCEPT ![nameOf[writing.no]] = writing]
                                               ELSE file
  BY DEF UploadInv, FinishWrite, drive, item
<1>2. Keeps /\ SafeIds(marks)'
  <2>1. Keeps
    BY <1>1 DEF Keeps
  <2>2. marks \in SUBSET Ids /\ SafeIds(marks)
    BY DEF UploadInv, UploadTypeOK
  <2>. QED
    BY <1>1, <2>1, <2>2, KeepsSafe DEF SafeIds
<1>3. Absent \in Content /\ Absent.no = -1
  BY DEF Absent, Content
<1>4. UploadTypeOK'
  <2>1. file' \in [Files -> Content]
    BY <1>1 DEF UploadTypeOK
  <2>. QED
    BY <1>1, <1>3, <2>1 DEF UploadTypeOK
<1>5. \A v \in Uploaders : InHand(v)'
  BY <1>1, <1>2, HandKeeps DEF UploadInv, Same
<1>6. CASE ~Exists(nameOf[writing.no])
  <2>1. file' = file
    BY <1>1, <1>6
  <2>2. NamesMatch'
    BY <1>1, <2>1 DEF NamesMatch, Exists
  <2>3. NothingLost'
    BY <1>1, <1>2, <2>1, LostKeeps
  <2>. QED
    BY <1>2, <1>4, <1>5, <2>2, <2>3 DEF UploadInv
<1>7. CASE Exists(nameOf[writing.no])
  <2>1. PICK w \in 1 .. count, n \in Names : /\ w = writing.no /\ n = nameOf[w]
                                           /\ file' = [file EXCEPT ![n] = writing] /\ n \in Files
    BY <1>1, <1>7, Sets DEF NamesMatch
  <2>2. file'[n] = writing /\ \A f \in Files \ {n} : file'[f] = file[f]
    BY <1>1, <2>1 DEF UploadTypeOK
  <2>3. NamesMatch'
    <3>1. ASSUME NEW f \in Files, file'[f].no >= 0
          PROVE  file'[f].no <= count /\ nameOf[file'[f].no] = f
      <4>1. CASE f = n
        BY <1>1, <2>1, <2>2, <4>1, Numbers
      <4>2. CASE f # n
        BY <1>1, <2>2, <3>1, <4>2 DEF NamesMatch, Exists
      <4>. QED
        BY <4>1, <4>2
    <3>. QED
      BY <1>1, <1>3, <3>1 DEF NamesMatch, Exists
  <2>4. NothingLost'
    <3>1. ASSUME NEW c \in 1 .. count PROVE file'[nameOf[c]].no = c \/ Safe(c)
      <4>1. CASE nameOf[c] = n
        BY <2>1, <2>2, <4>1 DEF Safe, Reused
      <4>2. CASE nameOf[c] # n
        BY <1>1, <2>2, <4>2, NotLost, Sets DEF NamesMatch
      <4>. QED
        BY <4>1, <4>2
    <3>. QED
      BY <1>1, <3>1 DEF NothingLost, Safe, Reused
  <2>. QED
    BY <1>2, <1>4, <1>5, <2>3, <2>4 DEF UploadInv
<1>. QED
  BY <1>6, <1>7

LEMMA KillInv ==
    ASSUME UploadInv, Kill
    PROVE  UploadInv'
<1>1. /\ UploadTypeOK /\ NamesMatch /\ NothingLost
      /\ UNCHANGED <<file, marks, count, nameOf, uploads>> /\ writing' = Absent
      /\ torn \subseteq torn'
  BY DEF UploadInv, Kill, shelf
<1>2. /\ pc' = [u \in Uploaders |-> IF u = Page THEN "idle" ELSE "none"]
      /\ todo' = [l \in Loops |-> {}] /\ name' = [u \in Uploaders |-> Local]
      /\ snap' = [u \in Uploaders |-> {}] /\ size' = [u \in Uploaders |-> 0]
      /\ body' = [u \in Uploaders |-> Absent]
  BY DEF Kill
<1>3. Keeps /\ SafeIds(marks)'
  <2>1. Keeps
    BY <1>1 DEF Keeps
  <2>2. marks \in SUBSET Ids /\ SafeIds(marks)
    BY DEF UploadInv, UploadTypeOK
  <2>. QED
    BY <1>1, <2>1, <2>2, KeepsSafe DEF SafeIds
<1>4. Absent \in Content /\ Absent.no = -1
  BY DEF Absent, Content
<1>5. UploadTypeOK'
  <2>1. pc' \in [Uploaders -> Steps] /\ size' \in [Uploaders -> Nat]
    BY <1>2 DEF Steps
  <2>2. body' \in [Uploaders -> Content]
    BY <1>2, <1>4
  <2>3. /\ todo' \in [Loops -> SUBSET Names] /\ name' \in [Uploaders -> Files]
        /\ snap' \in [Uploaders -> SUBSET Ids]
    BY <1>2, Sets
  <2>. QED
    BY <1>1, <1>4, <2>1, <2>2, <2>3 DEF UploadTypeOK
<1>6. NamesMatch'
  BY <1>1, <1>4 DEF NamesMatch, Exists
<1>7. NothingLost'
  BY <1>1, <1>3, LostKeeps
<1>8. \A v \in Uploaders : InHand(v)'
  BY <1>1, <1>2, <1>3, HandEmpty DEF UploadInv, AtAFile
<1>. QED
  BY <1>3, <1>5, <1>6, <1>7, <1>8 DEF UploadInv

LEMMA UploadInvInit == UploadInit => UploadInv
<1>. SUFFICES ASSUME UploadInit PROVE UploadInv
  OBVIOUS
<1>1. Absent \in Content /\ Absent.no = -1 /\ [no |-> 0, size |-> 1, whole |-> TRUE] \in Content
  BY Sets DEF Absent, Content
<1>2. UploadTypeOK
  <2>1. file \in [Files -> Content] /\ body \in [Uploaders -> Content] /\ writing \in Content
    BY <1>1 DEF UploadInit
  <2>2. pc \in [Uploaders -> Steps] /\ size \in [Uploaders -> Nat]
    BY DEF UploadInit, Steps
  <2>3. /\ todo \in [Loops -> SUBSET Names] /\ name \in [Uploaders -> Files]
        /\ snap \in [Uploaders -> SUBSET Ids]
    BY Sets DEF UploadInit
  <2>4. count \in 0 .. MaxChunks /\ nameOf \in [Contents -> Files] /\ uploads \in [Contents -> Nat]
    BY Sets DEF UploadInit
  <2>. QED
    BY <2>1, <2>2, <2>3, <2>4 DEF UploadInit, UploadTypeOK
<1>3. NamesMatch
  <2>1. \A f \in Files : file[f].no >= 0 => f = Local /\ file[f].no = 0
    BY <1>1 DEF UploadInit
  <2>2. nameOf[0] = Local /\ count = 0 /\ writing.no = -1
    BY <1>1, Sets DEF UploadInit
  <2>3. writing = Absent
    BY DEF UploadInit
  <2>4. \A f \in Files : Exists(f) => file[f].no <= count /\ nameOf[file[f].no] = f
    BY <2>1, <2>2 DEF Exists
  <2>5. \A c \in 1 .. count : nameOf[c] \in Names
    BY <2>2
  <2>. QED
    BY <2>2, <2>3, <2>4, <2>5 DEF NamesMatch
<1>4. NothingLost
  BY DEF UploadInit, NothingLost
<1>5. SafeIds(marks) /\ \A u \in Uploaders : InHand(u)
  BY DEF UploadInit, SafeIds, InHand, AtAFile
<1>. QED
  BY <1>2, <1>3, <1>4, <1>5 DEF UploadInv

LEMMA UploadInvStep == UploadInv /\ [UploadNext]_uploadVars => UploadInv'
<1>. SUFFICES ASSUME UploadInv, [UploadNext]_uploadVars PROVE UploadInv'
  OBVIOUS
<1>1. CASE BeginWrite \/ FinishWrite \/ Kill \/ PageUploads
  BY <1>1, BeginWriteInv, FinishWriteInv, KillInv, PageUploadsInv
<1>2. ASSUME NEW u \in Uploaders, Uploads(u) PROVE UploadInv'
  BY <1>2, BeginInv, LookInv, SendInv, CreateInv, FailInv, MarkInv DEF Uploads
<1>3. ASSUME NEW l \in Loops, LoopStep(l) \/ Start(l) PROVE UploadInv'
  BY <1>2, <1>3, Sets, LoopTurnInv, DeleteInv DEF LoopStep
<1>4. ASSUME NEW l \in Loops, Stop(l) \/ TriggerUpload(l) PROVE UploadInv'
  BY <1>4, OutsideInv DEF Stop, TriggerUpload, shelf, item, written
<1>5. CASE Outside
  BY <1>5, OutsideInv DEF Outside, item, written
<1>6. CASE UNCHANGED uploadVars
  BY <1>6, OutsideInv DEF uploadVars
<1>. QED
  BY <1>1, <1>2, <1>3, <1>4, <1>5, <1>6, Sets DEF UploadNext

(* However many sync objects and the recordings page upload at once, and   *)
(* whatever is stopped, killed, fails or is overwritten: no chunk leaves   *)
(* the outbox that is not on Drive, but for one that was read or abandoned *)
(* half written, or shares its name with another.                          *)
THEOREM UploadNothingLost == UploadSpec => []NothingLost
<1>1. UploadInv => NothingLost
  BY DEF UploadInv
<1>. QED
  BY <1>1, UploadInvInit, UploadInvStep, PTL DEF UploadSpec
-----------------------------------------------------------------------------
(***************************************************************************)
(* Second copies.  An uploader that may still store content c is counted   *)
(* with the copies there are of it.                                        *)
(***************************************************************************)
Taking(c) == {u \in Uploaders : /\ name[u] = nameOf[c]
                                /\ \/ pc[u] = "send" /\ file[name[u]].no = c
                                   \/ pc[u] = "create" /\ body[u].no = c}
BusyAt(n) == {u \in Uploaders : name[u] = n /\ pc[u] \in Busy}

Marked(n, s) == \/ << n, s >> \in marks
                \/ \E u \in Uploaders : pc[u] = "mark" /\ Id(u) = << n, s >>

(* Each upload that is begun beside another, or after one, is accounted    *)
(* for, if not by the mark that keeps the next from being begun.           *)
Paid(c)    == uploads[c] + Cardinality(Taking(c)) <= 1 + excused
AsWhole(c) == file[nameOf[c]].no = c => file[nameOf[c]].whole \/ uploads[c] = 0
Account(c) ==
    /\ file[nameOf[c]].no = c /\ file[nameOf[c]].whole
    /\ Taking(c) = {} /\ ~Marked(nameOf[c], file[nameOf[c]].size)
    => uploads[c] <= excused

BodyIsFile(u) == pc[u] = "create" /\ body[u].whole /\ file[name[u]].no = body[u].no
                     => body[u] = file[name[u]]
WritesOwn == writing # Absent /\ Exists(nameOf[writing.no])
                => file[nameOf[writing.no]].no = writing.no /\ ~file[nameOf[writing.no]].whole

CopyInv ==
    /\ excused \in Nat /\ IsFiniteSet(marks) /\ \A u \in Uploaders : IsFiniteSet(snap[u])
    /\ \A c \in Contents : c > count => uploads[c] = 0
    /\ \A c \in 0 .. count : Paid(c) /\ AsWhole(c) /\ Account(c)
    /\ \A n \in Files : Cardinality(BusyAt(n)) <= 1 + excused
    /\ \A u \in Uploaders : BodyIsFile(u)
    /\ WritesOwn

OthersSame(u) == \A v \in Uploaders \ {u} : Same(v) /\ size'[v] = size[v]

LEMMA FiniteLoops == IsFiniteSet(Uploaders)
BY FS_AddElement, UploadAssumption DEF Uploaders

LEMMA TakingFinite ==
    ASSUME NEW c
    PROVE  /\ IsFiniteSet(Taking(c)) /\ Cardinality(Taking(c)) \in Nat
           /\ Taking(c) # {} => Cardinality(Taking(c)) >= 1
           /\ IsFiniteSet(Taking(c)') /\ Cardinality(Taking(c)') \in Nat
           /\ Taking(c)' = {} => Cardinality(Taking(c)') = 0
<1>1. Taking(c) \in SUBSET Uploaders /\ Taking(c)' \in SUBSET Uploaders
  BY DEF Taking
<1>. HIDE DEF Taking
<1>2. /\ IsFiniteSet(Taking(c)) /\ Cardinality(Taking(c)) \in Nat
      /\ Cardinality(Taking(c)) = 0 => Taking(c) = {}
  BY <1>1, FiniteLoops, FS_Subset, FS_CardinalityType, FS_EmptySet
<1>3. /\ IsFiniteSet(Taking(c)') /\ Cardinality(Taking(c)') \in Nat
      /\ Taking(c)' = {} => Cardinality(Taking(c)') = 0
  BY <1>1, FiniteLoops, FS_Subset, FS_CardinalityType, FS_EmptySet
<1>. QED
  BY <1>2, <1>3

(* Sets that differ in one element at most.                                *)
LEMMA OneApart ==
    ASSUME NEW S, NEW T, NEW u, IsFiniteSet(S), S \ {u} = T \ {u}
    PROVE  /\ IsFiniteSet(T) /\ Cardinality(S) \in Nat /\ Cardinality(T) \in Nat
           /\ u \in S /\ u \notin T => Cardinality(T) = Cardinality(S) - 1
           /\ u \notin S /\ u \in T => Cardinality(T) = Cardinality(S) + 1
           /\ (u \in S <=> u \in T) => T = S
<1>1. CASE u \in S /\ u \notin T
  <2>1. T = S \ {u}
    BY <1>1
  <2>. QED
    BY <1>1, <2>1, FS_RemoveElement, FS_CardinalityType
<1>2. CASE u \notin S /\ u \in T
  <2>1. T = S \cup {u}
    BY <1>2
  <2>. QED
    BY <1>2, <2>1, FS_AddElement, FS_CardinalityType
<1>3. CASE u \in S <=> u \in T
  <2>1. T = S
    BY <1>3
  <2>. QED
    BY <1>3, <2>1, FS_CardinalityType
<1>. QED
  BY <1>1, <1>2, <1>3

(* What one uploader's step does to the ones that may store c.             *)
LEMMA TakingStep ==
    ASSUME NEW u \in Uploaders, OthersSame(u), UNCHANGED << file, nameOf >>, NEW c
    PROVE  /\ u \in Taking(c) /\ u \notin Taking(c)'
                => Cardinality(Taking(c)') = Cardinality(Taking(c)) - 1
           /\ u \notin Taking(c) /\ u \in Taking(c)'
                => Cardinality(Taking(c)') = Cardinality(Taking(c)) + 1
           /\ (u \in Taking(c) <=> u \in Taking(c)') => Taking(c)' = Taking(c)
<1>1. Taking(c)' \ {u} = Taking(c) \ {u}
  BY DEF Taking, OthersSame, Same
<1>2. \A S, T : IsFiniteSet(S) /\ S \ {u} = T \ {u} =>
           /\ u \in S /\ u \notin T => Cardinality(T) = Cardinality(S) - 1
           /\ u \notin S /\ u \in T => Cardinality(T) = Cardinality(S) + 1
           /\ (u \in S <=> u \in T) => T = S
  BY OneApart
<1>. HIDE DEF Taking
<1>. QED
  BY <1>1, <1>2, TakingFinite

LEMMA BusyStep ==
    ASSUME NEW u \in Uploaders, OthersSame(u), NEW n
    PROVE  /\ IsFiniteSet(BusyAt(n)) /\ Cardinality(BusyAt(n)) \in Nat
           /\ Cardinality(BusyAt(n)') \in Nat /\ Cardinality(BusyAt(n)') <= Cardinality(BusyAt(n)) + 1
           /\ u \notin BusyAt(n)' \/ u \in BusyAt(n)
                => Cardinality(BusyAt(n)') <= Cardinality(BusyAt(n))
           /\ BusyAt(n) = {} => Cardinality(BusyAt(n)) = 0
<1>1. BusyAt(n)' \ {u} = BusyAt(n) \ {u} /\ BusyAt(n) \in SUBSET Uploaders
  BY DEF BusyAt, OthersSame, Same
<1>2. \A S, T : IsFiniteSet(S) /\ S \ {u} = T \ {u} =>
           /\ Cardinality(S) \in Nat /\ Cardinality(T) \in Nat
           /\ u \in S /\ u \notin T => Cardinality(T) = Cardinality(S) - 1
           /\ u \notin S /\ u \in T => Cardinality(T) = Cardinality(S) + 1
           /\ (u \in S <=> u \in T) => T = S
  BY OneApart
<1>. HIDE DEF BusyAt
<1>3. IsFiniteSet(BusyAt(n))
  BY <1>1, FiniteLoops, FS_Subset
<1>4. BusyAt(n) = {} => Cardinality(BusyAt(n)) = 0
  BY FS_EmptySet
<1>. QED
  BY <1>1, <1>2, <1>3, <1>4

(* A step of one uploader that leaves the files alone.                     *)
LEMMA CopyStep ==
    ASSUME UploadTypeOK, UploadTypeOK', CopyInv, NEW u \in Uploaders, OthersSame(u),
           UNCHANGED << file, nameOf, count, writing >>,
           excused' \in Nat, excused' >= excused, IsFiniteSet(marks'), IsFiniteSet(snap'[u]),
           \A c \in Contents : c > count => uploads'[c] = uploads[c],
           \A c \in 0 .. count : Paid(c)' /\ AsWhole(c)' /\ Account(c)',
           BodyIsFile(u)',
           \A n \in Files : u \in BusyAt(n)' /\ u \notin BusyAt(n)
              => excused' > excused \/ BusyAt(n) = {}
    PROVE  CopyInv'
<1>1. \A v \in Uploaders : IsFiniteSet(snap'[v])
  BY DEF CopyInv, OthersSame, Same
<1>2. \A v \in Uploaders : BodyIsFile(v)'
  BY DEF CopyInv, OthersSame, Same, BodyIsFile
<1>3. WritesOwn'
  BY DEF CopyInv, WritesOwn, Exists
<1>4. ASSUME NEW n \in Files PROVE Cardinality(BusyAt(n)') <= 1 + excused'
  <2>1. /\ Cardinality(BusyAt(n)) \in Nat /\ Cardinality(BusyAt(n)') \in Nat
        /\ Cardinality(BusyAt(n)') <= Cardinality(BusyAt(n)) + 1
        /\ u \notin BusyAt(n)' \/ u \in BusyAt(n)
              => Cardinality(BusyAt(n)') <= Cardinality(BusyAt(n))
        /\ BusyAt(n) = {} => Cardinality(BusyAt(n)) = 0
    BY BusyStep
  <2>2. Cardinality(BusyAt(n)) <= 1 + excused /\ excused \in Nat
    BY DEF CopyInv
  <2>3. u \in BusyAt(n)' /\ u \notin BusyAt(n) => excused' > excused \/ BusyAt(n) = {}
    OBVIOUS
  <2>. HIDE DEF BusyAt
  <2>. QED
    BY <2>1, <2>2, <2>3
<1>. QED
  BY <1>1, <1>2, <1>3, <1>4 DEF CopyInv

LEMMA CopyFacts ==
    ASSUME UploadTypeOK, CopyInv, NEW c \in 0 .. count
    PROVE  /\ c \in Contents /\ uploads[c] \in Nat /\ nameOf[c] \in Files /\ excused \in Nat
           /\ Paid(c) /\ AsWhole(c) /\ Account(c)
           /\ uploads[c] <= 1 + excused
           /\ Taking(c) # {} => uploads[c] <= excused
<1>1. c \in Contents /\ uploads[c] \in Nat /\ nameOf[c] \in Files /\ excused \in Nat
  BY Numbers DEF UploadTypeOK, CopyInv
<1>2. Paid(c) /\ AsWhole(c) /\ Account(c)
  BY DEF CopyInv
<1>3. Cardinality(Taking(c)) \in Nat /\ (Taking(c) # {} => Cardinality(Taking(c)) >= 1)
  BY TakingFinite
<1>. QED
  BY <1>1, <1>2, <1>3 DEF Paid

(* An uploader that gives up, or does something else than to upload.       *)
LEMMA CopyWithdraw ==
    ASSUME UploadTypeOK, UploadTypeOK', CopyInv, NEW u \in Uploaders, OthersSame(u),
           UNCHANGED << file, nameOf, count, writing, marks, uploads, excused >>,
           snap'[u] = snap[u] \/ snap'[u] = {}, pc[u] # "mark", pc'[u] \notin Busy
    PROVE  CopyInv'
<1>1. ASSUME NEW c \in 0 .. count PROVE Paid(c)' /\ AsWhole(c)' /\ Account(c)'
  <2>1. u \notin Taking(c)'
    BY DEF Taking, Busy
  <2>2. Cardinality(Taking(c)) \in Nat /\ Cardinality(Taking(c)') \in Nat
    BY TakingFinite
  <2>3. Paid(c) /\ AsWhole(c) /\ Account(c) /\ uploads[c] \in Nat /\ excused \in Nat
    BY CopyFacts
  <2>4. CASE u \in Taking(c)
    <3>1. Cardinality(Taking(c)') = Cardinality(Taking(c)) - 1
      BY <2>1, <2>4, TakingStep
    <3>2. uploads[c] <= excused
      BY <2>4, CopyFacts
    <3>. QED
      BY <2>2, <2>3, <3>1, <3>2 DEF Paid, AsWhole, Account
  <2>5. CASE u \notin Taking(c)
    <3>1. Taking(c)' = Taking(c)
      BY <2>1, <2>5, TakingStep
    <3>2. \A n, s : Marked(n, s) => Marked(n, s)'
      BY DEF Marked, Id, OthersSame, Same
    <3>3. file'[nameOf'[c]] = file[nameOf[c]] /\ nameOf'[c] = nameOf[c]
      OBVIOUS
    <3>. QED
      BY <2>3, <3>1, <3>2, <3>3 DEF Paid, AsWhole, Account
  <2>. QED
    BY <2>4, <2>5
<1>2. excused' \in Nat /\ excused' >= excused /\ IsFiniteSet(marks')
  BY DEF CopyInv
<1>3. IsFiniteSet(snap'[u])
  BY FS_EmptySet DEF CopyInv
<1>4. BodyIsFile(u)'
  BY DEF BodyIsFile, Busy
<1>5. \A n : u \notin BusyAt(n)'
  BY DEF BusyAt
<1>. QED
  BY <1>1, <1>2, <1>3, <1>4, <1>5, CopyStep

(* What forgets, and where it goes.                                        *)
LEMMA LeaveOthers ==
    ASSUME UploadTypeOK, NEW u \in Uploaders,
           Leave(u) \/ (Return(u) /\ UNCHANGED << todo, name >>)
    PROVE  /\ OthersSame(u) /\ snap'[u] = {} /\ pc'[u] \notin Busy
<1>1. \A v \in Uploaders \ {u} : size'[v] = size[v]
  BY DEF Leave, Return, Forget, UploadTypeOK
<1>. QED
  BY <1>1, LeaveTo, ReturnTo DEF OthersSame, Busy

LEMMA BeginCopy ==
    ASSUME UploadInv, UploadInv', CopyInv, NEW u \in Uploaders, Begin(u)
    PROVE  CopyInv'
<1>1. /\ UploadTypeOK /\ UploadTypeOK' /\ NamesMatch /\ pc[u] = "begin"
      /\ UNCHANGED << file, nameOf, count, writing, marks, uploads >>
  BY DEF UploadInv, Begin, shelf, written
<1>2. CASE ~Exists(name[u])
  BY <1>1, <1>2, LeaveOthers, CopyWithdraw DEF Begin
<1>3. CASE Exists(name[u])
  <2>1. /\ snap' = [snap EXCEPT ![u] = marks] /\ size' = [size EXCEPT ![u] = file[name[u]].size]
        /\ pc' = [pc EXCEPT ![u] = IF <<name[u], file[name[u]].size>> \in marks THEN "look" ELSE "send"]
        /\ UNCHANGED <<body, name>>
        /\ excused' = IF Overlaps(u) THEN excused + 1 ELSE excused
    BY <1>3 DEF Begin, Goto
  <2>2. /\ OthersSame(u) /\ snap'[u] = marks
        /\ pc'[u] = IF <<name[u], file[name[u]].size>> \in marks THEN "look" ELSE "send"
    BY <1>1, <2>1 DEF OthersSame, Same, UploadTypeOK
  <2>3. excused \in Nat /\ excused' \in Nat /\ excused' >= excused
        /\ IsFiniteSet(marks') /\ IsFiniteSet(snap'[u])
    BY <1>1, <2>1, <2>2 DEF CopyInv
  <2>4. ~Overlaps(u) => BusyAt(name[u]) = {}
    BY <1>1 DEF Overlaps, BusyAt, Busy
  <2>5. \A n \in Files : u \in BusyAt(n)' => excused' > excused \/ BusyAt(n) = {}
    BY <2>1, <2>3, <2>4 DEF BusyAt
  <2>6. BodyIsFile(u)'
    BY <2>2 DEF BodyIsFile
  <2>7. ASSUME NEW c \in 0 .. count PROVE Paid(c)' /\ AsWhole(c)' /\ Account(c)'
    <3>1. /\ Paid(c) /\ AsWhole(c) /\ Account(c) /\ uploads[c] \in Nat /\ uploads'[c] \in Nat
          /\ nameOf'[c] = nameOf[c] /\ file'[nameOf'[c]] = file[nameOf[c]] /\ uploads'[c] = uploads[c]
      BY <1>1, CopyFacts
    <3>2. u \notin Taking(c)
      BY <1>1 DEF Taking
    <3>3. \A n, s : Marked(n, s)' <=> Marked(n, s)
      BY <1>1, <2>2 DEF Marked, Id, OthersSame, Same
    <3>4. Cardinality(Taking(c)) \in Nat /\ Cardinality(Taking(c)') \in Nat
      BY TakingFinite
    <3>5. CASE u \notin Taking(c)'
      <4>1. Taking(c)' = Taking(c)
        BY <1>1, <2>2, <3>2, <3>5, TakingStep
      <4>. HIDE DEF Taking, Marked
      <4>2. Paid(c)'
        BY <2>3, <3>1, <3>4, <4>1 DEF Paid
      <4>3. AsWhole(c)'
        BY <3>1 DEF AsWhole
      <4>4. Account(c)'
        BY <2>3, <3>1, <3>3, <4>1 DEF Account
      <4>. QED
        BY <4>2, <4>3, <4>4
    <3>6. CASE u \in Taking(c)'
      <4>1. Cardinality(Taking(c)') = Cardinality(Taking(c)) + 1
        BY <1>1, <2>2, <3>2, <3>6, TakingStep
      <4>2. /\ name[u] = nameOf[c] /\ file[name[u]].no = c /\ Taking(c)' # {}
            /\ <<name[u], file[name[u]].size>> \notin marks
        BY <1>1, <2>1, <2>2, <3>6 DEF Taking
      <4>3. CASE Overlaps(u)
        BY <2>1, <2>3, <3>1, <3>4, <4>1, <4>2, <4>3 DEF Paid, AsWhole, Account
      <4>4. CASE ~Overlaps(u)
        <5>1. Taking(c) = {}
          BY <2>4, <4>2, <4>4 DEF BusyAt, Taking, Busy
        <5>2. ~Marked(nameOf[c], file[nameOf[c]].size)
          BY <2>4, <4>2, <4>4 DEF BusyAt, Marked, Id, Busy
        <5>3. uploads[c] <= excused
          BY <2>3, <3>1, <4>2, <5>1, <5>2 DEF AsWhole, Account
        <5>4. Cardinality(Taking(c)) = 0
          BY <5>1, FS_EmptySet
        <5>. HIDE DEF Taking
        <5>5. Paid(c)'
          BY <2>1, <2>3, <3>1, <3>4, <4>1, <4>4, <5>3, <5>4 DEF Paid
        <5>. QED
          BY <3>1, <4>2, <5>5 DEF AsWhole, Account
      <4>. QED
        BY <4>3, <4>4
    <3>. QED
      BY <3>5, <3>6
  <2>8. \A c \in Contents : c > count => uploads'[c] = uploads[c]
    BY <1>1
  <2>. QED
    BY <1>1, <2>2, <2>3, <2>5, <2>6, <2>7, <2>8, CopyStep
<1>. QED
  BY <1>2, <1>3

LEMMA LookCopy ==
    ASSUME UploadInv, UploadInv', CopyInv, NEW u \in Uploaders, Look(u)
    PROVE  CopyInv'
<1>1. /\ UploadTypeOK /\ UploadTypeOK' /\ pc[u] = "look"
      /\ UNCHANGED << file, nameOf, count, writing, marks, uploads, todo, name >>
  BY DEF UploadInv, Look, shelf, written
<1>2. CASE name[u] \in present
  BY <1>1, <1>2, LeaveOthers, CopyWithdraw DEF Look
<1>3. CASE name[u] \notin present
  <2>1. /\ Goto(u, "send") /\ "send" \in Steps /\ excused' = excused + 1
        /\ UNCHANGED << snap, size, body >>
    BY <1>3 DEF Look, Steps
  <2>2. OthersSame(u) /\ pc'[u] = "send"
    BY <1>1, <2>1, GotoStep DEF OthersSame, Same
  <2>3. /\ excused \in Nat /\ excused' \in Nat /\ excused' >= excused /\ excused' > excused
        /\ IsFiniteSet(marks') /\ IsFiniteSet(snap'[u])
    BY <1>1, <2>1 DEF CopyInv
  <2>4. BodyIsFile(u)'
    BY <2>2 DEF BodyIsFile
  <2>5. ASSUME NEW c \in 0 .. count PROVE Paid(c)' /\ AsWhole(c)' /\ Account(c)'
    <3>1. /\ Paid(c) /\ AsWhole(c) /\ uploads[c] \in Nat /\ uploads[c] <= 1 + excused
          /\ nameOf'[c] = nameOf[c] /\ file'[nameOf'[c]] = file[nameOf[c]] /\ uploads'[c] = uploads[c]
      BY <1>1, CopyFacts
    <3>2. u \notin Taking(c)
      BY <1>1 DEF Taking
    <3>3. /\ Cardinality(Taking(c)) \in Nat /\ Cardinality(Taking(c)') \in Nat
          /\ Cardinality(Taking(c)') <= Cardinality(Taking(c)) + 1
      BY <1>1, <2>2, <3>2, TakingStep, TakingFinite
    <3>. HIDE DEF Taking
    <3>. QED
      BY <2>1, <2>3, <3>1, <3>3 DEF Paid, AsWhole, Account
  <2>6. \A c \in Contents : c > count => uploads'[c] = uploads[c]
    BY <1>1
  <2>. QED
    BY <1>1, <2>2, <2>3, <2>4, <2>5, <2>6, CopyStep
<1>. QED
  BY <1>2, <1>3

LEMMA SendCopy ==
    ASSUME UploadInv, UploadInv', CopyInv, NEW u \in Uploaders, Send(u)
    PROVE  CopyInv'
<1>1. /\ UploadTypeOK /\ UploadTypeOK' /\ pc[u] = "send"
      /\ UNCHANGED << file, nameOf, count, writing, marks, uploads, excused >>
  BY DEF UploadInv, Send, shelf, written
<1>2. CASE ~Exists(name[u])
  BY <1>1, <1>2, LeaveOthers, CopyWithdraw DEF Send
<1>3. CASE Exists(name[u])
  <2>1. /\ Goto(u, "create") /\ "create" \in Steps /\ UNCHANGED << snap, size, name >>
        /\ body' = [body EXCEPT ![u] = file[name[u]]]
    BY <1>3 DEF Send, Steps
  <2>2. OthersSame(u) /\ pc'[u] = "create" /\ body'[u] = file[name[u]]
    BY <1>1, <2>1, GotoStep DEF OthersSame, Same, UploadTypeOK
  <2>3. /\ excused' \in Nat /\ excused' >= excused
        /\ IsFiniteSet(marks') /\ IsFiniteSet(snap'[u])
    BY <1>1, <2>1 DEF CopyInv
  <2>4. BodyIsFile(u)'
    BY <1>1, <2>1, <2>2 DEF BodyIsFile
  <2>5. ASSUME NEW c \in 0 .. count PROVE Paid(c)' /\ AsWhole(c)' /\ Account(c)'
    <3>1. /\ Paid(c) /\ AsWhole(c) /\ Account(c)
          /\ nameOf'[c] = nameOf[c] /\ file'[nameOf'[c]] = file[nameOf[c]] /\ uploads'[c] = uploads[c]
      BY <1>1, CopyFacts
    <3>2. u \in Taking(c) <=> u \in Taking(c)'
      BY <1>1, <2>1, <2>2 DEF Taking
    <3>3. Taking(c)' = Taking(c)
      BY <1>1, <2>2, <3>2, TakingStep
    <3>4. \A n, s : Marked(n, s)' <=> Marked(n, s)
      BY <1>1, <2>2 DEF Marked, Id, OthersSame, Same
    <3>. HIDE DEF Taking, Marked
    <3>. QED
      BY <1>1, <3>1, <3>3, <3>4 DEF Paid, AsWhole, Account
  <2>6. \A n \in Files : u \in BusyAt(n)' => u \in BusyAt(n)
    BY <1>1, <2>1 DEF BusyAt, Busy
  <2>7. \A c \in Contents : c > count => uploads'[c] = uploads[c]
    BY <1>1
  <2>. QED
    BY <1>1, <2>2, <2>3, <2>4, <2>5, <2>6, <2>7, CopyStep
<1>. QED
  BY <1>2, <1>3

(* Drive stores what the uploader holds: one copy more, and one uploader   *)
(* less that may store it.                                                 *)
LEMMA StoredCopy ==
    ASSUME UploadTypeOK, UploadTypeOK', CopyInv, NEW u \in Uploaders, InHand(u), pc[u] = "create",
           Stored(u), OthersSame(u), UNCHANGED << file, nameOf, count >>,
           pc'[u] \notin {"send", "create"}, NEW c \in 0 .. count
    PROVE  /\ uploads'[c] \in Nat
           /\ uploads'[c] + Cardinality(Taking(c)') <= 1 + excused
           /\ uploads'[c] <= 1 + excused
           /\ c # body[u].no => uploads'[c] = uploads[c] /\ Taking(c)' = Taking(c)
           /\ AsWhole(c)'
           /\ c = body[u].no /\ ~body[u].whole => uploads'[c] <= excused
<1> DEFINE b == body[u].no
<1>1. b \in Contents /\ nameOf[b] = name[u] /\ c \in Contents
  BY Numbers DEF InHand
<1>2. uploads' = IF body[u].whole THEN [uploads EXCEPT ![b] = @ + 1] ELSE uploads
  BY DEF Stored
<1>3. Paid(c) /\ AsWhole(c) /\ uploads[c] \in Nat /\ uploads'[c] \in Nat /\ excused \in Nat
  BY <1>1, CopyFacts DEF UploadTypeOK
<1>4. u \notin Taking(c)' /\ (u \in Taking(c) <=> c = b)
  BY <1>1 DEF Taking
<1>5. Cardinality(Taking(c)) \in Nat /\ Cardinality(Taking(c)') \in Nat
  BY TakingFinite
<1>6. CASE c # b
  <2>1. uploads'[c] = uploads[c]
    BY <1>1, <1>2, <1>6 DEF UploadTypeOK
  <2>2. Taking(c)' = Taking(c)
    BY <1>4, <1>6, TakingStep
  <2>. HIDE DEF Taking
  <2>. QED
    BY <1>3, <1>5, <1>6, <2>1, <2>2 DEF Paid, AsWhole
<1>7. CASE c = b
  <2>1. Cardinality(Taking(c)') = Cardinality(Taking(c)) - 1
    BY <1>4, <1>7, TakingStep
  <2>2. uploads'[c] = IF body[u].whole THEN uploads[c] + 1 ELSE uploads[c]
    BY <1>1, <1>2, <1>7 DEF UploadTypeOK
  <2>3. AsWhole(c)'
    <3>1. file[nameOf[c]].no = c /\ body[u].whole => file[nameOf[c]].whole
      BY <1>1, <1>7 DEF CopyInv, BodyIsFile
    <3>. QED
      BY <1>3, <2>2, <3>1 DEF AsWhole
  <2>4. uploads[c] + Cardinality(Taking(c)) <= 1 + excused
    BY <1>3 DEF Paid
  <2>. HIDE DEF Taking
  <2>. QED
    BY <1>3, <1>5, <1>7, <2>1, <2>2, <2>3, <2>4
<1>. QED
  BY <1>6, <1>7

LEMMA CreateCopy ==
    ASSUME UploadInv, UploadInv', CopyInv, NEW u \in Uploaders, Create(u)
    PROVE  CopyInv'
<1>1. /\ UploadTypeOK /\ UploadTypeOK' /\ InHand(u) /\ pc[u] = "create" /\ Stored(u)
      /\ Goto(u, "mark") /\ "mark" \in Steps
      /\ UNCHANGED << file, nameOf, count, writing, marks, snap, size, body, name >>
      /\ excused' = IF body[u].size # size[u] THEN excused + 1 ELSE excused
  BY DEF UploadInv, Create, item, written, Steps
<1>2. OthersSame(u) /\ pc'[u] = "mark"
  BY <1>1, GotoStep DEF OthersSame, Same
<1>3. /\ excused \in Nat /\ excused' \in Nat /\ excused' >= excused
      /\ IsFiniteSet(marks') /\ IsFiniteSet(snap'[u])
  BY <1>1 DEF CopyInv
<1>4. BodyIsFile(u)'
  BY <1>2 DEF BodyIsFile
<1>5. ASSUME NEW c \in 0 .. count PROVE Paid(c)' /\ AsWhole(c)' /\ Account(c)'
  <2>1. /\ uploads'[c] \in Nat
        /\ uploads'[c] + Cardinality(Taking(c)') <= 1 + excused
        /\ uploads'[c] <= 1 + excused
        /\ c # body[u].no => uploads'[c] = uploads[c] /\ Taking(c)' = Taking(c)
        /\ AsWhole(c)'
        /\ c = body[u].no /\ ~body[u].whole => uploads'[c] <= excused
    BY <1>1, <1>2, StoredCopy
  <2>2. Cardinality(Taking(c)') \in Nat
    BY TakingFinite
  <2>3. Paid(c)'
    BY <1>3, <2>1, <2>2 DEF Paid
  <2>4. Account(c)'
    <3>. SUFFICES ASSUME file[nameOf[c]].no = c, file[nameOf[c]].whole, Taking(c)' = {},
                         ~Marked(nameOf[c], file[nameOf[c]].size)'
                  PROVE  uploads'[c] <= excused'
      BY <1>1 DEF Account
    <3>1. Marked(nameOf[c], file[nameOf[c]].size) => Marked(nameOf[c], file[nameOf[c]].size)'
      BY <1>1, <1>2 DEF Marked, Id, OthersSame, Same
    <3>2. CASE c # body[u].no
      <4>0. Account(c) /\ Taking(c) = {}
        BY <1>1, <2>1, <3>2, CopyFacts
      <4>1. uploads[c] <= excused
        BY <3>1, <4>0 DEF Account
      <4>. QED
        BY <1>3, <2>1, <3>2, <4>1
    <3>3. CASE c = body[u].no /\ body[u].whole
      <4>1. name[u] = nameOf[c] /\ body[u] = file[nameOf[c]]
        BY <1>1, <3>3 DEF InHand, CopyInv, BodyIsFile
      <4>2. size[u] # body[u].size
        BY <1>1, <1>2, <4>1 DEF Marked, Id
      <4>. QED
        BY <1>1, <1>3, <2>1, <4>2
    <3>4. CASE c = body[u].no /\ ~body[u].whole
      BY <1>3, <2>1, <3>4
    <3>. QED
      BY <3>2, <3>3, <3>4
  <2>. QED
    BY <2>1, <2>3, <2>4
<1>6. \A n \in Files : u \in BusyAt(n)' => u \in BusyAt(n)
  BY <1>1 DEF BusyAt, Busy
<1>7. \A c \in Contents : c > count => uploads'[c] = uploads[c]
  <2>1. body[u].no <= count
    BY <1>1 DEF InHand
  <2>2. \A c \in Contents : c # body[u].no => uploads'[c] = uploads[c]
    BY <1>1 DEF Stored, UploadTypeOK
  <2>. QED
    BY <1>1, <2>1, <2>2, Numbers, Sets
<1>. QED
  BY <1>1, <1>2, <1>3, <1>4, <1>5, <1>6, <1>7, CopyStep

LEMMA FailCopy ==
    ASSUME UploadInv, UploadInv', CopyInv, NEW u \in Uploaders, ReplyLost(u) \/ NetworkFails(u)
    PROVE  CopyInv'
<1>1. /\ UploadTypeOK /\ UploadTypeOK' /\ InHand(u) /\ Leave(u) /\ pc[u] # "mark"
      /\ UNCHANGED << file, nameOf, count, writing, marks >>
  BY DEF UploadInv, ReplyLost, NetworkFails, shelf, written
<1>2. OthersSame(u) /\ snap'[u] = {} /\ pc'[u] \notin Busy
  BY <1>1, LeaveOthers
<1>3. CASE NetworkFails(u)
  BY <1>1, <1>2, <1>3, CopyWithdraw DEF NetworkFails
<1>4. CASE ReplyLost(u)
  <2>1. pc[u] = "create" /\ Stored(u) /\ excused' = excused + 1
    BY <1>4 DEF ReplyLost
  <2>2. /\ excused \in Nat /\ excused' \in Nat /\ excused' >= excused
        /\ IsFiniteSet(marks') /\ IsFiniteSet(snap'[u])
    BY <1>1, <1>2, <2>1, FS_EmptySet DEF CopyInv
  <2>3. BodyIsFile(u)'
    BY <1>2 DEF BodyIsFile, Busy
  <2>4. ASSUME NEW c \in 0 .. count PROVE Paid(c)' /\ AsWhole(c)' /\ Account(c)'
    <3>1. /\ uploads'[c] \in Nat
          /\ uploads'[c] + Cardinality(Taking(c)') <= 1 + excused
          /\ uploads'[c] <= 1 + excused
          /\ AsWhole(c)'
      BY <1>1, <1>2, <2>1, StoredCopy DEF Busy
    <3>2. Cardinality(Taking(c)') \in Nat
      BY TakingFinite
    <3>. HIDE DEF Taking
    <3>. QED
      BY <2>1, <2>2, <3>1, <3>2 DEF Paid, Account
  <2>5. \A n \in Files : u \notin BusyAt(n)'
    BY <1>2 DEF BusyAt
  <2>6. \A c \in Contents : c > count => uploads'[c] = uploads[c]
    <3>1. body[u].no <= count
      BY <1>1, <2>1 DEF InHand
    <3>2. \A c \in Contents : c # body[u].no => uploads'[c] = uploads[c]
      BY <1>1, <2>1 DEF Stored, UploadTypeOK
    <3>3. body[u].no \in Nat /\ count \in Nat
      BY <1>1, <2>1, Numbers DEF InHand
    <3>. QED
      BY <3>1, <3>2, <3>3, Sets
  <2>. QED
    BY <1>1, <1>2, <2>2, <2>3, <2>4, <2>5, <2>6, CopyStep
<1>. QED
  BY <1>3, <1>4

LEMMA MarkCopy ==
    ASSUME UploadInv, UploadInv', CopyInv, NEW u \in Uploaders, Mark(u)
    PROVE  CopyInv'
<1>1. /\ UploadTypeOK /\ UploadTypeOK' /\ pc[u] = "mark" /\ Return(u)
      /\ marks' = snap[u] \cup {Id(u)} /\ excused' = excused + Cardinality(marks \ marks')
      /\ UNCHANGED << file, nameOf, count, writing, todo, name, uploads >>
  BY DEF UploadInv, Mark, drive, written
<1>2. OthersSame(u) /\ snap'[u] = {} /\ pc'[u] \notin Busy
  BY <1>1, LeaveOthers
<1>3. /\ IsFiniteSet(marks') /\ IsFiniteSet(marks \ marks') /\ Cardinality(marks \ marks') \in Nat
      /\ marks \ marks' # {} => Cardinality(marks \ marks') # 0
  <2>1. IsFiniteSet(marks) /\ IsFiniteSet(snap[u])
    BY DEF CopyInv
  <2>2. IsFiniteSet(marks')
    BY <1>1, <2>1, FS_AddElement
  <2>3. marks \ marks' \in SUBSET marks
    OBVIOUS
  <2>4. IsFiniteSet(marks \ marks')
    BY <2>1, <2>3, FS_Subset
  <2>. QED
    BY <2>2, <2>4, FS_CardinalityType, FS_EmptySet
<1>4. excused \in Nat /\ excused' \in Nat /\ excused' >= excused /\ IsFiniteSet(snap'[u])
  BY <1>1, <1>2, <1>3, FS_EmptySet DEF CopyInv
<1>5. BodyIsFile(u)'
  BY <1>2 DEF BodyIsFile, Busy
<1>6. ASSUME NEW c \in 0 .. count PROVE Paid(c)' /\ AsWhole(c)' /\ Account(c)'
  <2>1. /\ Paid(c) /\ AsWhole(c) /\ Account(c) /\ uploads[c] \in Nat /\ uploads[c] <= 1 + excused
        /\ nameOf'[c] = nameOf[c] /\ file'[nameOf'[c]] = file[nameOf[c]] /\ uploads'[c] = uploads[c]
    BY <1>1, CopyFacts
  <2>2. u \notin Taking(c) /\ u \notin Taking(c)'
    BY <1>1, <1>2 DEF Taking, Busy
  <2>3. Taking(c)' = Taking(c) /\ Cardinality(Taking(c)) \in Nat
    BY <1>1, <1>2, <2>2, TakingStep, TakingFinite
  <2>4. Paid(c)' /\ AsWhole(c)'
    <3>. HIDE DEF Taking
    <3>. QED
      BY <1>4, <2>1, <2>3 DEF Paid, AsWhole
  <2>5. Account(c)'
    <3>. SUFFICES ASSUME file[nameOf[c]].no = c, file[nameOf[c]].whole, Taking(c)' = {},
                         ~Marked(nameOf[c], file[nameOf[c]].size)'
                  PROVE  uploads[c] <= excused'
      BY <2>1 DEF Account
    <3>1. CASE marks \ marks' # {}
      <4>1. Cardinality(marks \ marks') \in Nat \ {0}
        BY <1>3, <3>1
      <4>. QED
        BY <1>1, <1>4, <2>1, <4>1
    <3>2. CASE marks \ marks' = {}
      <4>1. Marked(nameOf[c], file[nameOf[c]].size) => Marked(nameOf[c], file[nameOf[c]].size)'
        BY <1>1, <1>2, <3>2 DEF Marked, Id, OthersSame, Same
      <4>2. uploads[c] <= excused
        BY <2>1, <2>3, <4>1 DEF Account
      <4>. QED
        BY <1>4, <2>1, <4>2
    <3>. QED
      BY <3>1, <3>2
  <2>. QED
    BY <2>4, <2>5
<1>7. \A n \in Files : u \notin BusyAt(n)'
  BY <1>2 DEF BusyAt
<1>8. \A c \in Contents : c > count => uploads'[c] = uploads[c]
  BY <1>1
<1>. QED
  BY <1>1, <1>2, <1>3, <1>4, <1>5, <1>6, <1>7, <1>8, CopyStep

(* The upload loop, and the page that begins to upload.                    *)
LEMMA LoopCopy ==
    ASSUME UploadInv, UploadInv', CopyInv, NEW l \in Loops,
           Ended(l) \/ Turn(l) \/ CheckWifi(l) \/ NextItem(l) \/ Start(l)
    PROVE  CopyInv'
<1>1. /\ UploadTypeOK /\ UploadTypeOK' /\ l \in Uploaders /\ pc[l] # "mark"
      /\ UNCHANGED << file, nameOf, count, writing, marks, uploads, excused, snap, size, body >>
  BY Sets DEF UploadInv, Ended, Turn, CheckWifi, NextItem, Start, shelf, item, written
<1>2. CASE Break(l)
  <2>1. pc'[l] = "top" /\ \A v \in Uploaders \ {l} : pc'[v] = pc[v] /\ name'[v] = name[v]
    BY <1>1, <1>2, BreakTo
  <2>. QED
    BY <1>1, <2>1, CopyWithdraw DEF OthersSame, Same, Busy
<1>3. ASSUME NEW to \in {"ended", "wifi", "item", "top", "begin"}, Goto(l, to),
             \A v \in Uploaders \ {l} : name'[v] = name[v]
      PROVE  CopyInv'
  <2>1. to \in Steps /\ to \notin Busy
    BY DEF Steps, Busy
  <2>2. pc'[l] = to /\ \A v \in Uploaders \ {l} : pc'[v] = pc[v]
    BY <1>1, <1>3, <2>1, GotoStep
  <2>. QED
    BY <1>1, <1>3, <2>1, <2>2, CopyWithdraw DEF OthersSame, Same
<1>4. CASE Ended(l) \/ Turn(l) \/ Start(l)
  <2>1. PICK to \in {"ended", "wifi", "item", "top"} : Goto(l, to)
    BY <1>4 DEF Ended, Turn, Start
  <2>2. name' = name
    BY <1>4 DEF Ended, Turn, Start, item
  <2>. QED
    BY <1>3, <2>1, <2>2
<1>5. CASE CheckWifi(l)
  BY <1>2, <1>3, <1>5 DEF CheckWifi
<1>6. CASE NextItem(l)
  <2>1. CASE Done(l)
    BY <1>2, <1>6, <2>1 DEF NextItem
  <2>2. CASE ~Done(l)
    <3>1. Goto(l, "begin") /\ \E n \in todo[l] : name' = [name EXCEPT ![l] = n]
      BY <1>6, <2>2 DEF NextItem
    <3>2. \A v \in Uploaders \ {l} : name'[v] = name[v]
      BY <1>1, <3>1 DEF UploadTypeOK
    <3>. QED
      BY <1>3, <3>1, <3>2
  <2>. QED
    BY <2>1, <2>2
<1>. QED
  BY <1>4, <1>5, <1>6

LEMMA PageCopy ==
    ASSUME UploadInv, UploadInv', CopyInv, PageUploads
    PROVE  CopyInv'
<1>1. /\ UploadTypeOK /\ UploadTypeOK' /\ Page \in Uploaders /\ pc[Page] = "idle"
      /\ UNCHANGED << file, nameOf, count, writing, marks, uploads, excused, snap, size, body >>
      /\ Goto(Page, "begin") /\ name' = [name EXCEPT ![Page] = Local] /\ "begin" \in Steps
  BY Sets DEF UploadInv, PageUploads, shelf, written, Steps
<1>2. pc'[Page] = "begin" /\ OthersSame(Page)
  BY <1>1, GotoStep DEF OthersSame, Same, UploadTypeOK
<1>. QED
  BY <1>1, <1>2, CopyWithdraw DEF Busy

(* Taps, stops, settings, the Wi-Fi and what the user removes from Drive.  *)
LEMMA OutsideCopy ==
    ASSUME UploadInv, CopyInv,
           UNCHANGED <<file, marks, pc, todo, name, snap, size, body, writing, count, nameOf,
                       uploads, excused>>
    PROVE  CopyInv'
<1>1. /\ \A c : Taking(c)' = Taking(c)
      /\ \A n : BusyAt(n)' = BusyAt(n)
      /\ \A n, s : Marked(n, s)' <=> Marked(n, s)
  BY DEF Taking, BusyAt, Marked, Id
<1>2. /\ \A u \in Uploaders : BodyIsFile(u)'
      /\ WritesOwn'
  BY DEF CopyInv, BodyIsFile, WritesOwn, Exists
<1>3. \A c \in 0 .. count : Paid(c)' /\ AsWhole(c)' /\ Account(c)'
  <2>. SUFFICES ASSUME NEW c \in 0 .. count PROVE Paid(c)' /\ AsWhole(c)' /\ Account(c)'
    OBVIOUS
  <2>1. Paid(c) /\ AsWhole(c) /\ Account(c)
    BY DEF CopyInv
  <2>. HIDE DEF Taking, Marked
  <2>. QED
    BY <1>1, <2>1 DEF Paid, AsWhole, Account
<1>4. \A n \in Files : Cardinality(BusyAt(n)') <= 1 + excused'
  BY <1>1 DEF CopyInv
<1>. QED
  BY <1>2, <1>3, <1>4 DEF CopyInv

LEMMA DeleteCopy ==
    ASSUME UploadInv, UploadInv', CopyInv, NEW l \in Loops, Delete(l)
    PROVE  CopyInv'
<1>1. /\ UploadTypeOK /\ UploadTypeOK' /\ l \in Uploaders /\ pc[l] = "delete" /\ name[l] \in Files
      /\ UNCHANGED << marks, snap, size, body, writing, count, nameOf, uploads, excused >>
  BY Sets DEF UploadInv, UploadTypeOK, Delete, drive, written
<1>2. CASE ~Exists(name[l])
  <2>1. Break(l) /\ UNCHANGED file
    BY <1>2 DEF Delete
  <2>2. pc'[l] = "top" /\ \A v \in Uploaders \ {l} : pc'[v] = pc[v] /\ name'[v] = name[v]
    BY <1>1, <2>1, BreakTo
  <2>. QED
    BY <1>1, <2>1, <2>2, CopyWithdraw DEF OthersSame, Same, Busy
<1>3. CASE Exists(name[l])
  <2>1. /\ file' = [file EXCEPT ![name[l]] = Absent] /\ Goto(l, "item") /\ "item" \in Steps
        /\ name' = name
    BY <1>3 DEF Delete, Steps
  <2>2. pc'[l] = "item" /\ \A v \in Uploaders \ {l} : pc'[v] = pc[v]
    BY <1>1, <2>1, GotoStep
  <2>3. /\ file'[name[l]].no = -1
        /\ \A f \in Files \ {name[l]} : file'[f] = file[f]
    BY <1>1, <2>1 DEF UploadTypeOK, Absent
  <2>4. ASSUME NEW c \in 0 .. count PROVE Paid(c)' /\ AsWhole(c)' /\ Account(c)'
    <3>1. /\ Paid(c) /\ AsWhole(c) /\ Account(c) /\ uploads[c] \in Nat /\ nameOf[c] \in Files
          /\ excused \in Nat
      BY <1>1, CopyFacts
    <3>2. Taking(c)' \in SUBSET Taking(c)
      BY <1>1, <2>1, <2>2, <2>3 DEF Taking, UploadTypeOK
    <3>3. /\ Cardinality(Taking(c)) \in Nat /\ Cardinality(Taking(c)') \in Nat
          /\ Cardinality(Taking(c)') <= Cardinality(Taking(c))
      BY <3>2, TakingFinite, FS_Subset
    <3>4. Paid(c)'
      BY <1>1, <3>1, <3>3 DEF Paid
    <3>5. CASE nameOf[c] = name[l]
      BY <1>1, <2>3, <3>4, <3>5 DEF AsWhole, Account
    <3>6. CASE nameOf[c] # name[l]
      <4>1. file'[nameOf'[c]] = file[nameOf[c]] /\ nameOf'[c] = nameOf[c]
        BY <1>1, <2>3, <3>1, <3>6
      <4>2. Taking(c)' = Taking(c)
        BY <1>1, <2>1, <2>2, <3>6, <4>1 DEF Taking
      <4>3. \A n, s : Marked(n, s) => Marked(n, s)'
        BY <1>1, <2>1, <2>2 DEF Marked, Id
      <4>. HIDE DEF Taking, Marked
      <4>. QED
        BY <1>1, <3>1, <3>4, <4>1, <4>2, <4>3 DEF AsWhole, Account
    <3>. QED
      BY <3>5, <3>6
  <2>5. ASSUME NEW n \in Files PROVE BusyAt(n)' = BusyAt(n)
    BY <1>1, <2>1, <2>2 DEF BusyAt, Busy
  <2>6. ASSUME NEW v \in Uploaders PROVE BodyIsFile(v)'
    <3>1. name[v] \in Files /\ (pc'[v] = "create" => pc[v] = "create")
      BY <1>1, <2>2 DEF UploadTypeOK
    <3>2. pc[v] = "create" => body[v].no # -1
      <4>1. InHand(v)
        BY DEF UploadInv
      <4>. QED
        BY <1>1, <4>1, Numbers DEF InHand
    <3>3. CASE name[v] = name[l]
      BY <1>1, <2>1, <2>3, <3>1, <3>2, <3>3 DEF BodyIsFile
    <3>4. CASE name[v] # name[l]
      BY <1>1, <2>1, <2>3, <3>1, <3>4 DEF BodyIsFile, CopyInv
    <3>. QED
      BY <3>3, <3>4
  <2>7. WritesOwn'
    <3>. SUFFICES ASSUME NEW n \in Files, n = nameOf[writing.no], writing # Absent, file'[n].no >= 0
                  PROVE  file'[n].no = writing.no /\ ~file'[n].whole
      <4>1. writing # Absent => writing.no \in 1 .. count
        BY DEF UploadInv, NamesMatch
      <4>2. writing # Absent => nameOf[writing.no] \in Files
        BY <1>1, <4>1, Numbers DEF UploadTypeOK
      <4>. QED
        BY <1>1, <4>2 DEF WritesOwn, Exists
    <3>1. file'[n] = file[n]
      BY <2>3
    <3>. QED
      BY <3>1 DEF CopyInv, WritesOwn, Exists
  <2>8. \A v \in Uploaders : IsFiniteSet(snap'[v])
    BY <1>1 DEF CopyInv
  <2>. QED
    BY <1>1, <2>4, <2>5, <2>6, <2>7, <2>8 DEF CopyInv
<1>. QED
  BY <1>2, <1>3

LEMMA FinishWriteCopy ==
    ASSUME UploadInv, UploadInv', CopyInv, FinishWrite
    PROVE  CopyInv'
<1>1. /\ UploadTypeOK /\ NamesMatch /\ writing # Absent /\ writing' = Absent
      /\ UNCHANGED << marks, pc, name, snap, size, body, count, nameOf, uploads, excused, todo >>
  BY DEF UploadInv, FinishWrite, drive, item
<1>2. PICK w \in 1 .. count, n \in Files : w = writing.no /\ n = nameOf[w]
  BY <1>1, Numbers DEF NamesMatch, UploadTypeOK
<1>3. /\ file' = (IF Exists(n) THEN [file EXCEPT ![n] = writing] ELSE file)
  BY <1>1, <1>2 DEF FinishWrite
<1>4. Exists(n) => file[n].no = w /\ ~file[n].whole
  BY <1>1, <1>2 DEF CopyInv, WritesOwn
<1>5. /\ \A f \in Files : file'[f].no = file[f].no
      /\ \A f \in Files \ {n} : file'[f] = file[f]
  BY <1>1, <1>2, <1>3, <1>4 DEF UploadTypeOK
<1>6. ASSUME NEW c \in 0 .. count PROVE Paid(c)' /\ AsWhole(c)' /\ Account(c)'
  <2>1. /\ Paid(c) /\ AsWhole(c) /\ Account(c) /\ uploads[c] \in Nat /\ nameOf[c] \in Files
        /\ excused \in Nat
    BY <1>1, CopyFacts
  <2>2. Taking(c)' = Taking(c)
    BY <1>1, <1>5 DEF Taking, UploadTypeOK
  <2>3. \A m, s : Marked(m, s)' <=> Marked(m, s)
    BY <1>1 DEF Marked, Id
  <2>. HIDE DEF Taking, Marked
  <2>4. Paid(c)'
    BY <1>1, <2>1, <2>2 DEF Paid
  <2>5. CASE nameOf[c] = n /\ Exists(n)
    <3>1. file'[nameOf[c]].no = c => uploads[c] = 0
      BY <1>4, <1>5, <2>1, <2>5 DEF AsWhole
    <3>. QED
      BY <1>1, <2>1, <2>4, <3>1 DEF AsWhole, Account
  <2>6. CASE ~(nameOf[c] = n /\ Exists(n))
    <3>1. file'[nameOf'[c]] = file[nameOf[c]] /\ nameOf'[c] = nameOf[c]
      BY <1>1, <1>3, <1>5, <2>1, <2>6
    <3>. QED
      BY <1>1, <2>1, <2>2, <2>3, <2>4, <3>1 DEF AsWhole, Account
  <2>. QED
    BY <2>5, <2>6
<1>7. \A m : BusyAt(m)' = BusyAt(m)
  BY <1>1 DEF BusyAt
<1>8. ASSUME NEW v \in Uploaders PROVE BodyIsFile(v)'
  <2>1. name[v] \in Files /\ BodyIsFile(v)
    BY <1>1 DEF UploadTypeOK, CopyInv
  <2>2. CASE name[v] = n /\ Exists(n)
    <3>1. pc[v] = "create" /\ body[v].whole => body[v].no # file[n].no
      BY <1>4, <2>1, <2>2 DEF BodyIsFile
    <3>. QED
      BY <1>1, <1>5, <2>1, <2>2, <3>1 DEF BodyIsFile
  <2>3. CASE ~(name[v] = n /\ Exists(n))
    BY <1>1, <1>3, <1>5, <2>1, <2>3 DEF BodyIsFile
  <2>. QED
    BY <2>2, <2>3
<1>9. \A v \in Uploaders : IsFiniteSet(snap'[v])
  BY <1>1 DEF CopyInv
<1>10. WritesOwn'
  BY <1>1 DEF WritesOwn
<1>. QED
  BY <1>1, <1>6, <1>7, <1>8, <1>9, <1>10 DEF CopyInv

(* A chunk's name is taken: whoever is at that name may store the chunk.   *)
LEMMA BeginWriteCopy ==
    ASSUME UploadInv, UploadInv', CopyInv, BeginWrite
    PROVE  CopyInv'
<1>1. PICK n0 \in Names, s \in Sizes :
        /\ nameOf' = [nameOf EXCEPT ![count + 1] = n0]
        /\ file' = [file EXCEPT ![n0] = [no |-> count + 1, size |-> 0, whole |-> FALSE]]
        /\ writing' = [no |-> count + 1, size |-> s, whole |-> TRUE]
  BY DEF BeginWrite
<1>2. /\ UploadTypeOK /\ NamesMatch /\ count < MaxChunks /\ count' = count + 1
      /\ UNCHANGED << marks, pc, name, snap, size, body, uploads, excused >>
  BY DEF UploadInv, BeginWrite, drive, item
<1>3. /\ count \in Nat /\ count + 1 \in Contents /\ n0 \in Files
      /\ \A c \in 0 .. count : c # count + 1 /\ c \in Contents
      /\ \A c \in 0 .. count' : c = count + 1 \/ c \in 0 .. count
  BY <1>2, Sets, Numbers DEF UploadTypeOK
<1>4. /\ nameOf'[count + 1] = n0 /\ \A c \in 0 .. count : nameOf'[c] = nameOf[c]
      /\ \A f \in Files \ {n0} : file'[f] = file[f]
      /\ file'[n0].no = count + 1 /\ ~file'[n0].whole
  BY <1>1, <1>2, <1>3 DEF UploadTypeOK
<1>5. ASSUME NEW c \in 0 .. count PROVE Paid(c)' /\ AsWhole(c)' /\ Account(c)'
  <2>1. /\ Paid(c) /\ AsWhole(c) /\ Account(c) /\ uploads[c] \in Nat /\ nameOf[c] \in Files
        /\ excused \in Nat /\ nameOf'[c] = nameOf[c] /\ c # count + 1
    BY <1>2, <1>3, <1>4, CopyFacts
  <2>2. Taking(c)' \in SUBSET Taking(c)
    BY <1>2, <1>4, <2>1 DEF Taking, UploadTypeOK
  <2>3. /\ Cardinality(Taking(c)) \in Nat /\ Cardinality(Taking(c)') \in Nat
        /\ Cardinality(Taking(c)') <= Cardinality(Taking(c))
    BY <2>2, TakingFinite, FS_Subset
  <2>4. Paid(c)'
    BY <1>2, <2>1, <2>3 DEF Paid
  <2>5. CASE nameOf[c] = n0
    BY <1>4, <2>1, <2>4, <2>5 DEF AsWhole, Account
  <2>6. CASE nameOf[c] # n0
    <3>1. file'[nameOf'[c]] = file[nameOf[c]]
      BY <1>4, <2>1, <2>6
    <3>2. Taking(c)' = Taking(c)
      BY <1>2, <2>1, <2>6, <3>1 DEF Taking
    <3>3. \A n, z : Marked(n, z) => Marked(n, z)'
      BY <1>2 DEF Marked, Id
    <3>. HIDE DEF Taking, Marked
    <3>. QED
      BY <1>2, <2>1, <2>4, <3>1, <3>2, <3>3 DEF AsWhole, Account
  <2>. QED
    BY <2>5, <2>6
<1>6. \A n : BusyAt(n)' = BusyAt(n)
  BY <1>2 DEF BusyAt
<1>7. \A n \in Files : Cardinality(BusyAt(n)) <= 1 + excused
  BY DEF CopyInv
<1>8. ASSUME NEW c, c = count + 1 PROVE Paid(c)' /\ AsWhole(c)' /\ Account(c)'
  <2>1. uploads[c] = 0 /\ excused \in Nat
    BY <1>3, <1>8 DEF CopyInv
  <2>2. Taking(c)' \in SUBSET BusyAt(n0)
    <3>1. ASSUME NEW u \in Taking(c)' PROVE u \in BusyAt(n0)
      <4>1. u \in Uploaders /\ name[u] = n0 /\ pc[u] \in {"send", "create"}
        BY <1>2, <1>4, <1>8, <3>1 DEF Taking
      <4>. QED
        BY <4>1 DEF BusyAt, Busy
    <3>. QED
      BY <3>1
  <2>3. BusyAt(n0) \in SUBSET Uploaders
    BY DEF BusyAt
  <2>4. /\ Cardinality(Taking(c)') \in Nat /\ Cardinality(BusyAt(n0)) \in Nat
        /\ Cardinality(Taking(c)') <= Cardinality(BusyAt(n0))
    BY <2>2, <2>3, FiniteLoops, FS_Subset, FS_CardinalityType
  <2>5. Paid(c)'
    BY <1>2, <1>3, <1>7, <2>1, <2>4 DEF Paid
  <2>. QED
    BY <1>2, <1>4, <1>8, <2>1, <2>5 DEF AsWhole, Account
<1>9. ASSUME NEW v \in Uploaders PROVE BodyIsFile(v)'
  <2>1. name[v] \in Files /\ InHand(v) /\ BodyIsFile(v)
    BY <1>2 DEF UploadTypeOK, UploadInv, CopyInv
  <2>2. pc[v] = "create" => body[v].no \in 0 .. count
    BY <2>1 DEF InHand
  <2>3. CASE name[v] = n0
    BY <1>2, <1>3, <1>4, <2>2, <2>3 DEF BodyIsFile
  <2>4. CASE name[v] # n0
    BY <1>2, <1>4, <2>1, <2>4 DEF BodyIsFile
  <2>. QED
    BY <2>3, <2>4
<1>10. WritesOwn'
  BY <1>1, <1>4 DEF WritesOwn
<1>11. \A c \in Contents : c > count' => uploads'[c] = 0
  BY <1>2, <1>3, Sets DEF CopyInv
<1>12. \A v \in Uploaders : IsFiniteSet(snap'[v])
  BY <1>2 DEF CopyInv
<1>13. \A c \in 0 .. count' : Paid(c)' /\ AsWhole(c)' /\ Account(c)'
  BY <1>3, <1>5, <1>8
<1>14. \A n \in Files : Cardinality(BusyAt(n)') <= 1 + excused'
  BY <1>2, <1>6, <1>7
<1>. QED
  BY <1>2, <1>9, <1>10, <1>11, <1>12, <1>13, <1>14 DEF CopyInv

(* The app killed: every uploader between its upload and its mark is one   *)
(* copy more, perhaps.                                                     *)
LEMMA KillCopy ==
    ASSUME UploadInv, UploadInv', CopyInv, Kill
    PROVE  CopyInv'
<1> DEFINE M == {u \in Uploaders : pc[u] = "mark"}
<1>1. /\ UploadTypeOK /\ UNCHANGED << file, marks, count, nameOf, uploads >> /\ writing' = Absent
      /\ pc' = [u \in Uploaders |-> IF u = Page THEN "idle" ELSE "none"]
      /\ snap' = [u \in Uploaders |-> {}] /\ excused' = excused + Cardinality(M)
  BY DEF UploadInv, Kill, shelf
<1>2. IsFiniteSet(M) /\ Cardinality(M) \in Nat /\ (M # {} => Cardinality(M) # 0)
  <2>1. M \in SUBSET Uploaders
    OBVIOUS
  <2>. HIDE DEF M
  <2>. QED
    BY <2>1, FiniteLoops, FS_Subset, FS_CardinalityType, FS_EmptySet
<1>3. \A u \in Uploaders : pc'[u] \in {"idle", "none"} /\ snap'[u] = {}
  BY <1>1
<1>4. \A c : Taking(c)' = {} /\ BusyAt(c)' = {}
  BY <1>3 DEF Taking, BusyAt, Busy
<1>5. excused \in Nat /\ excused' \in Nat /\ excused' >= excused
  BY <1>1, <1>2 DEF CopyInv
<1>6. ASSUME NEW c \in 0 .. count PROVE Paid(c)' /\ AsWhole(c)' /\ Account(c)'
  <2>1. /\ Paid(c) /\ AsWhole(c) /\ Account(c) /\ uploads[c] \in Nat /\ uploads[c] <= 1 + excused
        /\ (Taking(c) # {} => uploads[c] <= excused)
    BY <1>1, CopyFacts
  <2>2. Cardinality(Taking(c)') = 0
    BY <1>4, FS_EmptySet
  <2>3. Paid(c)'
    BY <1>1, <1>5, <2>1, <2>2 DEF Paid
  <2>4. Account(c)'
    <3>. SUFFICES ASSUME file[nameOf[c]].no = c, file[nameOf[c]].whole,
                         ~Marked(nameOf[c], file[nameOf[c]].size)'
                  PROVE  uploads[c] <= excused'
      BY <1>1 DEF Account
    <3>1. CASE M # {}
      <4>1. Cardinality(M) \in Nat \ {0}
        BY <1>2, <3>1
      <4>. HIDE DEF M
      <4>. QED
        BY <1>1, <1>5, <2>1, <4>1
    <3>2. CASE M = {}
      <4>1. ~Marked(nameOf[c], file[nameOf[c]].size)
        BY <1>1, <3>2 DEF Marked
      <4>2. uploads[c] <= excused
        BY <2>1, <4>1 DEF Account
      <4>. QED
        BY <1>5, <2>1, <4>2
    <3>. QED
      BY <3>1, <3>2
  <2>. QED
    BY <1>1, <2>1, <2>3, <2>4 DEF AsWhole
<1>7. \A n \in Files : Cardinality(BusyAt(n)') <= 1 + excused'
  BY <1>4, <1>5, FS_EmptySet
<1>8. \A u \in Uploaders : BodyIsFile(u)' /\ IsFiniteSet(snap'[u])
  BY <1>3, FS_EmptySet DEF BodyIsFile
<1>9. WritesOwn'
  BY <1>1 DEF WritesOwn
<1>10. IsFiniteSet(marks') /\ \A c \in Contents : c > count' => uploads'[c] = 0
  BY <1>1 DEF CopyInv
<1>11. \A c \in 0 .. count' : Paid(c)' /\ AsWhole(c)' /\ Account(c)'
  BY <1>1, <1>6
<1>12. (\A u \in Uploaders : BodyIsFile(u)') /\ \A u \in Uploaders : IsFiniteSet(snap'[u])
  BY <1>8
<1>. QED
  BY <1>1, <1>5, <1>7, <1>9, <1>10, <1>11, <1>12 DEF CopyInv

LEMMA CopyInvInit == UploadInit => CopyInv
<1>. SUFFICES ASSUME UploadInit PROVE CopyInv
  OBVIOUS
<1>1. /\ UploadTypeOK /\ count = 0 /\ excused = 0 /\ marks = {} /\ writing = Absent
      /\ \A c \in Contents : uploads[c] = 0
      /\ \A u \in Uploaders : snap[u] = {} /\ pc[u] \in {"idle", "none"}
      /\ file[Local].whole
  BY UploadInvInit, Sets DEF UploadInv, UploadInit
<1>2. \A c : Taking(c) = {} /\ BusyAt(c) = {}
  BY <1>1 DEF Taking, BusyAt, Busy
<1>3. Cardinality({}) = 0 /\ IsFiniteSet({})
  BY FS_EmptySet
<1>4. ASSUME NEW c \in 0 .. count PROVE Paid(c) /\ AsWhole(c) /\ Account(c)
  BY <1>1, <1>2, <1>3, Numbers DEF Paid, AsWhole, Account
<1>5. /\ \A u \in Uploaders : BodyIsFile(u) /\ IsFiniteSet(snap[u])
      /\ WritesOwn /\ IsFiniteSet(marks)
  BY <1>1, <1>3 DEF BodyIsFile, WritesOwn
<1>6. \A n \in Files : Cardinality(BusyAt(n)) <= 1 + excused
  BY <1>1, <1>2, <1>3
<1>7. \A c \in Contents : c > count => uploads[c] = 0
  BY <1>1
<1>. QED
  BY <1>1, <1>4, <1>5, <1>6, <1>7 DEF CopyInv

LEMMA CopyInvStep == UploadInv /\ CopyInv /\ [UploadNext]_uploadVars => CopyInv'
<1>. SUFFICES ASSUME UploadInv, UploadInv', CopyInv, [UploadNext]_uploadVars PROVE CopyInv'
  BY UploadInvStep
<1>1. CASE BeginWrite \/ FinishWrite \/ Kill \/ PageUploads
  BY <1>1, BeginWriteCopy, FinishWriteCopy, KillCopy, PageCopy
<1>2. ASSUME NEW u \in Uploaders, Uploads(u) PROVE CopyInv'
  BY <1>2, BeginCopy, LookCopy, SendCopy, CreateCopy, FailCopy, MarkCopy DEF Uploads
<1>3. ASSUME NEW l \in Loops, LoopStep(l) \/ Start(l) PROVE CopyInv'
  BY <1>2, <1>3, Sets, LoopCopy, DeleteCopy DEF LoopStep
<1>4. ASSUME NEW l \in Loops, Stop(l) \/ TriggerUpload(l) PROVE CopyInv'
  BY <1>4, OutsideCopy DEF Stop, TriggerUpload, shelf, item, written
<1>5. CASE Outside
  BY <1>5, OutsideCopy DEF Outside, item, written
<1>6. CASE UNCHANGED uploadVars
  BY <1>6, OutsideCopy DEF uploadVars
<1>. QED
  BY <1>1, <1>2, <1>3, <1>4, <1>5, <1>6, Sets DEF UploadNext

(* A second copy on Drive has a cause of its own (wr_drive_uploader.dart,  *)
(* uploadIfNew): a kill before the mark, a lost reply, a file marked by    *)
(* another size, an upload beside another, an overwritten mark, or a copy  *)
(* the user had removed; however many upload, and whatever they share.     *)
THEOREM UploadOneCopyUnlessCut == UploadSpec => []OneCopyUnlessCut
<1>1. UploadInv /\ CopyInv => OneCopyUnlessCut
  <2>. SUFFICES ASSUME UploadInv, CopyInv, NEW c \in Contents PROVE uploads[c] <= 1 + excused
    BY DEF OneCopyUnlessCut
  <2>1. UploadTypeOK /\ excused \in Nat /\ count \in Nat
    BY Numbers DEF UploadInv, CopyInv
  <2>2. CASE c > count
    BY <2>1, <2>2 DEF CopyInv
  <2>3. CASE ~(c > count)
    <3>1. c \in 0 .. count
      BY <2>1, <2>3, Sets
    <3>. QED
      BY <2>1, <3>1, CopyFacts
  <2>. QED
    BY <2>2, <2>3
<1>. QED
  BY <1>1, UploadInvInit, UploadInvStep, CopyInvInit, CopyInvStep, PTL DEF UploadSpec
-----------------------------------------------------------------------------
(***************************************************************************)
(* The schedule.                                                           *)
(***************************************************************************)
ScheduleTypeOK ==
    /\ now \in Nat /\ mode \in Modes /\ steady \in BOOLEAN
    /\ loopPc \in {"poll", "sleep", "pull"}

(* What makes EveryDayIsServed inductive: a loop that sleeps on a scheduled *)
(* day, at or after its time, has seen a pull end on that day.              *)
SleepsWhenServed ==
    loopPc = "sleep" /\ steady /\ Minute(now) >= Time => lastDate = Day(now)

ScheduleInv ==
    /\ ScheduleTypeOK
    /\ steady => mode = "scheduled"
    /\ SleepsWhenServed

(* A quotient is the only number that leaves a rest below the divisor.     *)
LEMMA QuotientIsUnique ==
    ASSUME NEW n \in Nat \ {0}, NEW d \in Nat, NEW r \in Nat, r < n
    PROVE  (n * d + r) \div n = d
<1> DEFINE q == (n * d + r) \div n
           s == (n * d + r) % n
<1>1. n * d \in Nat
  OBVIOUS
<1>2. q \in Int /\ s \in 0 .. n - 1 /\ n * d + r = n * q + s
  BY <1>1
<1>. HIDE DEF q, s
<1>3. CASE q < d
  <2>1. n * q + n <= n * d
    <3>1. q + 1 <= d
      BY <1>2, <1>3
    <3>2. n * (q + 1) <= n * d
      BY <1>2, <3>1
    <3>. QED
      BY <1>2, <3>2
  <2>. QED
    BY <1>1, <1>2, <2>1
<1>4. CASE q > d
  <2>1. n * d + n <= n * q
    <3>1. d + 1 <= q
      BY <1>2, <1>4
    <3>2. n * (d + 1) <= n * q
      BY <1>2, <3>1
    <3>. QED
      BY <1>2, <3>2
  <2>. QED
    BY <1>1, <1>2, <2>1
<1>5. q = d
  BY <1>2, <1>3, <1>4
<1>. QED
  BY <1>5 DEF q

(* A slot whose successor is on another day is the last of its day.        *)
LEMMA LastSlot ==
    ASSUME NEW slot \in Nat, Day(slot + 1) # Day(slot)
    PROVE  Minute(slot) >= Time
<1>1. DayLength \in Nat \ {0} /\ Time \in Nat /\ Time <= DayLength - 1
  BY ScheduleAssumption
<1>2. PICK d \in Nat, r \in Nat :
        /\ d = slot \div DayLength /\ r = slot % DayLength
        /\ r < DayLength /\ slot = DayLength * d + r
  BY <1>1
<1>3. r + 1 < DayLength => FALSE
  <2>1. SUFFICES ASSUME r + 1 < DayLength PROVE FALSE
    OBVIOUS
  <2>2. (DayLength * d + (r + 1)) \div DayLength = d
    BY <1>1, <1>2, <2>1, QuotientIsUnique
  <2>3. slot + 1 = DayLength * d + (r + 1)
    BY <1>1, <1>2
  <2>. QED
    BY <1>2, <2>2, <2>3 DEF Day
<1>. QED
  BY <1>1, <1>2, <1>3 DEF Minute

LEMMA ScheduleInvInit == ScheduleInit => ScheduleInv
<1>. SUFFICES ASSUME ScheduleInit PROVE ScheduleInv
  OBVIOUS
<1>. QED
  BY DEF ScheduleInit, ScheduleInv, ScheduleTypeOK, SleepsWhenServed

LEMMA ScheduleInvStep == ScheduleInv /\ [ScheduleNext]_scheduleVars => ScheduleInv'
<1>. SUFFICES ASSUME ScheduleInv, [ScheduleNext]_scheduleVars PROVE ScheduleInv'
  OBVIOUS
<1>. USE DEF ScheduleInv, ScheduleTypeOK, SleepsWhenServed
<1>1. CASE Poll
  <2>1. loopPc' = "sleep" => ~Pulls
    BY <1>1 DEF Poll
  <2>2. mode = "scheduled" /\ ~Pulls => RanToday \/ ~(Minute(now) >= Time)
    BY DEF Pulls, ShouldStart
  <2>. QED
    BY <1>1, <2>1, <2>2 DEF Poll, RanToday, Minute, Day
<1>2. CASE PullThrows
  BY <1>2 DEF PullThrows
<1>3. CASE PullBrings
  BY <1>3 DEF PullBrings
<1>4. CASE PullEnds
  BY <1>4 DEF PullEnds, Day
<1>5. CASE Tick
  <2>1. loopPc' # "sleep" /\ now' \in Nat /\ loopPc' \in {"poll", "pull"}
    BY <1>5 DEF Tick
  <2>2. steady' \in BOOLEAN /\ (steady' => mode' = "scheduled") /\ mode' \in Modes
    BY <1>5 DEF Tick
  <2>. QED
    BY <2>1, <2>2
<1>6. CASE Wake
  BY <1>6 DEF Wake
<1>7. CASE TriggerManualPull
  BY <1>7 DEF TriggerManualPull, Minute, Day
<1>8. CASE SaveSchedule
  BY <1>8 DEF SaveSchedule
<1>9. CASE UNCHANGED scheduleVars
  BY <1>9 DEF scheduleVars, Minute, Day
<1>. QED
  BY <1>1, <1>2, <1>3, <1>4, <1>5, <1>6, <1>7, <1>8, <1>9 DEF ScheduleNext

(* However pulls last, throw or bring something, and whatever is tapped or *)
(* changed in the settings: no day that was a scheduled one from its first *)
(* slot to its last ends before a pull has ended on it or while none runs. *)
THEOREM ScheduleServesEveryDay == ScheduleSpec => EveryDayIsServed
<1>1. ScheduleInv /\ [ScheduleNext]_scheduleVars =>
        [Day(now') # Day(now) /\ steady => lastDate = Day(now) \/ loopPc = "pull"]_scheduleVars
  <2>. SUFFICES ASSUME ScheduleInv, ScheduleNext, Day(now') # Day(now), steady, loopPc # "pull"
                PROVE  lastDate = Day(now)
    OBVIOUS
  <2>1. Tick
    BY DEF ScheduleNext, Poll, PullThrows, PullBrings, PullEnds, Wake, TriggerManualPull, SaveSchedule
  <2>2. now' = now + 1 /\ loopPc = "sleep" /\ now \in Nat
    BY <2>1 DEF Tick, ScheduleInv, ScheduleTypeOK
  <2>3. Minute(now) >= Time
    BY <2>2, LastSlot
  <2>. QED
    BY <2>2, <2>3 DEF ScheduleInv, SleepsWhenServed
<1>. QED
  BY <1>1, ScheduleInvInit, ScheduleInvStep, PTL DEF ScheduleSpec, EveryDayIsServed
=============================================================================
