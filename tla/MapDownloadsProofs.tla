-------------------------- MODULE MapDownloadsProofs --------------------------
(***************************************************************************)
(* Proofs about MapDownloads, for any sets, files, maps and archives.      *)
(*                                                                         *)
(* Requests: who has a request for a set, and how far its entry is.        *)
(* Extractions: what has been unpacked is in the folder.  On both rests    *)
(* the fetcher's: the transfer it saw is on its way to the database, or    *)
(* has failed behind another import of the same set.                       *)
(***************************************************************************)
EXTENDS MapDownloads, WellFoundedInduction, TLAPS

ET == [key : Keys, set : Sets \cup {NoSet}, stage : Stages, fromDisk : BOOLEAN]
JT == [set : Sets \cup {NoSet}, left : SUBSET Maps, st : {"none", "submitted", "writing", "wrote", "done", "failed"}, made : BOOLEAN]
OT == [set : Sets, left : SUBSET Maps, st : Running, made : BOOLEAN]
FF == [target : Maps \cup {NoMap}, set : Sets \cup {NoSet}, status : {"idle", "working", "notfound"},
       why : {"none", "resolve", "install", "mismatch"}, inFlight : BOOLEAN, transferred : BOOLEAN, cut : BOOLEAN]
FT == {f \in FF : f.status # "idle" => f.target \in Maps}

HT == {"null", "queued", "live", "arrivedOk", "arrivedBad", "ok", "bad", "cancelled"}

Types ==
  /\ TypeOK /\ job \in [Keys -> JT] /\ fetcher \in FT
  /\ orphans \subseteq OT
  /\ phase # "update" => at = 1

(* Entries: one per key, and what a stage says of its key.                 *)
EntryOK(e) ==
  /\ e.key \in Sets => e.set = e.key
  /\ e.key \in Files => e.stage # "downloading"
  /\ e.fromDisk => e.stage = "installing" /\ e.key \in Sets
  /\ e.stage = "installing" => e.set # NoSet
EntriesOK ==
  /\ \A i, k \in DOMAIN entries : entries[i].key = entries[k].key => i = k
  /\ \A i \in DOMAIN entries : EntryOK(entries[i])

(* A request belongs to an entry that waits for it or has seen it fail.    *)
HandlesOK ==
  \A s \in Sets : handle[s] # "null" =>
    \E i \in DOMAIN entries :
      /\ entries[i].key = s
      /\ \/ entries[i].stage = "downloading"
         \/ handle[s] = "bad" /\ entries[i].stage \in {"failed", "expired"}

(* What is in the folder of a set, and where an archive is unpacked to.    *)
Accounted(s) == Contents(s) \cup lost[s]
Folder(k) == IF k \in Sets THEN k ELSE FileSet[k]

JobsOK ==
  \A k \in Keys : job[k].st \in Running \cup {"done"} =>
    /\ job[k].set = Folder(k)
    /\ Archive[k] \ job[k].left \subseteq Accounted(Folder(k))
    /\ job[k].st = "done" => job[k].left = {}

UnpackedOK ==
  \A i \in DOMAIN entries :
    /\ entries[i].stage = "installing" /\ ~entries[i].fromDisk =>
         Archive[entries[i].key] \subseteq Accounted(entries[i].set)
    /\ entries[i].key \in Files => entries[i].set = NoSet \/ entries[i].stage \in {"installing", "failed", "expired"}

InstallerInv == Types /\ EntriesOK /\ HandlesOK /\ JobsOK /\ UnpackedOK

(* The fetcher has seen a transfer of the target's set, and nobody has     *)
(* dropped its entry: then the entry is on its way, or was imported in     *)
(* this frame, or has failed behind an import of a local file.             *)
Hidden(i) == \E k \in DOMAIN entries :
  /\ k < i /\ entries[k].set = entries[i].set /\ entries[k].stage = "installing"
  /\ \A m \in DOMAIN entries : m < k => entries[m].set # entries[i].set
Active(e) == e.stage \in {"downloading", "extracting"} \/ (e.stage = "installing" /\ ~e.fromDisk)
OnItsWay(s) == \E i \in DOMAIN entries :
  /\ entries[i].key = s
  /\ Active(entries[i]) \/ (entries[i].stage \in {"failed", "expired"} /\ (phase = "events" => Hidden(i)))
Imported(s) == phase # "events" /\ idle /\ Archive[s] \subseteq db \cup lost[s]
Watching == fetcher.status = "working" /\ fetcher.transferred /\ ~fetcher.cut

FetcherInv ==
  /\ fetcher.transferred \/ fetcher.why = "mismatch" => fetcher.set # NoSet
  /\ fetcher.transferred /\ fetcher.status = "working" => fetcher.inFlight
  /\ Watching => \/ OnItsWay(fetcher.set) \/ Imported(fetcher.set)
                 \/ fetcher.target \notin Archive[fetcher.set] \ lost[fetcher.set]
  /\ MismatchHasAReason

(* What is lost stays lost.                                                *)
LostGrows == \A s \in Sets : lost[s] \subseteq lost'[s]

-----------------------------------------------------------------------------
(* Lists, and the least index at which something holds.                    *)
LEMMA RemoveAtFacts ==
  ASSUME NEW S, NEW s \in Seq(S), NEW i \in DOMAIN s
  PROVE  /\ RemoveAt(s, i) \in Seq(S) /\ Len(RemoveAt(s, i)) = Len(s) - 1
         /\ DOMAIN RemoveAt(s, i) = 1 .. Len(s) - 1
         /\ \A k \in 1 .. Len(s) - 1 : RemoveAt(s, i)[k] = IF k < i THEN s[k] ELSE s[k + 1]
<1> DEFINE a == SubSeq(s, 1, i - 1)
           b == SubSeq(s, i + 1, Len(s))
<1>1. a \in Seq(S) /\ Len(a) = i - 1 /\ \A k \in 1 .. i - 1 : a[k] = s[k]
  OBVIOUS
<1>2. b \in Seq(S) /\ Len(b) = Len(s) - i /\ \A k \in 1 .. Len(s) - i : b[k] = s[k + i]
  OBVIOUS
<1>3. RemoveAt(s, i) = a \o b
  BY DEF RemoveAt
<1> HIDE DEF a, b
<1>4. a \o b \in Seq(S) /\ Len(a \o b) = Len(s) - 1
  BY <1>1, <1>2
<1>5. ASSUME NEW k \in 1 .. Len(s) - 1 PROVE (a \o b)[k] = IF k < i THEN s[k] ELSE s[k + 1]
  <2>1. CASE k < i
    BY <1>1, <1>2, <2>1
  <2>2. CASE ~(k < i)
    <3>1. k - Len(a) \in 1 .. Len(s) - i /\ (k - Len(a)) + i = k + 1
      BY <1>1, <2>2
    <3>2. (a \o b)[k] = b[k - Len(a)]
      BY <1>1, <1>2, <2>2
    <3>3. QED
      BY <1>2, <2>2, <3>1, <3>2
  <2>3. QED
    BY <2>1, <2>2
<1>6. DOMAIN (a \o b) = 1 .. Len(s) - 1
  BY <1>4
<1>7. QED
  BY <1>3, <1>4, <1>5, <1>6

LEMMA AppendFacts ==
  ASSUME NEW S, NEW s \in Seq(S), NEW x \in S
  PROVE  /\ Append(s, x) \in Seq(S) /\ Len(s) \in Nat /\ DOMAIN s = 1 .. Len(s)
         /\ DOMAIN Append(s, x) = 1 .. Len(s) + 1
         /\ Append(s, x)[Len(s) + 1] = x
         /\ \A i \in 1 .. Len(s) : Append(s, x)[i] = s[i] /\ s[i] \in S
  OBVIOUS

(* Removing an entry keeps the others apart and forgets no other.          *)
LEMMA RemoveAtKeeps ==
  ASSUME NEW S, NEW s \in Seq(S), NEW i \in DOMAIN s
  PROVE  /\ \A k \in DOMAIN RemoveAt(s, i) : \E m \in DOMAIN s : m # i /\ RemoveAt(s, i)[k] = s[m]
         /\ \A m \in DOMAIN s : m # i => \E k \in DOMAIN RemoveAt(s, i) : RemoveAt(s, i)[k] = s[m]
<1>1. /\ DOMAIN RemoveAt(s, i) = 1 .. Len(s) - 1
      /\ \A k \in 1 .. Len(s) - 1 : RemoveAt(s, i)[k] = IF k < i THEN s[k] ELSE s[k + 1]
  BY RemoveAtFacts
<1>2. ASSUME NEW k \in DOMAIN RemoveAt(s, i)
      PROVE  \E m \in DOMAIN s : m # i /\ RemoveAt(s, i)[k] = s[m]
  <2> DEFINE m == IF k < i THEN k ELSE k + 1
  <2>1. m \in DOMAIN s /\ m # i /\ RemoveAt(s, i)[k] = s[m]
    BY <1>1, <1>2
  <2>2. QED
    BY <2>1
<1>3. ASSUME NEW m \in DOMAIN s, m # i
      PROVE  \E k \in DOMAIN RemoveAt(s, i) : RemoveAt(s, i)[k] = s[m]
  <2> DEFINE k == IF m < i THEN m ELSE m - 1
  <2>1. k \in DOMAIN RemoveAt(s, i) /\ RemoveAt(s, i)[k] = s[m]
    BY <1>1, <1>3
  <2>2. QED
    BY <2>1
<1>4. QED
  BY <1>2, <1>3

LEMMA RemoveAtOrder ==
  ASSUME NEW S, NEW s \in Seq(S), NEW i \in DOMAIN s, NEW m \in DOMAIN s, m # i
  PROVE  LET k == IF m < i THEN m ELSE m - 1
         IN  k \in DOMAIN RemoveAt(s, i) /\ RemoveAt(s, i)[k] = s[m]
<1>1. /\ DOMAIN RemoveAt(s, i) = 1 .. Len(s) - 1
      /\ \A k \in 1 .. Len(s) - 1 : RemoveAt(s, i)[k] = IF k < i THEN s[k] ELSE s[k + 1]
  BY RemoveAtFacts
<1>2. QED
  BY <1>1

LEMMA Least == ASSUME NEW T, T \subseteq Nat, T # {} PROVE \E i \in T : \A j \in T : i <= j
<1> DEFINE R == OpToRel(<, Nat)
<1>1. IsWellFoundedOn(R, Nat)
  BY NatLessThanWellFounded
<1>2. \A x, y \in Nat : <<x, y>> \in R <=> (x < y)
  BY DEF OpToRel
<1> HIDE DEF R
<1>3. \E x \in T : \A y \in T : ~(<<y, x>> \in R)
  BY <1>1, WFMin
<1>4. PICK i \in T : \A j \in T : ~(<<j, i>> \in R)
  BY <1>3
<1>5. ASSUME NEW j \in T PROVE i <= j
  <2>1. i \in Nat /\ j \in Nat
    OBVIOUS
  <2>2. ~(j < i)
    BY <1>2, <1>4, <2>1
  <2>3. QED
    BY <2>1, <2>2
<1>6. QED
  BY <1>4, <1>5

LEMMA EntryTypes ==
  ASSUME TypeOK
  PROVE  /\ entries \in Seq(ET) /\ DOMAIN entries = 1 .. Len(entries) /\ Len(entries) \in Nat
         /\ \A i \in DOMAIN entries : entries[i] \in ET /\ i \in Nat
<1>1. entries \in Seq(ET)
  BY DEF TypeOK, ET, folders, OT, Running
<1>2. QED
  BY <1>1

(* What get_state looks at: the first entry of the set.                    *)
LEMMA WatchedFacts ==
  ASSUME TypeOK, NEW set
  PROVE  \/ Watched(set) = "none" /\ \A i \in DOMAIN entries : entries[i].set # set
         \/ \E j \in DOMAIN entries : /\ entries[j].set = set /\ Watched(set) = entries[j].stage
                                      /\ \A i \in DOMAIN entries : entries[i].set = set => j <= i
<1> DEFINE of == {i \in DOMAIN entries : entries[i].set = set}
<1>1. Watched(set) = IF of = {} THEN "none" ELSE entries[CHOOSE i \in of : \A j \in of : i <= j].stage
  BY DEF Watched
<1>2. CASE of = {}
  BY <1>1, <1>2
<1>3. CASE of # {}
  <2>1. of \subseteq Nat
    BY EntryTypes
  <2> DEFINE j == CHOOSE i \in of : \A k \in of : i <= k
  <2>2. j \in of /\ \A k \in of : j <= k
    <3> HIDE DEF of
    <3>1. \E i \in of : \A k \in of : i <= k
      BY <1>3, <2>1, Least
    <3>2. QED
      BY <3>1
  <2>3. Watched(set) = entries[j].stage
    BY <1>1, <1>3
  <2> HIDE DEF j
  <2>4. QED
    BY <2>2, <2>3
<1>4. QED
  BY <1>2, <1>3

LEMMA Located ==
  ASSUME TypeOK, EntriesOK, NEW k, Has(k)
  PROVE  Of(k) \in DOMAIN entries /\ entries[Of(k)].key = k
<1>1. \E i \in DOMAIN entries : entries[i].key = k
  BY DEF Has
<1>2. QED
  BY <1>1 DEF Of

-----------------------------------------------------------------------------
(* The three ways in which the list of entries changes.                    *)
Moves(s) == handle'[s] \in {handle[s], "null"} \/ handle[s] \notin {"null", "bad"}

LEMMA EntryChanges ==
  ASSUME Types, EntriesOK, HandlesOK, NEW i \in DOMAIN entries, NEW e \in ET,
         entries' = [entries EXCEPT ![i] = e], e.key = entries[i].key, EntryOK(e),
         \A s \in Sets : s # e.key => Moves(s),
         e.key \in Sets => \/ handle'[e.key] = "null" \/ e.stage = "downloading"
                           \/ handle'[e.key] = "bad" /\ e.stage \in {"failed", "expired"}
  PROVE  /\ entries' \in Seq(ET) /\ Len(entries') = Len(entries) /\ EntriesOK' /\ HandlesOK'
         /\ DOMAIN entries' = DOMAIN entries /\ entries'[i] = e
         /\ \A k \in DOMAIN entries : k # i => entries'[k] = entries[k]
<1>1. entries \in Seq(ET)
  BY EntryTypes DEF Types
<1>2. /\ entries' \in Seq(ET) /\ Len(entries') = Len(entries)
      /\ DOMAIN entries' = DOMAIN entries /\ entries'[i] = e
      /\ \A k \in DOMAIN entries : k # i => entries'[k] = entries[k]
  BY <1>1
<1>3. EntriesOK'
  <2>1. \A k \in DOMAIN entries' : entries'[k].key = entries[k].key /\ EntryOK(entries'[k])
    BY <1>2 DEF EntriesOK
  <2>2. QED
    BY <1>2, <2>1 DEF EntriesOK, EntryOK
<1>4. HandlesOK'
  <2> SUFFICES ASSUME NEW s \in Sets, handle'[s] # "null"
               PROVE  \E k \in DOMAIN entries' :
                        /\ entries'[k].key = s
                        /\ \/ entries'[k].stage = "downloading"
                           \/ handle'[s] = "bad" /\ entries'[k].stage \in {"failed", "expired"}
    BY DEF HandlesOK
  <2>1. CASE s = e.key
    BY <1>2, <2>1
  <2>2. CASE s # e.key
    <3>1. Moves(s)
      BY <2>2
    <3>2. handle[s] # "null"
      BY <3>1 DEF Moves
    <3>3. PICK k \in DOMAIN entries :
            /\ entries[k].key = s
            /\ \/ entries[k].stage = "downloading"
               \/ handle[s] = "bad" /\ entries[k].stage \in {"failed", "expired"}
      BY <3>2 DEF HandlesOK
    <3>4. k # i
      BY <2>2, <3>3
    <3>5. QED
      BY <1>2, <3>1, <3>3, <3>4 DEF Moves
  <2>3. QED
    BY <2>1, <2>2
<1>5. QED
  BY <1>2, <1>3, <1>4

LEMMA EntryLeaves ==
  ASSUME Types, EntriesOK, HandlesOK, NEW i \in DOMAIN entries, entries' = RemoveAt(entries, i),
         \A s \in Sets : s # entries[i].key => Moves(s),
         entries[i].key \in Sets => handle'[entries[i].key] = "null"
  PROVE  /\ entries' \in Seq(ET) /\ Len(entries') = Len(entries) - 1 /\ EntriesOK' /\ HandlesOK'
         /\ \A k \in DOMAIN entries' : \E m \in DOMAIN entries : m # i /\ entries'[k] = entries[m]
         /\ \A m \in DOMAIN entries : m # i => \E k \in DOMAIN entries' : entries'[k] = entries[m]
<1>1. entries \in Seq(ET)
  BY EntryTypes DEF Types
<1>2. /\ entries' \in Seq(ET) /\ Len(entries') = Len(entries) - 1 /\ DOMAIN entries' = 1 .. Len(entries) - 1
      /\ \A k \in 1 .. Len(entries) - 1 : entries'[k] = IF k < i THEN entries[k] ELSE entries[k + 1]
  BY <1>1, RemoveAtFacts
<1>3. /\ \A k \in DOMAIN entries' : \E m \in DOMAIN entries : m # i /\ entries'[k] = entries[m]
      /\ \A m \in DOMAIN entries : m # i => \E k \in DOMAIN entries' : entries'[k] = entries[m]
  BY <1>1, RemoveAtKeeps
<1>4. EntriesOK'
  <2>1. ASSUME NEW k \in DOMAIN entries', NEW m \in DOMAIN entries', entries'[k].key = entries'[m].key
        PROVE  k = m
    <3> DEFINE kk == IF k < i THEN k ELSE k + 1
               mm == IF m < i THEN m ELSE m + 1
    <3>0. /\ k \in 1 .. Len(entries) - 1 /\ m \in 1 .. Len(entries) - 1 /\ i \in 1 .. Len(entries)
          /\ DOMAIN entries = 1 .. Len(entries) /\ Len(entries) \in Nat
      BY <1>1, <1>2
    <3>1. kk \in DOMAIN entries /\ mm \in DOMAIN entries /\ entries'[k] = entries[kk] /\ entries'[m] = entries[mm]
      <4>1. kk \in DOMAIN entries /\ mm \in DOMAIN entries
        BY <3>0
      <4>2. entries'[k] = entries[kk] /\ entries'[m] = entries[mm]
        BY <1>2, <3>0
      <4>3. QED
        BY <4>1, <4>2
    <3>2. kk = mm
      <4> HIDE DEF kk, mm
      <4>1. QED
        BY <2>1, <3>1 DEF EntriesOK
    <3>3. QED
      BY <3>0, <3>2
  <2>2. \A k \in DOMAIN entries' : EntryOK(entries'[k])
    BY <1>3 DEF EntriesOK
  <2>3. QED
    BY <2>1, <2>2 DEF EntriesOK, EntryOK
<1>5. HandlesOK'
  <2> SUFFICES ASSUME NEW s \in Sets, handle'[s] # "null"
               PROVE  \E k \in DOMAIN entries' :
                        /\ entries'[k].key = s
                        /\ \/ entries'[k].stage = "downloading"
                           \/ handle'[s] = "bad" /\ entries'[k].stage \in {"failed", "expired"}
    BY DEF HandlesOK
  <2>1. s # entries[i].key /\ Moves(s)
    OBVIOUS
  <2>2. handle[s] # "null"
    BY <2>1 DEF Moves
  <2>3. PICK m \in DOMAIN entries :
          /\ entries[m].key = s
          /\ \/ entries[m].stage = "downloading"
             \/ handle[s] = "bad" /\ entries[m].stage \in {"failed", "expired"}
    BY <2>2 DEF HandlesOK
  <2>4. PICK k \in DOMAIN entries' : entries'[k] = entries[m]
    BY <1>3, <2>1, <2>3
  <2>5. QED
    BY <2>1, <2>3, <2>4 DEF Moves
<1>6. QED
  BY <1>2, <1>3, <1>4, <1>5

LEMMA EntryJoins ==
  ASSUME Types, EntriesOK, HandlesOK, NEW k \in Keys, ~Has(k), entries' = Append(entries, Entry(k)),
         \A s \in Sets : Moves(s)
  PROVE  /\ entries' \in Seq(ET) /\ Len(entries') = Len(entries) + 1 /\ EntriesOK' /\ HandlesOK'
         /\ DOMAIN entries' = 1 .. Len(entries) + 1 /\ DOMAIN entries = 1 .. Len(entries) /\ Len(entries) \in Nat
         /\ entries'[Len(entries) + 1] = Entry(k)
         /\ \A i \in DOMAIN entries : entries'[i] = entries[i]
<1>1. entries \in Seq(ET) /\ DOMAIN entries = 1 .. Len(entries) /\ Len(entries) \in Nat
  BY EntryTypes DEF Types
<1>2. Entry(k) \in ET /\ Entry(k).key = k /\ EntryOK(Entry(k))
  BY DownloadAssumption DEF Entry, ET, Stages, EntryOK, Keys
<1>3. /\ entries' \in Seq(ET) /\ Len(entries') = Len(entries) + 1
      /\ DOMAIN entries' = 1 .. Len(entries) + 1
      /\ entries'[Len(entries) + 1] = Entry(k)
      /\ \A i \in DOMAIN entries : entries'[i] = entries[i]
  BY <1>1, <1>2
<1>4. \A i \in DOMAIN entries : entries[i].key # k
  BY DEF Has
<1>5. EntriesOK'
  <2>1. \A i \in DOMAIN entries' : EntryOK(entries'[i])
    BY <1>1, <1>2, <1>3 DEF EntriesOK
  <2>2. \A i, m \in DOMAIN entries' : entries'[i].key = entries'[m].key => i = m
    BY <1>1, <1>2, <1>3, <1>4 DEF EntriesOK
  <2>3. QED
    BY <2>1, <2>2 DEF EntriesOK, EntryOK
<1>6. HandlesOK'
  <2> SUFFICES ASSUME NEW s \in Sets, handle'[s] # "null"
               PROVE  \E i \in DOMAIN entries' :
                        /\ entries'[i].key = s
                        /\ \/ entries'[i].stage = "downloading"
                           \/ handle'[s] = "bad" /\ entries'[i].stage \in {"failed", "expired"}
    BY DEF HandlesOK
  <2>1. Moves(s)
    OBVIOUS
  <2>2. handle[s] # "null"
    BY <2>1 DEF Moves
  <2>3. PICK i \in DOMAIN entries :
          /\ entries[i].key = s
          /\ \/ entries[i].stage = "downloading"
             \/ handle[s] = "bad" /\ entries[i].stage \in {"failed", "expired"}
    BY <2>2 DEF HandlesOK
  <2>4. i \in DOMAIN entries' /\ entries'[i] = entries[i]
    BY <1>1, <1>3
  <2>5. QED
    BY <2>1, <2>3, <2>4 DEF Moves
<1>7. QED
  BY <1>1, <1>3, <1>5, <1>6

LEMMA EntriesStay ==
  ASSUME EntriesOK, HandlesOK, entries' = entries, \A s \in Sets : Moves(s)
  PROVE  EntriesOK' /\ HandlesOK'
<1>1. EntriesOK'
  BY DEF EntriesOK, EntryOK
<1>2. HandlesOK'
  BY DEF HandlesOK, Moves
<1>3. QED
  BY <1>1, <1>2

LEMMA StartNextFacts ==
  ASSUME NEW h \in [Sets -> HT], NEW p \in BOOLEAN, StartNext(h, p)
  PROVE  /\ handle' \in [Sets -> HT] /\ paced' \in BOOLEAN
         /\ \A s \in Sets : handle'[s] = h[s] \/ (h[s] = "queued" /\ handle'[s] = "live")
<1>1. CASE handle' = h /\ paced' = p
  BY <1>1
<1>2. CASE paced' = TRUE /\ \E s \in Sets : h[s] = "queued" /\ handle' = [h EXCEPT ![s] = "live"]
  <2>1. PICK s \in Sets : h[s] = "queued" /\ handle' = [h EXCEPT ![s] = "live"]
    BY <1>2
  <2>2. "live" \in HT
    BY DEF HT
  <2>3. QED
    BY <1>2, <2>1, <2>2
<1>3. QED
  BY <1>1, <1>2 DEF StartNext

(* The loader's and the workers' view of the folders.                      *)
LEMMA UnpackedStep ==
  ASSUME UnpackedOK, UNCHANGED folders,
         \A i \in DOMAIN entries' :
           \/ \E m \in DOMAIN entries : entries'[i] = entries[m]
           \/ /\ entries'[i].stage = "installing" /\ ~entries'[i].fromDisk =>
                   Archive[entries'[i].key] \subseteq Accounted(entries'[i].set)
              /\ entries'[i].key \in Files => entries'[i].set = NoSet \/ entries'[i].stage \in {"installing", "failed", "expired"}
  PROVE  UnpackedOK'
<1> SUFFICES ASSUME NEW i \in DOMAIN entries'
             PROVE  /\ entries'[i].stage = "installing" /\ ~entries'[i].fromDisk =>
                         Archive[entries'[i].key] \subseteq Accounted(entries'[i].set)
                    /\ entries'[i].key \in Files => entries'[i].set = NoSet \/ entries'[i].stage \in {"installing", "failed", "expired"}
  BY DEF UnpackedOK, Accounted, Contents, folders
<1>1. QED
  BY DEF UnpackedOK

LEMMA JobStep ==
  ASSUME Types, JobsOK, UNCHANGED folders, NEW k \in Keys, NEW j \in JT, job' = [job EXCEPT ![k] = j],
         j.st \in {"none", "failed"} \/ j = Working(k, Folder(k))
  PROVE  job' \in [Keys -> JT] /\ JobsOK'
<1>1. job' \in [Keys -> JT] /\ job'[k] = j /\ \A x \in Keys : x # k => job'[x] = job[x]
  BY DEF Types
<1>2. JobsOK'
  <2> SUFFICES ASSUME NEW x \in Keys, job'[x].st \in Running \cup {"done"}
               PROVE  /\ job'[x].set = Folder(x)
                      /\ Archive[x] \ job'[x].left \subseteq Accounted(Folder(x))
                      /\ job'[x].st = "done" => job'[x].left = {}
    BY DEF JobsOK, Accounted, Contents, folders, Folder
  <2>1. CASE x = k
    BY <1>1, <2>1 DEF Working, Running
  <2>2. CASE x # k
    BY <1>1, <2>2 DEF JobsOK
  <2>3. QED
    BY <2>1, <2>2
<1>3. QED
  BY <1>1, <1>2

LEMMA Folders == \A k \in Keys : Folder(k) \in Sets /\ (k \in Sets => Folder(k) = k) /\ (k \in Files => Folder(k) = FileSet[k])
  BY DownloadAssumption DEF Folder, Keys

LEMMA JobTypes ==
  /\ NoJob \in JT /\ NoJob.st = "none"
  /\ \A k \in Keys : Working(k, Folder(k)) \in JT
<1>1. \A k \in Keys : Archive[k] \in SUBSET Maps
  BY DownloadAssumption
<1>2. QED
  BY <1>1, Folders DEF NoJob, Working, JT

-----------------------------------------------------------------------------
(* BeatmapInstaller::update, one entry.                                    *)
LEMMA Staged ==
  ASSUME InstallerInv, at \in DOMAIN entries, NEW e \in ET, entries' = [entries EXCEPT ![at] = e],
         at' = at + 1, e.key = entries[at].key, EntryOK(e), UNCHANGED folders,
         \A s \in Sets : s # e.key => Moves(s),
         e.key \in Sets => \/ handle'[e.key] = "null" \/ e.stage = "downloading"
                           \/ handle'[e.key] = "bad" /\ e.stage \in {"failed", "expired"},
         e.stage = "installing" /\ ~e.fromDisk => Archive[e.key] \subseteq Accounted(e.set),
         e.key \in Files => e.set = NoSet \/ e.stage \in {"installing", "failed", "expired"}
  PROVE  /\ entries' \in Seq(ET) /\ at' \in 1 .. Len(entries') + 1
         /\ EntriesOK' /\ HandlesOK' /\ UnpackedOK'
<1>1. Types /\ EntriesOK /\ HandlesOK /\ UnpackedOK
  BY DEF InstallerInv
<1>2. /\ entries' \in Seq(ET) /\ Len(entries') = Len(entries) /\ EntriesOK' /\ HandlesOK'
      /\ DOMAIN entries' = DOMAIN entries /\ entries'[at] = e
      /\ \A k \in DOMAIN entries : k # at => entries'[k] = entries[k]
  BY <1>1, EntryChanges
<1>3. at' \in 1 .. Len(entries') + 1
  <2>1. DOMAIN entries = 1 .. Len(entries) /\ Len(entries) \in Nat
    BY <1>1, EntryTypes DEF Types
  <2>2. QED
    BY <1>2, <2>1
<1>4. UnpackedOK'
  <2>1. ASSUME NEW i \in DOMAIN entries'
        PROVE  \/ \E m \in DOMAIN entries : entries'[i] = entries[m]
               \/ /\ entries'[i].stage = "installing" /\ ~entries'[i].fromDisk =>
                       Archive[entries'[i].key] \subseteq Accounted(entries'[i].set)
                  /\ entries'[i].key \in Files => entries'[i].set = NoSet \/ entries'[i].stage \in {"installing", "failed", "expired"}
    <3>1. CASE i = at
      BY <1>2, <3>1
    <3>2. CASE i # at
      BY <1>2, <3>2
    <3>3. QED
      BY <3>1, <3>2
  <2>2. QED
    BY <1>1, <2>1, UnpackedStep
<1>5. QED
  BY <1>2, <1>3, <1>4

LEMMA Dropped ==
  ASSUME InstallerInv, at \in DOMAIN entries, Drop, UNCHANGED folders,
         \A s \in Sets : s # entries[at].key => Moves(s),
         entries[at].key \in Sets => handle'[entries[at].key] = "null"
  PROVE  /\ entries' \in Seq(ET) /\ at' \in 1 .. Len(entries') + 1
         /\ EntriesOK' /\ HandlesOK' /\ UnpackedOK'
<1>1. Types /\ EntriesOK /\ HandlesOK /\ UnpackedOK
  BY DEF InstallerInv
<1>2. /\ entries' \in Seq(ET) /\ Len(entries') = Len(entries) - 1 /\ EntriesOK' /\ HandlesOK'
      /\ \A k \in DOMAIN entries' : \E m \in DOMAIN entries : m # at /\ entries'[k] = entries[m]
  BY <1>1, EntryLeaves DEF Drop
<1>3. at' \in 1 .. Len(entries') + 1
  <2>1. DOMAIN entries = 1 .. Len(entries) /\ Len(entries) \in Nat
    BY <1>1, EntryTypes DEF Types
  <2>2. QED
    BY <1>2, <2>1 DEF Drop
<1>4. UnpackedOK'
  BY <1>1, <1>2, UnpackedStep
<1>5. QED
  BY <1>2, <1>3, <1>4

(* What the current entry is turned into.                                  *)
LEMMA StageFacts ==
  ASSUME Types, at \in DOMAIN entries, NEW to \in Stages, Stage(to)
  PROVE  LET e == [entries[at] EXCEPT !.stage = to]
         IN  /\ e \in ET /\ entries' = [entries EXCEPT ![at] = e] /\ at' = at + 1
             /\ e.key = entries[at].key /\ e.set = entries[at].set /\ e.stage = to
             /\ e.fromDisk = entries[at].fromDisk
<1> DEFINE e == [entries[at] EXCEPT !.stage = to]
<1>1. entries[at] \in ET
  BY EntryTypes DEF Types
<1>2. e \in ET /\ e.key = entries[at].key /\ e.set = entries[at].set /\ e.stage = to
      /\ e.fromDisk = entries[at].fromDisk
  BY <1>1 DEF ET
<1>3. entries' = [entries EXCEPT ![at] = e] /\ at' = at + 1
  BY DEF Stage
<1>4. QED
  BY <1>2, <1>3

InstallerKept ==
  /\ entries' \in Seq(ET) /\ at' \in 1 .. Len(entries') + 1 /\ handle' \in [Sets -> HT] /\ paced' \in BOOLEAN
  /\ EntriesOK' /\ HandlesOK' /\ UnpackedOK' /\ job' \in [Keys -> JT] /\ JobsOK'
  /\ db' \subseteq Maps /\ UNCHANGED <<orphans, folders>> /\ fetcher' \in FT

LEMMA CurrentFacts ==
  ASSUME InstallerInv, at \in DOMAIN entries
  PROVE  /\ Types /\ entries[at] \in ET /\ EntryOK(entries[at])
         /\ handle \in [Sets -> HT] /\ paced \in BOOLEAN /\ job \in [Keys -> JT] /\ JobsOK
         /\ db \subseteq Maps /\ fetcher \in FT
<1>1. Types /\ EntriesOK /\ JobsOK
  BY DEF InstallerInv
<1>2. entries[at] \in ET
  BY <1>1, EntryTypes DEF Types
<1>3. QED
  BY <1>1, <1>2 DEF Types, TypeOK, EntriesOK, HT, folders, OT, Running

LEMMA SameJobs == ASSUME JobsOK, job' = job, UNCHANGED folders PROVE JobsOK'
  BY DEF JobsOK, Accounted, Contents, folders

LEMMA CutTypes == ASSUME fetcher \in FT, NEW set, Cut(set) PROVE fetcher' \in FT
  BY DEF Cut, FT, FF

LEMMA SameHandles == ASSUME handle' = handle PROVE \A s \in Sets : Moves(s)
  BY DEF Moves

LEMMA HandleOf ==
  ASSUME EntriesOK, HandlesOK, NEW i \in DOMAIN entries, entries[i].key \in Sets
  PROVE  \/ handle[entries[i].key] = "null" \/ entries[i].stage = "downloading"
         \/ handle[entries[i].key] = "bad" /\ entries[i].stage \in {"failed", "expired"}
<1> SUFFICES ASSUME handle[entries[i].key] # "null"
             PROVE  \/ entries[i].stage = "downloading"
                    \/ handle[entries[i].key] = "bad" /\ entries[i].stage \in {"failed", "expired"}
  OBVIOUS
<1>1. PICK k \in DOMAIN entries :
        /\ entries[k].key = entries[i].key
        /\ \/ entries[k].stage = "downloading"
           \/ handle[entries[i].key] = "bad" /\ entries[k].stage \in {"failed", "expired"}
  BY DEF HandlesOK
<1>2. k = i
  BY <1>1 DEF EntriesOK
<1>3. QED
  BY <1>1, <1>2

LEMMA LeaveQueueKept == ASSUME InstallerInv, at \in DOMAIN entries, LeaveQueue(entries[at]) PROVE InstallerKept
<1> DEFINE e == entries[at]
<1>1. /\ e.stage = "queued" /\ UNCHANGED <<handle, paced, orphans, folders, db, fetcher>>
  BY DEF LeaveQueue
<1>2. /\ Types /\ e \in ET /\ EntryOK(e) /\ handle \in [Sets -> HT] /\ paced \in BOOLEAN
      /\ job \in [Keys -> JT] /\ JobsOK /\ db \subseteq Maps /\ fetcher \in FT
  BY CurrentFacts
<1>3. e.key \in Sets => handle[e.key] = "null"
  BY <1>1, HandleOf DEF InstallerInv
<1>4. \A s \in Sets : Moves(s)
  BY <1>1, SameHandles
<1>5. e.key \in Files => e.set = NoSet
  BY <1>1 DEF InstallerInv, UnpackedOK
<1>6. CASE e.key \in Files /\ Stage("extracting") /\ Submit(e.key, FileSet[e.key])
  <2> DEFINE e2 == [e EXCEPT !.stage = "extracting"]
  <2>1. /\ e2 \in ET /\ entries' = [entries EXCEPT ![at] = e2] /\ at' = at + 1
        /\ e2.key = e.key /\ e2.set = e.set /\ e2.stage = "extracting" /\ e2.fromDisk = e.fromDisk
    BY <1>2, <1>6, StageFacts DEF Stages
  <2>2. EntryOK(e2) /\ e.key \notin Sets
    BY <1>1, <1>2, <1>6, <2>1, DownloadAssumption DEF EntryOK
  <2> HIDE DEF e2
  <2>3. /\ entries' \in Seq(ET) /\ at' \in 1 .. Len(entries') + 1 /\ EntriesOK' /\ HandlesOK' /\ UnpackedOK'
    BY <1>1, <1>4, <1>5, <2>1, <2>2, Staged
  <2>4. e.key \in Keys /\ job' = [job EXCEPT ![e.key] = Working(e.key, Folder(e.key))]
        /\ Working(e.key, Folder(e.key)) \in JT
    BY <1>6, Folders, JobTypes DEF Keys, Submit
  <2>5. job' \in [Keys -> JT] /\ JobsOK'
    BY <1>1, <1>2, <2>4, JobStep
  <2>6. QED
    BY <1>1, <1>2, <2>3, <2>5 DEF InstallerKept
<1>7. CASE /\ e.key \in Sets /\ idle /\ ~Known(e.key) /\ disk[e.key] # NoDir
           /\ entries' = [entries EXCEPT ![at].stage = "installing", ![at].fromDisk = TRUE]
           /\ at' = at + 1 /\ UNCHANGED job
  <2> DEFINE e2 == [e EXCEPT !.stage = "installing", !.fromDisk = TRUE]
  <2>1. /\ e2 \in ET /\ e2.key = e.key /\ e2.set = e.set /\ e2.stage = "installing" /\ e2.fromDisk = TRUE
    BY <1>2 DEF ET, Stages
  <2>2. entries' = [entries EXCEPT ![at] = e2]
    BY <1>7
  <2>3. EntryOK(e2) /\ e.key \notin Files
    BY <1>2, <1>7, <2>1, DownloadAssumption DEF EntryOK
  <2> HIDE DEF e2
  <2>4. /\ entries' \in Seq(ET) /\ at' \in 1 .. Len(entries') + 1 /\ EntriesOK' /\ HandlesOK' /\ UnpackedOK'
    BY <1>1, <1>3, <1>4, <1>7, <2>1, <2>2, <2>3, Staged
  <2>5. JobsOK'
    BY <1>1, <1>2, <1>7, SameJobs
  <2>6. QED
    BY <1>1, <1>2, <1>7, <2>4, <2>5 DEF InstallerKept
<1>8. QED
  BY <1>6, <1>7 DEF LeaveQueue

LEMMA DownloadKept == ASSUME InstallerInv, at \in DOMAIN entries, Download(entries[at]) PROVE InstallerKept
<1> DEFINE e == entries[at]
<1>1. /\ e.key \in Sets /\ e.stage \in {"queued", "downloading"} /\ UNCHANGED <<orphans, folders, db>>
  BY DEF Download, MustDownload
<1>2. /\ Types /\ e \in ET /\ EntryOK(e) /\ handle \in [Sets -> HT] /\ paced \in BOOLEAN
      /\ job \in [Keys -> JT] /\ JobsOK /\ db \subseteq Maps /\ fetcher \in FT
  BY CurrentFacts
<1>3. e.key \notin Files /\ e.key \in Keys /\ Folder(e.key) = e.key
  BY <1>1, DownloadAssumption, Folders DEF Keys
<1>4. ASSUME NEW to \in {"downloading", "extracting", "failed"}, Stage(to),
             \A s \in Sets : s # e.key => Moves(s),
             \/ to = "downloading" \/ handle'[e.key] = "null"
             \/ to = "failed" /\ handle'[e.key] = "bad"
      PROVE  /\ entries' \in Seq(ET) /\ at' \in 1 .. Len(entries') + 1 /\ EntriesOK' /\ HandlesOK' /\ UnpackedOK'
  <2> DEFINE e2 == [e EXCEPT !.stage = to]
  <2>1. /\ e2 \in ET /\ entries' = [entries EXCEPT ![at] = e2] /\ at' = at + 1
        /\ e2.key = e.key /\ e2.set = e.set /\ e2.stage = to /\ e2.fromDisk = e.fromDisk
    BY <1>2, <1>4, StageFacts DEF Stages
  <2>2. EntryOK(e2)
    BY <1>1, <1>2, <1>3, <2>1 DEF EntryOK
  <2> HIDE DEF e2
  <2>3. QED
    BY <1>1, <1>3, <1>4, <2>1, <2>2, Staged
<1>5. CASE handle[e.key] = "null" /\ StartDownload(e.key) /\ Stage("downloading") /\ UNCHANGED <<job, fetcher>>
  <2> DEFINE h == [handle EXCEPT ![e.key] = "queued"]
  <2>1. h \in [Sets -> HT] /\ \A s \in Sets : s # e.key => h[s] = handle[s]
    BY <1>1, <1>2 DEF HT
  <2>2. StartNext(h, paced)
    BY <1>5 DEF StartDownload
  <2> HIDE DEF h
  <2>3. handle' \in [Sets -> HT] /\ paced' \in BOOLEAN /\ \A s \in Sets : s # e.key => Moves(s)
    BY <1>2, <2>1, <2>2, StartNextFacts DEF Moves
  <2>4. JobsOK'
    BY <1>1, <1>2, <1>5, SameJobs
  <2>5. /\ entries' \in Seq(ET) /\ at' \in 1 .. Len(entries') + 1 /\ EntriesOK' /\ HandlesOK' /\ UnpackedOK'
    BY <1>4, <1>5, <2>3
  <2>6. QED
    BY <1>1, <1>2, <1>5, <2>3, <2>4, <2>5 DEF InstallerKept
<1>6. CASE /\ handle[e.key] = "ok" /\ Stage("extracting") /\ Submit(e.key, e.key)
           /\ handle' = [handle EXCEPT ![e.key] = "null"] /\ UNCHANGED <<paced, fetcher>>
  <2>1. handle' \in [Sets -> HT] /\ handle'[e.key] = "null" /\ \A s \in Sets : s # e.key => Moves(s)
    BY <1>1, <1>2, <1>6 DEF HT, Moves
  <2>2. job' = [job EXCEPT ![e.key] = Working(e.key, Folder(e.key))] /\ Working(e.key, Folder(e.key)) \in JT
    BY <1>3, <1>6, JobTypes DEF Submit
  <2>3. job' \in [Keys -> JT] /\ JobsOK'
    BY <1>1, <1>2, <1>3, <2>2, JobStep
  <2>4. /\ entries' \in Seq(ET) /\ at' \in 1 .. Len(entries') + 1 /\ EntriesOK' /\ HandlesOK' /\ UnpackedOK'
    BY <1>4, <1>6, <2>1
  <2>5. QED
    BY <1>1, <1>2, <1>6, <2>1, <2>3, <2>4 DEF InstallerKept
<1>7. CASE handle[e.key] = "bad" /\ Stage("failed") /\ UNCHANGED <<handle, paced, job, fetcher>>
  <2>1. JobsOK' /\ \A s \in Sets : Moves(s)
    BY <1>1, <1>2, <1>7, SameJobs, SameHandles
  <2>2. /\ entries' \in Seq(ET) /\ at' \in 1 .. Len(entries') + 1 /\ EntriesOK' /\ HandlesOK' /\ UnpackedOK'
    BY <1>4, <1>7, <2>1
  <2>3. QED
    BY <1>1, <1>2, <1>7, <2>1, <2>2 DEF InstallerKept
<1>8. CASE /\ handle[e.key] = "cancelled" /\ Drop /\ Cut(e.set)
           /\ handle' = [handle EXCEPT ![e.key] = "null"] /\ UNCHANGED <<paced, job>>
  <2>1. handle' \in [Sets -> HT] /\ handle'[e.key] = "null" /\ \A s \in Sets : s # e.key => Moves(s)
    BY <1>1, <1>2, <1>8 DEF HT, Moves
  <2>2. /\ entries' \in Seq(ET) /\ at' \in 1 .. Len(entries') + 1 /\ EntriesOK' /\ HandlesOK' /\ UnpackedOK'
    BY <1>1, <1>8, <2>1, Dropped
  <2>3. JobsOK' /\ fetcher' \in FT
    BY <1>1, <1>2, <1>8, SameJobs, CutTypes
  <2>4. QED
    BY <1>1, <1>2, <1>8, <2>1, <2>2, <2>3 DEF InstallerKept
<1>9. CASE Stage("downloading") /\ UNCHANGED <<handle, paced, job, fetcher>>
  <2>1. JobsOK' /\ \A s \in Sets : Moves(s)
    BY <1>1, <1>2, <1>9, SameJobs, SameHandles
  <2>2. /\ entries' \in Seq(ET) /\ at' \in 1 .. Len(entries') + 1 /\ EntriesOK' /\ HandlesOK' /\ UnpackedOK'
    BY <1>4, <1>9, <2>1
  <2>3. QED
    BY <1>1, <1>2, <1>9, <2>1, <2>2 DEF InstallerKept
<1>10. QED
  BY <1>5, <1>6, <1>7, <1>8, <1>9 DEF Download

LEMMA ExtractKept == ASSUME InstallerInv, at \in DOMAIN entries, Extract(entries[at]) PROVE InstallerKept
<1> DEFINE e == entries[at]
<1>1. e.stage = "extracting" /\ UNCHANGED <<handle, paced, orphans, folders, db, fetcher>>
  BY DEF Extract
<1>2. /\ Types /\ e \in ET /\ EntryOK(e) /\ handle \in [Sets -> HT] /\ paced \in BOOLEAN
      /\ job \in [Keys -> JT] /\ JobsOK /\ db \subseteq Maps /\ fetcher \in FT
  BY CurrentFacts
<1>3. e.key \in Sets => handle[e.key] = "null"
  BY <1>1, HandleOf DEF InstallerInv
<1>4. \A s \in Sets : Moves(s)
  BY <1>1, SameHandles
<1>5. e.key \in Keys /\ NoJob \in JT /\ NoJob.st = "none" /\ (e.key \in Files => e.set = NoSet)
  BY <1>1, <1>2, JobTypes DEF InstallerInv, UnpackedOK, ET
<1>6. CASE job[e.key].st \in Running /\ at' = at + 1 /\ UNCHANGED <<entries, job>>
  <2>1. EntriesOK' /\ HandlesOK'
    BY <1>4, <1>6, EntriesStay DEF InstallerInv
  <2>2. UnpackedOK'
    BY <1>1, <1>6, UnpackedStep DEF InstallerInv
  <2>3. entries' \in Seq(ET) /\ at' \in 1 .. Len(entries') + 1
    BY <1>2, <1>6, EntryTypes DEF Types
  <2>4. JobsOK'
    BY <1>1, <1>2, <1>6, SameJobs
  <2>5. QED
    BY <1>1, <1>2, <1>6, <2>1, <2>2, <2>3, <2>4 DEF InstallerKept
<1>7. CASE job[e.key].st = "failed" /\ Stage("failed") /\ job' = [job EXCEPT ![e.key] = NoJob]
  <2> DEFINE e2 == [e EXCEPT !.stage = "failed"]
  <2>1. /\ e2 \in ET /\ entries' = [entries EXCEPT ![at] = e2] /\ at' = at + 1
        /\ e2.key = e.key /\ e2.set = e.set /\ e2.stage = "failed" /\ e2.fromDisk = e.fromDisk
    BY <1>2, <1>7, StageFacts DEF Stages
  <2>2. EntryOK(e2)
    BY <1>1, <1>2, <2>1 DEF EntryOK
  <2> HIDE DEF e2
  <2>3. /\ entries' \in Seq(ET) /\ at' \in 1 .. Len(entries') + 1 /\ EntriesOK' /\ HandlesOK' /\ UnpackedOK'
    BY <1>1, <1>3, <1>4, <1>5, <2>1, <2>2, Staged
  <2>4. job' \in [Keys -> JT] /\ JobsOK'
    BY <1>1, <1>2, <1>5, <1>7, JobStep
  <2>5. QED
    BY <1>1, <1>2, <2>3, <2>4 DEF InstallerKept
<1>8. CASE /\ job[e.key].st = "done"
           /\ entries' = [entries EXCEPT ![at].stage = "installing", ![at].set = job[e.key].set]
           /\ at' = at + 1
           /\ job' = [job EXCEPT ![e.key] = NoJob]
  <2> DEFINE e2 == [e EXCEPT !.stage = "installing", !.set = job[e.key].set]
  <2>1. /\ job[e.key].set = Folder(e.key) /\ Folder(e.key) \in Sets
        /\ Archive[e.key] \subseteq Accounted(Folder(e.key))
    BY <1>2, <1>5, <1>8, Folders DEF JobsOK
  <2>2. /\ e2 \in ET /\ e2.key = e.key /\ e2.set = Folder(e.key) /\ e2.stage = "installing"
        /\ e2.fromDisk = e.fromDisk
    BY <1>2, <2>1 DEF ET, Stages
  <2>3. entries' = [entries EXCEPT ![at] = e2]
    BY <1>8
  <2>4. EntryOK(e2)
    BY <1>1, <1>2, <1>5, <2>1, <2>2, Folders, DownloadAssumption DEF EntryOK
  <2> HIDE DEF e2
  <2>5. /\ entries' \in Seq(ET) /\ at' \in 1 .. Len(entries') + 1 /\ EntriesOK' /\ HandlesOK' /\ UnpackedOK'
    BY <1>1, <1>3, <1>4, <1>8, <2>1, <2>2, <2>3, <2>4, Staged
  <2>6. job' \in [Keys -> JT] /\ JobsOK'
    BY <1>1, <1>2, <1>5, <1>8, JobStep
  <2>7. QED
    BY <1>1, <1>2, <2>5, <2>6 DEF InstallerKept
<1>9. QED
  BY <1>6, <1>7, <1>8 DEF Extract

LEMMA Installed ==
  ASSUME InstallerInv, NEW i \in DOMAIN entries, entries[i].stage = "installing"
  PROVE  entries[i].set \in Sets /\ disk[entries[i].set] \in {NoDir} \cup SUBSET Maps
<1>1. entries[i] \in ET /\ EntryOK(entries[i]) /\ disk \in [Sets -> {NoDir} \cup SUBSET Maps]
  BY EntryTypes DEF InstallerInv, Types, TypeOK, EntriesOK, folders, OT, Running
<1>2. QED
  BY <1>1 DEF ET, EntryOK

LEMMA InstallKept == ASSUME InstallerInv, at \in DOMAIN entries, Install(entries[at]) PROVE InstallerKept
<1> DEFINE e == entries[at]
<1>1. e.stage = "installing" /\ UNCHANGED <<handle, paced, job, orphans, folders, fetcher>>
  BY DEF Install
<1>2. /\ Types /\ e \in ET /\ EntryOK(e) /\ handle \in [Sets -> HT] /\ paced \in BOOLEAN
      /\ job \in [Keys -> JT] /\ JobsOK /\ db \subseteq Maps /\ fetcher \in FT
  BY CurrentFacts
<1>3. e.key \in Sets => handle[e.key] = "null"
  BY <1>1, HandleOf DEF InstallerInv
<1>4. \A s \in Sets : Moves(s)
  BY <1>1, SameHandles
<1>5. JobsOK'
  BY <1>1, <1>2, SameJobs
<1>6. e.set \in Sets /\ disk[e.set] \in {NoDir} \cup SUBSET Maps
  BY <1>1, Installed
<1>7. CASE ~idle /\ at' = at + 1 /\ UNCHANGED <<entries, db>>
  <2>1. EntriesOK' /\ HandlesOK'
    BY <1>4, <1>7, EntriesStay DEF InstallerInv
  <2>2. UnpackedOK'
    BY <1>1, <1>7, UnpackedStep DEF InstallerInv
  <2>3. entries' \in Seq(ET) /\ at' \in 1 .. Len(entries') + 1
    BY <1>2, <1>7, EntryTypes DEF Types
  <2>4. QED
    BY <1>1, <1>2, <1>5, <1>7, <2>1, <2>2, <2>3 DEF InstallerKept
<1>8. CASE /\ idle /\ disk[e.set] \in {NoDir, {}}
           /\ entries' = [entries EXCEPT ![at].stage = IF e.fromDisk THEN "downloading" ELSE "failed",
                                         ![at].fromDisk = FALSE]
           /\ at' = at + 1 /\ UNCHANGED db
  <2> DEFINE to == IF e.fromDisk THEN "downloading" ELSE "failed"
             e2 == [e EXCEPT !.stage = to, !.fromDisk = FALSE]
  <2>1. /\ to \in {"downloading", "failed"} /\ to \in Stages
        /\ to = "downloading" => e.fromDisk /\ e.key \in Sets /\ e.key \notin Files
    BY <1>2, DownloadAssumption DEF EntryOK, Stages
  <2>2. entries' = [entries EXCEPT ![at] = e2]
    BY <1>8
  <2> HIDE DEF to
  <2>3. e2 \in ET /\ e2.key = e.key /\ e2.set = e.set /\ e2.stage = to /\ e2.fromDisk = FALSE
    BY <1>2, <2>1 DEF ET
  <2>4. EntryOK(e2)
    BY <1>2, <2>1, <2>3 DEF EntryOK
  <2>5. e2.key \in Sets => handle'[e2.key] = "null"
    BY <1>1, <1>3, <2>3
  <2> HIDE DEF e2
  <2>6. /\ entries' \in Seq(ET) /\ at' \in 1 .. Len(entries') + 1 /\ EntriesOK' /\ HandlesOK' /\ UnpackedOK'
    BY <1>1, <1>4, <1>8, <2>1, <2>2, <2>3, <2>4, <2>5, Staged
  <2>7. QED
    BY <1>1, <1>2, <1>5, <1>8, <2>6 DEF InstallerKept
<1>9. CASE idle /\ disk[e.set] \notin {NoDir, {}} /\ db' = db \cup disk[e.set] /\ Drop
  <2>1. /\ entries' \in Seq(ET) /\ at' \in 1 .. Len(entries') + 1 /\ EntriesOK' /\ HandlesOK' /\ UnpackedOK'
    BY <1>1, <1>3, <1>4, <1>9, Dropped
  <2>2. db' \subseteq Maps
    BY <1>2, <1>6, <1>9
  <2>3. QED
    BY <1>1, <1>2, <1>5, <2>1, <2>2 DEF InstallerKept
<1>10. QED
  BY <1>7, <1>8, <1>9 DEF Install

LEMMA KeepFailedKept == ASSUME InstallerInv, at \in DOMAIN entries, KeepFailed(entries[at]) PROVE InstallerKept
<1> DEFINE e == entries[at]
<1>1. UNCHANGED <<paced, job, orphans, folders, db>>
  BY DEF KeepFailed
<1>2. /\ Types /\ e \in ET /\ EntryOK(e) /\ handle \in [Sets -> HT] /\ paced \in BOOLEAN
      /\ job \in [Keys -> JT] /\ JobsOK /\ db \subseteq Maps /\ fetcher \in FT
  BY CurrentFacts
<1>3. JobsOK'
  BY <1>1, <1>2, SameJobs
<1>4. CASE e.stage = "failed" /\ at' = at + 1 /\ UNCHANGED <<entries, handle, fetcher>>
  <2>1. EntriesOK' /\ HandlesOK'
    BY <1>4, EntriesStay, SameHandles DEF InstallerInv
  <2>2. UnpackedOK'
    BY <1>1, <1>4, UnpackedStep DEF InstallerInv
  <2>3. entries' \in Seq(ET) /\ at' \in 1 .. Len(entries') + 1
    BY <1>2, <1>4, EntryTypes DEF Types
  <2>4. QED
    BY <1>1, <1>2, <1>3, <1>4, <2>1, <2>2, <2>3 DEF InstallerKept
<1>5. CASE /\ e.stage = "expired" /\ Drop /\ Cut(e.set)
           /\ handle' = [s \in Sets |-> IF s = e.key THEN "null" ELSE handle[s]]
  <2>1. /\ handle' \in [Sets -> HT] /\ (e.key \in Sets => handle'[e.key] = "null")
        /\ \A s \in Sets : s # e.key => Moves(s)
    BY <1>2, <1>5 DEF HT, Moves
  <2>2. /\ entries' \in Seq(ET) /\ at' \in 1 .. Len(entries') + 1 /\ EntriesOK' /\ HandlesOK' /\ UnpackedOK'
    BY <1>1, <1>5, <2>1, Dropped
  <2>3. fetcher' \in FT
    BY <1>2, <1>5, CutTypes
  <2>4. QED
    BY <1>1, <1>2, <1>3, <2>1, <2>2, <2>3 DEF InstallerKept
<1>6. QED
  BY <1>4, <1>5 DEF KeepFailed

LEMMA UpdateEntryInstaller == ASSUME InstallerInv, UpdateEntry PROVE InstallerInv'
<1>1. phase = "update" /\ at \in DOMAIN entries /\ UNCHANGED <<phase, idle, cache, queried, asked, acts>>
  BY DEF UpdateEntry, resolver
<1>2. InstallerKept
  BY <1>1, LeaveQueueKept, DownloadKept, ExtractKept, InstallKept, KeepFailedKept DEF UpdateEntry
<1>3. Types'
  BY <1>1, <1>2 DEF InstallerInv, InstallerKept, Types, TypeOK, ET, HT, folders, OT, Running
<1>4. QED
  BY <1>2, <1>3 DEF InstallerInv, InstallerKept

-----------------------------------------------------------------------------
(* What users do: enqueue, cancel, another target, a disconnect.           *)
LEMMA EnqueueKept ==
  ASSUME InstallerInv, NEW s \in Sets, Enqueue(s), UNCHANGED folders
  PROVE  /\ entries' \in Seq(ET) /\ Len(entries') >= Len(entries) /\ handle' \in [Sets -> HT]
         /\ EntriesOK' /\ HandlesOK' /\ UnpackedOK'
<1>1. /\ Types /\ EntriesOK /\ HandlesOK /\ UnpackedOK /\ handle \in [Sets -> HT]
      /\ entries \in Seq(ET) /\ Len(entries) \in Nat
      /\ \A i \in DOMAIN entries : entries[i] \in ET
  BY EntryTypes DEF InstallerInv, Types, TypeOK, HT, folders, OT, Running
<1>2. s \in Keys /\ s \notin Files
  BY DownloadAssumption DEF Keys
<1>3. CASE ~Has(s) /\ entries' = Append(entries, Entry(s)) /\ UNCHANGED handle
  <2>1. /\ entries' \in Seq(ET) /\ Len(entries') = Len(entries) + 1 /\ EntriesOK' /\ HandlesOK'
        /\ DOMAIN entries' = 1 .. Len(entries) + 1 /\ DOMAIN entries = 1 .. Len(entries)
        /\ entries'[Len(entries) + 1] = Entry(s)
        /\ \A i \in DOMAIN entries : entries'[i] = entries[i]
    BY <1>1, <1>2, <1>3, EntryJoins, SameHandles
  <2>2. ASSUME NEW i \in DOMAIN entries', i \notin DOMAIN entries
        PROVE  entries'[i] = Entry(s)
    BY <1>1, <2>1, <2>2
  <2>3. Entry(s).stage = "queued" /\ Entry(s).key \notin Files
    BY <1>2 DEF Entry
  <2>4. UnpackedOK'
    BY <1>1, <2>1, <2>2, <2>3, UnpackedStep
  <2>5. QED
    BY <1>1, <1>3, <2>1, <2>4
<1>4. CASE /\ Has(s) /\ entries[Of(s)].stage \in {"failed", "expired"}
           /\ entries' = [entries EXCEPT ![Of(s)].stage = "queued"]
           /\ handle' = [handle EXCEPT ![s] = "null"]
  <2> DEFINE i == Of(s)
             e2 == [entries[i] EXCEPT !.stage = "queued"]
  <2>1. i \in DOMAIN entries /\ entries[i].key = s /\ entries[i] \in ET /\ EntryOK(entries[i])
    BY <1>1, <1>4, Located DEF Types, EntriesOK
  <2>2. /\ e2 \in ET /\ e2.key = s /\ e2.set = entries[i].set /\ e2.stage = "queued"
        /\ e2.fromDisk = entries[i].fromDisk
    BY <2>1 DEF ET, Stages
  <2>3. entries' = [entries EXCEPT ![i] = e2]
    BY <1>4
  <2>4. EntryOK(e2)
    BY <1>2, <1>4, <2>1, <2>2 DEF EntryOK
  <2>5. handle' \in [Sets -> HT] /\ handle'[s] = "null" /\ \A x \in Sets : x # s => Moves(x)
    BY <1>1, <1>4 DEF HT, Moves
  <2> HIDE DEF i, e2
  <2>6. /\ entries' \in Seq(ET) /\ Len(entries') = Len(entries) /\ EntriesOK' /\ HandlesOK'
        /\ DOMAIN entries' = DOMAIN entries /\ entries'[i] = e2
        /\ \A x \in DOMAIN entries : x # i => entries'[x] = entries[x]
    BY <1>1, <2>1, <2>2, <2>3, <2>4, <2>5, EntryChanges
  <2>7. UnpackedOK'
    BY <1>1, <1>2, <2>2, <2>6, UnpackedStep
  <2>8. QED
    BY <1>1, <2>5, <2>6, <2>7
<1>5. CASE UNCHANGED <<entries, handle>>
  <2>1. EntriesOK' /\ HandlesOK'
    BY <1>1, <1>5, EntriesStay, SameHandles
  <2>2. UnpackedOK'
    BY <1>1, <1>5, UnpackedStep
  <2>3. QED
    BY <1>1, <1>5, <2>1, <2>2
<1>6. QED
  BY <1>3, <1>4, <1>5 DEF Enqueue

(* The host's next transfer, after the request of a set is settled.        *)
LEMMA Restarted ==
  ASSUME handle \in [Sets -> HT], paced \in BOOLEAN, NEW s \in Sets, NEW r \in HT, r # "queued",
         StartNext([handle EXCEPT ![s] = r], paced)
  PROVE  /\ handle' \in [Sets -> HT] /\ paced' \in BOOLEAN /\ handle'[s] = r
         /\ \A x \in Sets : x # s => Moves(x)
<1> DEFINE h == [handle EXCEPT ![s] = r]
<1>1. h \in [Sets -> HT] /\ h[s] = r /\ \A x \in Sets : x # s => h[x] = handle[x]
  OBVIOUS
<1>2. StartNext(h, paced)
  OBVIOUS
<1> HIDE DEF h
<1>3. /\ handle' \in [Sets -> HT] /\ paced' \in BOOLEAN
      /\ \A x \in Sets : handle'[x] = h[x] \/ (h[x] = "queued" /\ handle'[x] = "live")
  BY <1>1, <1>2, StartNextFacts
<1>4. QED
  BY <1>1, <1>3 DEF Moves

LEMMA CancelKept ==
  ASSUME InstallerInv, NEW k \in Keys, Cancel(k)
  PROVE  /\ entries' \in Seq(ET) /\ Len(entries') \in Nat /\ handle' \in [Sets -> HT] /\ paced' \in BOOLEAN
         /\ EntriesOK' /\ HandlesOK' /\ UnpackedOK' /\ job' \in [Keys -> JT] /\ JobsOK'
         /\ orphans' \subseteq OT
         /\ fetcher' \in FT /\ UNCHANGED <<folders, db>>
<1>1. /\ Types /\ EntriesOK /\ HandlesOK /\ UnpackedOK /\ JobsOK /\ handle \in [Sets -> HT] /\ paced \in BOOLEAN
      /\ job \in [Keys -> JT] /\ fetcher \in FT
      /\ orphans \subseteq OT
  BY DEF InstallerInv, Types, TypeOK, HT, folders, OT, Running
<1>2. /\ Has(k) /\ entries' = RemoveAt(entries, Of(k)) /\ Abandon(k) /\ Cut(entries[Of(k)].set)
      /\ UNCHANGED <<folders, db>>
  BY DEF Cancel
<1>3. Of(k) \in DOMAIN entries /\ entries[Of(k)].key = k
  BY <1>1, <1>2, Located DEF Types
<1>4. /\ handle' \in [Sets -> HT] /\ paced' \in BOOLEAN /\ (k \in Sets => handle'[k] = "null")
      /\ \A s \in Sets : s # k => Moves(s)
  <2>1. CASE k \in Sets /\ Abort(k)
    <3>1. "null" \in HT
      BY DEF HT
    <3>2. QED
      BY <1>1, <2>1, <3>1, Restarted DEF Abort
  <2>2. CASE (k \in Sets => handle[k] = "null") /\ UNCHANGED <<handle, paced>>
    BY <1>1, <2>2 DEF Moves
  <2>3. QED
    BY <2>1, <2>2 DEF Cancel
<1>5. /\ entries' \in Seq(ET) /\ EntriesOK' /\ HandlesOK'
      /\ \A x \in DOMAIN entries' : \E m \in DOMAIN entries : m # Of(k) /\ entries'[x] = entries[m]
  BY <1>1, <1>2, <1>3, <1>4, EntryLeaves
<1>6. UnpackedOK'
  BY <1>1, <1>2, <1>5, UnpackedStep
<1>7. NoJob \in JT /\ NoJob.st = "none" /\ job' = [job EXCEPT ![k] = NoJob]
  BY <1>2, JobTypes DEF Abandon
<1>8. job' \in [Keys -> JT] /\ JobsOK'
  BY <1>1, <1>2, <1>7, JobStep
<1>9. orphans' \subseteq OT
  <2>1. job[k].st \in Running =>
          job[k] \in OT
    <3>1. job[k] \in JT
      BY <1>1
    <3>2. job[k].st \in Running => job[k].set \in Sets
      BY <1>1, Folders DEF JobsOK
    <3>3. QED
      BY <3>1, <3>2 DEF JT, OT
  <2>2. QED
    BY <1>1, <1>2, <2>1 DEF Abandon
<1>10. fetcher' \in FT
  BY <1>1, <1>2, CutTypes
<1>11. QED
  BY <1>2, <1>4, <1>5, <1>6, <1>8, <1>9, <1>10

LEMMA InterveneInstaller == ASSUME InstallerInv, Intervene PROVE InstallerInv'
<1>1. /\ phase = "events" /\ acts < MaxActs /\ acts' = acts + 1
      /\ UNCHANGED <<phase, at, cache, queried, asked>>
  BY DEF Intervene, resolver
<1>2. /\ Types /\ EntriesOK /\ HandlesOK /\ UnpackedOK /\ JobsOK /\ handle \in [Sets -> HT] /\ fetcher \in FT
      /\ at = 1 /\ acts' \in 0 .. MaxActs
      /\ entries \in Seq(ET) /\ Len(entries) \in Nat /\ \A i \in DOMAIN entries : entries[i] \in ET
  BY <1>1, EntryTypes, DownloadAssumption DEF InstallerInv, Types, TypeOK, HT, folders, OT, Running
<1>3. CASE \E s \in Sets : Enqueue(s) /\ UNCHANGED <<paced, job, orphans, folders, db, fetcher, idle>>
  <2>1. /\ entries' \in Seq(ET) /\ Len(entries') >= Len(entries) /\ handle' \in [Sets -> HT]
        /\ EntriesOK' /\ HandlesOK' /\ UnpackedOK'
    BY <1>3, EnqueueKept
  <2>2. JobsOK'
    BY <1>2, <1>3, SameJobs
  <2>3. at' \in 1 .. Len(entries') + 1 /\ (phase' # "update" => at' = 1)
    BY <1>1, <1>2, <2>1
  <2>4. Types'
    BY <1>1, <1>2, <1>3, <2>1, <2>3 DEF Types, TypeOK, ET, HT, folders, OT, Running
  <2>5. QED
    BY <2>1, <2>2, <2>4 DEF InstallerInv
<1>4. CASE (\E k \in Keys : Cancel(k)) /\ UNCHANGED idle
  <2>1. /\ entries' \in Seq(ET) /\ Len(entries') \in Nat /\ handle' \in [Sets -> HT] /\ paced' \in BOOLEAN
        /\ EntriesOK' /\ HandlesOK' /\ UnpackedOK' /\ job' \in [Keys -> JT] /\ JobsOK'
        /\ orphans' \subseteq OT
        /\ fetcher' \in FT /\ UNCHANGED <<folders, db>>
    BY <1>4, CancelKept
  <2>2. at' \in 1 .. Len(entries') + 1 /\ (phase' # "update" => at' = 1)
    BY <1>1, <1>2, <2>1
  <2>3. Types'
    BY <1>1, <1>2, <1>4, <2>1, <2>2 DEF Types, TypeOK, ET, HT, folders, OT, Running
  <2>4. QED
    BY <2>1, <2>3 DEF InstallerInv
<1>5. CASE (\E f \in Files : EnqueueLocal(f)) /\ UNCHANGED idle
  <2>1. PICK f \in Files : EnqueueLocal(f)
    BY <1>5
  <2>2. /\ ~Has(f) /\ entries' = Append(entries, Entry(f)) /\ UNCHANGED <<handle, paced, job, orphans, folders, db, fetcher>>
    BY <2>1 DEF EnqueueLocal
  <2>3. f \in Keys /\ f \notin Sets
    BY DownloadAssumption DEF Keys
  <2>4. /\ entries' \in Seq(ET) /\ Len(entries') = Len(entries) + 1 /\ EntriesOK' /\ HandlesOK'
        /\ DOMAIN entries' = 1 .. Len(entries) + 1 /\ DOMAIN entries = 1 .. Len(entries)
        /\ entries'[Len(entries) + 1] = Entry(f)
        /\ \A i \in DOMAIN entries : entries'[i] = entries[i]
    BY <1>2, <2>2, <2>3, EntryJoins, SameHandles
  <2>5. ASSUME NEW i \in DOMAIN entries', i \notin DOMAIN entries
        PROVE  entries'[i] = Entry(f)
    BY <1>2, <2>4, <2>5
  <2>6. Entry(f).stage = "queued" /\ Entry(f).set = NoSet
    BY <2>3 DEF Entry
  <2>7. UnpackedOK'
    BY <1>2, <2>2, <2>4, <2>5, <2>6, UnpackedStep
  <2>8. JobsOK'
    BY <1>2, <2>2, SameJobs
  <2>9. at' \in 1 .. Len(entries') + 1 /\ (phase' # "update" => at' = 1)
    BY <1>1, <1>2, <2>4
  <2>10. Types'
    BY <1>1, <1>2, <1>5, <2>2, <2>4, <2>9 DEF Types, TypeOK, ET, HT, folders, OT, Running
  <2>11. QED
    BY <2>4, <2>7, <2>8, <2>10 DEF InstallerInv
<1>6. ASSUME UNCHANGED <<entries, job, orphans, folders, db>>, handle' \in [Sets -> HT], paced' \in BOOLEAN,
             idle' \in BOOLEAN, fetcher' \in FT, \A s \in Sets : Moves(s)
      PROVE  InstallerInv'
  <2>1. EntriesOK' /\ HandlesOK'
    BY <1>2, <1>6, EntriesStay
  <2>2. UnpackedOK'
    BY <1>2, <1>6, UnpackedStep
  <2>3. JobsOK'
    BY <1>2, <1>6, SameJobs
  <2>4. Types'
    BY <1>1, <1>2, <1>6 DEF Types, TypeOK, ET, HT, folders, OT, Running
  <2>5. QED
    BY <2>1, <2>2, <2>3, <2>4 DEF InstallerInv
<1>7. CASE (\E m \in Maps \cup {NoMap} : Target(m)) /\ UNCHANGED idle
  <2>1. UNCHANGED <<entries, handle, paced, job, orphans, folders, db, idle>> /\ fetcher' \in FT
    <3>1. PICK m \in Maps \cup {NoMap} : Target(m)
      BY <1>7
    <3>2. NoFetch \in FT /\ (m # NoMap => [NoFetch EXCEPT !.target = m, !.status = "working"] \in FT)
      BY DEF NoFetch, FT, FF
    <3>3. QED
      BY <1>7, <3>1, <3>2 DEF Target, installer
  <2>2. paced' \in BOOLEAN /\ idle' \in BOOLEAN
    BY <1>2, <2>1 DEF Types, TypeOK, folders, OT, Running
  <2>3. \A s \in Sets : Moves(s)
    BY <2>1, SameHandles
  <2>4. QED
    BY <1>2, <1>6, <2>1, <2>2, <2>3
<1>8. CASE Disconnect /\ UNCHANGED idle
  <2>1. /\ handle' = [s \in Sets |-> IF handle[s] \in {"queued", "live", "arrivedOk", "arrivedBad"}
                                     THEN "cancelled" ELSE handle[s]]
        /\ paced' = FALSE /\ UNCHANGED <<entries, job, orphans, folders, db, fetcher, idle>>
    BY <1>8 DEF Disconnect
  <2>2. handle' \in [Sets -> HT] /\ \A s \in Sets : Moves(s)
    BY <1>2, <2>1 DEF HT, Moves
  <2>3. paced' \in BOOLEAN /\ idle' \in BOOLEAN
    BY <1>2, <2>1 DEF Types, TypeOK, folders, OT, Running
  <2>4. QED
    BY <1>2, <1>6, <2>1, <2>2, <2>3
<1>9. CASE Refresh
  <2>1. idle' = FALSE /\ UNCHANGED <<entries, handle, paced, job, orphans, folders, db, fetcher>>
    BY <1>9 DEF Refresh, installer
  <2>2. paced' \in BOOLEAN /\ \A s \in Sets : Moves(s)
    BY <1>2, <2>1, SameHandles DEF Types, TypeOK, folders, OT, Running
  <2>3. QED
    BY <1>2, <1>6, <2>1, <2>2
<1>10. QED
  <2>1. ASSUME NEW s \in Sets, Click(s), UNCHANGED idle PROVE InstallerInv'
    BY <1>3, <1>4, <2>1 DEF Click, Keys
  <2>2. QED
    BY <1>4, <1>5, <1>7, <1>8, <1>9, <2>1 DEF Intervene

-----------------------------------------------------------------------------
(* The network, the clock and the frame leave entries and folders alone.   *)
LEMMA RequestsMove ==
  ASSUME InstallerInv, UNCHANGED <<phase, at, entries, job, orphans, folders, db, idle, queried, fetcher, acts>>,
         handle' \in [Sets -> HT], paced' \in BOOLEAN, \A s \in Sets : Moves(s),
         cache' \in [Maps -> {"none", "known", "bad"}], asked' \in [Maps -> Nat]
  PROVE  InstallerInv'
<1>1. EntriesOK' /\ HandlesOK'
  BY EntriesStay DEF InstallerInv
<1>2. UnpackedOK'
  BY UnpackedStep DEF InstallerInv
<1>3. JobsOK'
  BY SameJobs DEF InstallerInv
<1>4. Types'
  BY DEF InstallerInv, Types, TypeOK, ET, HT, folders, OT, Running
<1>5. QED
  BY <1>1, <1>2, <1>3, <1>4 DEF InstallerInv

LEMMA RequestTypes ==
  ASSUME InstallerInv
  PROVE  /\ handle \in [Sets -> HT] /\ paced \in BOOLEAN
         /\ cache \in [Maps -> {"none", "known", "bad"}] /\ asked \in [Maps -> Nat]
  BY DEF InstallerInv, Types, TypeOK, HT, folders, OT, Running

LEMMA OthersInstaller ==
  ASSUME InstallerInv,
         \/ \E s \in Sets : DownloadComplete(s) \/ TransferEnds(s)
         \/ PaceEnds \/ \E m \in Maps : Answer(m)
  PROVE  InstallerInv'
<1>1. CASE \E s \in Sets : DownloadComplete(s)
  <2>1. PICK s \in Sets : DownloadComplete(s)
    BY <1>1
  <2> DEFINE r == IF handle[s] = "arrivedOk" THEN "ok" ELSE "bad"
  <2>2. /\ handle[s] \in {"arrivedOk", "arrivedBad"} /\ StartNext([handle EXCEPT ![s] = r], paced)
        /\ UNCHANGED <<phase, at, entries, job, orphans, folders, db, idle, cache, queried, asked, fetcher, acts>>
    BY <2>1 DEF DownloadComplete, resolver
  <2>3. r \in HT /\ r # "queued"
    BY DEF HT
  <2> HIDE DEF r
  <2>4. handle' \in [Sets -> HT] /\ paced' \in BOOLEAN /\ \A x \in Sets : x # s => Moves(x)
    BY <2>2, <2>3, RequestTypes, Restarted
  <2>5. Moves(s)
    BY <2>2 DEF Moves
  <2>6. QED
    BY <2>2, <2>4, <2>5, RequestTypes, RequestsMove
<1>2. CASE \E s \in Sets : TransferEnds(s)
  <2>1. PICK s \in Sets : TransferEnds(s)
    BY <1>2
  <2>2. PICK r \in {"arrivedOk", "arrivedBad"} : handle' = [handle EXCEPT ![s] = r]
    BY <2>1 DEF TransferEnds
  <2>3. /\ handle[s] = "live"
        /\ UNCHANGED <<phase, at, entries, paced, job, orphans, folders, db, idle, cache, queried, asked, fetcher, acts>>
    BY <2>1 DEF TransferEnds, resolver
  <2>4. handle' \in [Sets -> HT] /\ \A x \in Sets : Moves(x)
    BY <2>2, <2>3, RequestTypes DEF HT, Moves
  <2>5. QED
    BY <2>3, <2>4, RequestTypes, RequestsMove
<1>3. CASE PaceEnds
  <2>1. /\ paced' = FALSE
        /\ UNCHANGED <<phase, at, entries, handle, job, orphans, folders, db, idle, cache, queried, asked, fetcher, acts>>
    BY <1>3 DEF PaceEnds, resolver
  <2>2. QED
    BY <2>1, RequestTypes, SameHandles, RequestsMove
<1>4. CASE \E m \in Maps : Answer(m)
  <2>1. PICK m \in Maps : Answer(m)
    BY <1>4
  <2>2. /\ asked[m] > 0 /\ asked' = [asked EXCEPT ![m] = @ - 1]
        /\ cache' \in {[cache EXCEPT ![m] = r] : r \in {"known", "bad"}}
        /\ UNCHANGED <<phase, at, entries, handle, paced, job, orphans, folders, db, idle, queried, fetcher, acts>>
    BY <2>1 DEF Answer, installer
  <2>3. asked' \in [Maps -> Nat]
    <3>1. asked[m] - 1 \in Nat
      BY <2>2, RequestTypes
    <3>2. QED
      BY <2>2, <3>1, RequestTypes
  <2>4. cache' \in [Maps -> {"none", "known", "bad"}]
    BY <2>2, RequestTypes
  <2>5. QED
    BY <2>2, <2>3, <2>4, RequestTypes, SameHandles, RequestsMove
<1>5. QED
  BY <1>1, <1>2, <1>3, <1>4

LEMMA FrameInstaller ==
  ASSUME InstallerInv, BeginUpdate \/ EndUpdate \/ Refreshed PROVE InstallerInv'
<1>1. /\ UNCHANGED <<entries, handle, paced, job, orphans, folders, db, cache, queried, asked, fetcher, acts>>
      /\ phase' \in {"events", "update", "tick"} /\ idle' \in BOOLEAN
      /\ at' = 1 \/ UNCHANGED <<at, phase>>
  BY DEF BeginUpdate, EndUpdate, Refreshed, installer, resolver, InstallerInv, Types, TypeOK, folders, OT, Running
<1>2. Types /\ EntriesOK /\ HandlesOK /\ UnpackedOK /\ JobsOK /\ Len(entries) \in Nat
  BY EntryTypes DEF InstallerInv, Types
<1>3. EntriesOK' /\ HandlesOK'
  BY <1>1, <1>2, EntriesStay, SameHandles
<1>4. UnpackedOK'
  BY <1>1, <1>2, UnpackedStep
<1>5. JobsOK'
  BY <1>1, <1>2, SameJobs
<1>6. at' \in 1 .. Len(entries') + 1 /\ (phase' # "update" => at' = 1)
  BY <1>1, <1>2 DEF Types, TypeOK, folders, OT, Running
<1>7. Types'
  BY <1>1, <1>2, <1>6 DEF Types, TypeOK, folders, OT, Running
<1>8. QED
  BY <1>2, <1>3, <1>4, <1>5, <1>7 DEF InstallerInv

LEMMA ExpireInstaller == ASSUME InstallerInv, Expire PROVE InstallerInv'
<1>1. PICK i \in DOMAIN entries : entries[i].stage = "failed" /\ entries' = [entries EXCEPT ![i].stage = "expired"]
  BY DEF Expire
<1>2. UNCHANGED <<phase, at, handle, paced, job, orphans, folders, db, idle, cache, queried, asked, fetcher, acts>>
  BY DEF Expire, resolver
<1>3. Types /\ EntriesOK /\ HandlesOK /\ UnpackedOK /\ JobsOK /\ entries[i] \in ET /\ EntryOK(entries[i])
  BY EntryTypes DEF InstallerInv, Types, EntriesOK
<1> DEFINE e2 == [entries[i] EXCEPT !.stage = "expired"]
<1>4. /\ e2 \in ET /\ e2.key = entries[i].key /\ e2.set = entries[i].set /\ e2.stage = "expired"
      /\ e2.fromDisk = entries[i].fromDisk
  BY <1>3 DEF ET, Stages
<1>5. entries' = [entries EXCEPT ![i] = e2] /\ EntryOK(e2)
  BY <1>1, <1>3, <1>4 DEF EntryOK
<1>6. \A s \in Sets : Moves(s)
  BY <1>2, SameHandles
<1>7. e2.key \in Sets => \/ handle'[e2.key] = "null" \/ e2.stage = "downloading"
                         \/ handle'[e2.key] = "bad" /\ e2.stage \in {"failed", "expired"}
  BY <1>1, <1>2, <1>3, <1>4, HandleOf
<1> HIDE DEF e2
<1>8. /\ entries' \in Seq(ET) /\ Len(entries') = Len(entries) /\ EntriesOK' /\ HandlesOK'
      /\ DOMAIN entries' = DOMAIN entries /\ entries'[i] = e2
      /\ \A k \in DOMAIN entries : k # i => entries'[k] = entries[k]
  BY <1>3, <1>4, <1>5, <1>6, <1>7, EntryChanges
<1>9. e2.key \in Files => e2.set = NoSet \/ e2.stage \in {"installing", "failed", "expired"}
  BY <1>1, <1>3, <1>4 DEF UnpackedOK
<1>10. UnpackedOK'
  BY <1>2, <1>3, <1>4, <1>8, <1>9, UnpackedStep
<1>11. JobsOK'
  BY <1>2, <1>3, SameJobs
<1>12. Types'
  BY <1>2, <1>3, <1>8 DEF Types, TypeOK, ET, folders, OT, Running
<1>13. QED
  BY <1>8, <1>10, <1>11, <1>12 DEF InstallerInv

-----------------------------------------------------------------------------
(* The workers: what is in a folder stays there or is known to be lost.    *)
LEMMA SpoilFacts ==
  ASSUME disk \in [Sets -> {NoDir} \cup SUBSET Maps], NEW set \in Sets, NEW m \in Maps, Spoil(set, m)
  PROVE  /\ disk' \in [Sets -> {NoDir} \cup SUBSET Maps]
         /\ \A s \in Sets : Contents(s) \subseteq Contents(s)' \cup (IF s = set THEN {m} ELSE {})
<1>1. CASE disk' = disk
  BY <1>1 DEF Contents
<1>2. CASE disk[set] # NoDir /\ disk' = [disk EXCEPT ![set] = @ \ {m}]
  <2>1. disk[set] \in SUBSET Maps /\ disk[set] \ {m} \in SUBSET Maps
    BY <1>2
  <2>2. disk' \in [Sets -> {NoDir} \cup SUBSET Maps]
    BY <1>2, <2>1
  <2>3. disk'[set] = disk[set] \ {m} /\ \A s \in Sets : s # set => disk'[s] = disk[s]
    BY <1>2
  <2>4. disk'[set] # NoDir
    BY <2>1, <2>3, DownloadAssumption
  <2>5. Contents(set)' = Contents(set) \ {m}
    BY <1>2, <2>3, <2>4 DEF Contents
  <2>6. \A s \in Sets : s # set => Contents(s)' = Contents(s)
    BY <2>3 DEF Contents
  <2>7. QED
    BY <2>2, <2>5, <2>6
<1>3. QED
  BY <1>1, <1>2 DEF Spoil

LEMMA AfterFacts ==
  ASSUME NEW j \in JT, NEW m, NEW st \in Results
  PROVE  LET a == After(j, m, st)
         IN  a \in JT /\ a.set = j.set /\ a.left = j.left \ {m} /\ a.st = st
<1>1. (disk[j.set] = NoDir) \in BOOLEAN
  OBVIOUS
<1>2. QED
  BY <1>1 DEF After, JT, Results

LEMMA ExtractionFacts ==
  ASSUME disk \in [Sets -> {NoDir} \cup SUBSET Maps], lost \in [Sets -> SUBSET Maps],
         NEW j \in JT, j.set \in Sets, NEW m \in Maps \cup {NoMap}, NEW st \in Results, Extraction(j, m, st)
  PROVE  /\ disk' \in [Sets -> {NoDir} \cup SUBSET Maps] /\ lost' \in [Sets -> SUBSET Maps]
         /\ LostGrows /\ \A s \in Sets : Accounted(s) \subseteq Accounted(s)'
         /\ j.left \cap {m} \subseteq Accounted(j.set)'
         /\ st = "done" => j.left = {m}
<1>1. j.left \subseteq Maps /\ NoMap \notin j.left
  BY DownloadAssumption DEF JT
<1>2. CASE Open(j, m, st)
  <2>1. m = NoMap /\ lost' = lost /\ st # "done"
    BY <1>2 DEF Open
  <2>2. disk' = disk \/ disk' = [disk EXCEPT ![j.set] = IF @ = NoDir THEN {} ELSE @]
    BY <1>2 DEF Open
  <2>3. disk' \in [Sets -> {NoDir} \cup SUBSET Maps]
    BY <2>2
  <2>4. \A s \in Sets : Contents(s)' = Contents(s)
    BY <2>2, DownloadAssumption DEF Contents
  <2>5. QED
    BY <1>1, <2>1, <2>3, <2>4 DEF Accounted, LostGrows
<1>3. CASE Write(j, m, st)
  <2>1. /\ m \in j.left /\ m \in Maps /\ lost' = lost /\ disk[j.set] \in SUBSET Maps
        /\ disk' = [disk EXCEPT ![j.set] = @ \cup {m}] /\ (st = "done" => j.left = {m})
    BY <1>1, <1>3 DEF Write
  <2>2. disk[j.set] \cup {m} \in SUBSET Maps
    BY <2>1
  <2>3. disk' \in [Sets -> {NoDir} \cup SUBSET Maps]
    BY <2>1, <2>2
  <2>4. disk'[j.set] = disk[j.set] \cup {m} /\ \A s \in Sets : s # j.set => disk'[s] = disk[s]
    BY <2>1
  <2>5. disk'[j.set] # NoDir /\ disk[j.set] # NoDir
    BY <2>1, <2>2, <2>4, DownloadAssumption
  <2>6. Contents(j.set)' = Contents(j.set) \cup {m}
    BY <2>4, <2>5 DEF Contents
  <2>7. \A s \in Sets : s # j.set => Contents(s)' = Contents(s)
    BY <2>4 DEF Contents
  <2>8. QED
    BY <2>1, <2>3, <2>6, <2>7 DEF Accounted, LostGrows
<1>4. ASSUME m \in j.left, lost' = [lost EXCEPT ![j.set] = @ \cup {m}], Spoil(j.set, m), st = "done" => j.left = {m}
      PROVE  /\ disk' \in [Sets -> {NoDir} \cup SUBSET Maps] /\ lost' \in [Sets -> SUBSET Maps]
             /\ LostGrows /\ \A s \in Sets : Accounted(s) \subseteq Accounted(s)'
             /\ j.left \cap {m} \subseteq Accounted(j.set)'
  <2>1. m \in Maps
    BY <1>1, <1>4
  <2>2. /\ disk' \in [Sets -> {NoDir} \cup SUBSET Maps]
        /\ \A s \in Sets : Contents(s) \subseteq Contents(s)' \cup (IF s = j.set THEN {m} ELSE {})
    BY <1>4, <2>1, SpoilFacts
  <2>3. lost' \in [Sets -> SUBSET Maps] /\ lost'[j.set] = lost[j.set] \cup {m}
        /\ \A s \in Sets : s # j.set => lost'[s] = lost[s]
    BY <1>4, <2>1
  <2>4. QED
    BY <2>2, <2>3 DEF Accounted, LostGrows
<1>5. CASE Skip(j, m, st)
  <2>1. /\ m \in j.left /\ lost' = [lost EXCEPT ![j.set] = @ \cup {m}] /\ Spoil(j.set, m)
        /\ st = "done" => j.left = {m}
    BY <1>5 DEF Skip
  <2>2. QED
    BY <1>4, <2>1
<1>6. CASE GiveUp(j, m, st)
  <2>1. m \in j.left /\ st = "failed"
    BY <1>6 DEF GiveUp
  <2>2. CASE Spoil(j.set, m) /\ lost' = [lost EXCEPT ![j.set] = @ \cup {m}]
    BY <1>4, <2>1, <2>2
  <2>3. CASE /\ disk' = [disk EXCEPT ![j.set] = NoDir]
             /\ lost' = [lost EXCEPT ![j.set] = @ \cup {m} \cup Contents(j.set)]
    <3>1. m \in Maps /\ Contents(j.set) \subseteq Maps
      BY <1>1, <2>1 DEF Contents
    <3>2. disk' \in [Sets -> {NoDir} \cup SUBSET Maps] /\ lost' \in [Sets -> SUBSET Maps]
      BY <2>3, <3>1
    <3>3. /\ lost'[j.set] = lost[j.set] \cup {m} \cup Contents(j.set)
          /\ \A s \in Sets : s # j.set => lost'[s] = lost[s] /\ disk'[s] = disk[s]
      BY <2>3
    <3>4. \A s \in Sets : s # j.set => Contents(s)' = Contents(s)
      BY <3>3 DEF Contents
    <3>5. QED
      BY <2>1, <3>2, <3>3, <3>4 DEF Accounted, LostGrows
  <2>4. QED
    BY <1>6, <2>2, <2>3 DEF GiveUp
<1>7. QED
  BY <1>2, <1>3, <1>5, <1>6, <1>4 DEF Extraction, Skip

LEMMA WrittenKept ==
  ASSUME InstallerInv, UNCHANGED <<phase, at, entries, handle, paced, db, idle, cache, queried, asked, fetcher, acts>>,
         \A s \in Sets : Accounted(s) \subseteq Accounted(s)', disk' \in [Sets -> {NoDir} \cup SUBSET Maps], lost' \in [Sets -> SUBSET Maps],
         orphans' \subseteq OT,
         job' \in [Keys -> JT], JobsOK'
  PROVE  InstallerInv'
<1>1. EntriesOK' /\ HandlesOK'
  BY EntriesStay, SameHandles DEF InstallerInv
<1>2. UnpackedOK'
  <2> SUFFICES ASSUME NEW i \in DOMAIN entries
               PROVE  /\ entries[i].stage = "installing" /\ ~entries[i].fromDisk =>
                           Archive[entries[i].key] \subseteq Accounted(entries[i].set)'
                      /\ entries[i].key \in Files => entries[i].set = NoSet \/ entries[i].stage \in {"installing", "failed", "expired"}
    BY DEF UnpackedOK, Accounted, Contents, folders
  <2>1. entries[i].stage = "installing" => entries[i].set \in Sets
    BY Installed
  <2>2. QED
    BY <2>1 DEF InstallerInv, UnpackedOK
<1>3. Types'
  BY DEF InstallerInv, Types, TypeOK, folders, OT, Running
<1>4. QED
  BY <1>1, <1>2, <1>3 DEF InstallerInv

LEMMA JobsGrow ==
  ASSUME JobsOK, job' = job, \A s \in Sets : Accounted(s) \subseteq Accounted(s)' PROVE JobsOK'
<1> SUFFICES ASSUME NEW k \in Keys, job[k].st \in Running \cup {"done"}
             PROVE  /\ job[k].set = Folder(k)
                    /\ Archive[k] \ job[k].left \subseteq Accounted(Folder(k))'
                    /\ job[k].st = "done" => job[k].left = {}
  BY DEF JobsOK, Accounted, Contents, folders, Folder
<1>1. QED
  BY Folders DEF JobsOK

LEMMA WorkInstaller == ASSUME InstallerInv, NEW k \in Keys, Work(k) PROVE InstallerInv'
<1>1. UNCHANGED <<phase, at, entries, handle, paced, orphans, db, idle, cache, queried, asked, fetcher, acts>>
  BY DEF Work, resolver
<1>2. /\ Types /\ JobsOK /\ job \in [Keys -> JT] /\ disk \in [Sets -> {NoDir} \cup SUBSET Maps]
      /\ lost \in [Sets -> SUBSET Maps] /\ orphans \subseteq OT
  BY DEF InstallerInv, Types, TypeOK, folders, OT, Running
<1>3. PICK j \in JT : j = job[k]
  BY <1>2
<1>4. PICK m \in Maps \cup {NoMap}, st \in Results :
        Extraction(j, m, st) /\ job' = [job EXCEPT ![k] = After(@, m, st)]
  BY <1>3 DEF Work
<1>5. j.st \in Running
  BY <1>4 DEF Extraction, Open, Write, Skip, GiveUp, Running
<1>6. j.set = Folder(k) /\ Folder(k) \in Sets /\ Archive[k] \ j.left \subseteq Accounted(Folder(k))
  BY <1>2, <1>3, <1>5, Folders DEF JobsOK
<1>7. /\ disk' \in [Sets -> {NoDir} \cup SUBSET Maps] /\ lost' \in [Sets -> SUBSET Maps]
      /\ \A s \in Sets : Accounted(s) \subseteq Accounted(s)'
      /\ j.left \cap {m} \subseteq Accounted(j.set)'
      /\ st = "done" => j.left = {m}
  BY <1>2, <1>4, <1>6, ExtractionFacts
<1>8. PICK a : a = After(j, m, st)
  OBVIOUS
<1>9. a \in JT /\ a.set = j.set /\ a.left = j.left \ {m} /\ a.st = st
  BY <1>8, AfterFacts
<1>10. job' = [job EXCEPT ![k] = a]
  BY <1>3, <1>4, <1>8
<1>11. job' \in [Keys -> JT] /\ job'[k] = a /\ \A x \in Keys : x # k => job'[x] = job[x]
  BY <1>2, <1>9, <1>10
<1>12. JobsOK'
  <2> SUFFICES ASSUME NEW x \in Keys, job'[x].st \in Running \cup {"done"}
               PROVE  /\ job'[x].set = Folder(x)
                      /\ Archive[x] \ job'[x].left \subseteq Accounted(Folder(x))'
                      /\ job'[x].st = "done" => job'[x].left = {}
    BY DEF JobsOK, Accounted, Contents, Folder
  <2>1. CASE x = k
    <3>1. Archive[k] \ a.left \subseteq Accounted(Folder(k))'
      BY <1>6, <1>7, <1>9
    <3>2. QED
      BY <1>6, <1>7, <1>9, <1>11, <2>1, <3>1
  <2>2. CASE x # k
    BY <1>2, <1>7, <1>11, <2>2, Folders DEF JobsOK
  <2>3. QED
    BY <2>1, <2>2
<1>13. QED
  BY <1>1, <1>2, <1>7, <1>11, <1>12, WrittenKept

LEMMA WorkAbandonedInstaller == ASSUME InstallerInv, NEW j \in orphans, WorkAbandoned(j) PROVE InstallerInv'
<1>1. UNCHANGED <<phase, at, entries, handle, paced, job, db, idle, cache, queried, asked, fetcher, acts>>
  BY DEF WorkAbandoned, resolver
<1>2. /\ Types /\ JobsOK /\ job \in [Keys -> JT] /\ disk \in [Sets -> {NoDir} \cup SUBSET Maps]
      /\ lost \in [Sets -> SUBSET Maps] /\ orphans \subseteq OT /\ j \in OT
  BY DEF InstallerInv, Types, TypeOK, folders, OT, Running
<1>3. j \in JT /\ j.set \in Sets
  BY <1>2 DEF OT, JT, Running
<1>4. PICK m \in Maps \cup {NoMap}, st \in Results :
        /\ Extraction(j, m, st)
        /\ orphans' = (orphans \ {j}) \cup {o \in {After(j, m, st)} : o.st \in Running}
  BY DEF WorkAbandoned
<1>5. /\ disk' \in [Sets -> {NoDir} \cup SUBSET Maps] /\ lost' \in [Sets -> SUBSET Maps]
      /\ \A s \in Sets : Accounted(s) \subseteq Accounted(s)'
  BY <1>2, <1>3, <1>4, ExtractionFacts
<1>6. After(j, m, st) \in JT /\ After(j, m, st).set = j.set
  BY <1>3, AfterFacts
<1>7. After(j, m, st).st \in Running => After(j, m, st) \in OT
  BY <1>3, <1>6 DEF JT, OT
<1>8. orphans' \subseteq OT
  BY <1>2, <1>4, <1>7
<1>9. JobsOK'
  BY <1>1, <1>2, <1>5, JobsGrow
<1>10. QED
  BY <1>1, <1>2, <1>5, <1>8, <1>9, WrittenKept

-----------------------------------------------------------------------------
(* MapFetcher::tick.                                                       *)
LEMMA VerdictTypes ==
  ASSUME fetcher \in FT, fetcher.status = "working", NEW f \in {"working", "notfound"},
         NEW why \in {"none", "resolve", "install", "mismatch"}, Verdict(f, why)
  PROVE  fetcher' \in FT
  BY DEF Verdict, FT, FF

LEMMA TickInstaller == ASSUME InstallerInv, Tick PROVE InstallerInv'
<1>1. phase' = "events" /\ phase = "tick" /\ UNCHANGED <<at, paced, job, orphans, folders, db, idle, acts>>
  BY DEF Tick
<1>2. /\ Types /\ EntriesOK /\ HandlesOK /\ UnpackedOK /\ JobsOK /\ fetcher \in FT /\ handle \in [Sets -> HT]
      /\ cache \in [Maps -> {"none", "known", "bad"}] /\ asked \in [Maps -> Nat] /\ queried \in Maps \cup {NoMap}
      /\ Len(entries) \in Nat /\ entries \in Seq(ET) /\ at \in 1 .. Len(entries) + 1
  BY EntryTypes DEF InstallerInv, Types, TypeOK, HT, folders, OT, Running
<1>3. ASSUME entries' \in Seq(ET), Len(entries') >= Len(entries), handle' \in [Sets -> HT],
             EntriesOK', HandlesOK', UnpackedOK', fetcher' \in FT,
             cache' \in [Maps -> {"none", "known", "bad"}], asked' \in [Maps -> Nat], queried' \in Maps \cup {NoMap}
      PROVE  InstallerInv'
  <2>1. JobsOK'
    BY <1>1, <1>2, SameJobs
  <2>2. at' \in 1 .. Len(entries') + 1 /\ (phase' # "update" => at' = 1)
    BY <1>1, <1>2, <1>3 DEF Types
  <2>3. Types'
    BY <1>1, <1>2, <1>3, <2>2 DEF Types, TypeOK, ET, HT, folders, OT, Running
  <2>4. QED
    BY <1>3, <2>1, <2>3 DEF InstallerInv
<1>4. CASE UNCHANGED <<entries, handle, cache, queried, asked>> /\ fetcher' \in FT
  <2>1. EntriesOK' /\ HandlesOK'
    BY <1>2, <1>4, EntriesStay, SameHandles
  <2>2. UnpackedOK'
    BY <1>1, <1>2, <1>4, UnpackedStep
  <2>3. QED
    BY <1>2, <1>3, <1>4, <2>1, <2>2
<1>5. CASE fetcher.status = "working" /\ Resolve
  <2> DEFINE m == fetcher.target
  <2>1. m \in Maps /\ UNCHANGED <<entries, handle>>
    BY <1>2, <1>5 DEF Resolve, FT
  <2>2. CASE Verdict("notfound", "resolve") /\ UNCHANGED resolver
    BY <1>2, <1>4, <1>5, <2>1, <2>2, VerdictTypes DEF resolver
  <2>3. CASE /\ fetcher' = [fetcher EXCEPT !.set = Home[m], !.status = "working", !.why = "none"]
             /\ UNCHANGED resolver
    <3>1. Home[m] \in Sets
      BY <2>1, DownloadAssumption
    <3>2. fetcher' \in FT
      BY <1>2, <2>1, <2>3, <3>1 DEF FT, FF
    <3>3. QED
      BY <1>4, <2>1, <2>3, <3>2 DEF resolver
  <2>4. CASE /\ queried' = m
             /\ asked' = [asked EXCEPT ![m] = IF queried = m THEN @ ELSE @ + 1]
             /\ Verdict("working", "none") /\ UNCHANGED cache
    <3>1. fetcher' \in FT
      BY <1>2, <1>5, <2>4, VerdictTypes
    <3>2. asked' \in [Maps -> Nat] /\ queried' \in Maps \cup {NoMap}
      BY <1>2, <2>1, <2>4
    <3>3. EntriesOK' /\ HandlesOK'
      BY <1>2, <2>1, EntriesStay, SameHandles
    <3>4. UnpackedOK'
      BY <1>1, <1>2, <2>1, UnpackedStep
    <3>5. QED
      BY <1>2, <1>3, <2>1, <2>4, <3>1, <3>2, <3>3, <3>4
  <2>5. QED
    BY <1>5, <2>2, <2>3, <2>4 DEF Resolve
<1>6. CASE fetcher.status = "working" /\ Follow
  <2> DEFINE stage == Watched(fetcher.set)
  <2>1. fetcher.set \in Sets /\ UNCHANGED <<cache, queried, asked>>
    BY <1>2, <1>6 DEF Follow, FT, FF, resolver
  <2>2. CASE Verdict("notfound", "install") /\ UNCHANGED <<entries, handle>>
    BY <1>2, <1>4, <1>6, <2>1, <2>2, VerdictTypes
  <2>3. CASE /\ fetcher' = [fetcher EXCEPT !.inFlight = TRUE, !.transferred = @ \/ stage = "downloading",
                                           !.status = "working", !.why = "none"]
             /\ UNCHANGED <<entries, handle>>
    <3>1. fetcher' \in FT
      BY <1>2, <1>6, <2>3 DEF FT, FF
    <3>2. QED
      BY <1>4, <2>1, <2>3, <3>1
  <2>4. CASE /\ fetcher' = [fetcher EXCEPT !.inFlight = FALSE, !.status = "notfound", !.why = "mismatch"]
             /\ UNCHANGED <<entries, handle>>
    <3>1. fetcher' \in FT
      BY <1>2, <1>6, <2>4 DEF FT, FF
    <3>2. QED
      BY <1>4, <2>1, <2>4, <3>1
  <2>5. CASE /\ Enqueue(fetcher.set)
             /\ fetcher' = [fetcher EXCEPT !.inFlight = FALSE, !.status = "working", !.why = "none"]
    <3>1. fetcher' \in FT
      BY <1>2, <1>6, <2>5 DEF FT, FF
    <3>2. /\ entries' \in Seq(ET) /\ Len(entries') >= Len(entries) /\ handle' \in [Sets -> HT]
          /\ EntriesOK' /\ HandlesOK' /\ UnpackedOK'
      BY <1>1, <2>1, <2>5, EnqueueKept
    <3>3. QED
      BY <1>2, <1>3, <2>1, <3>1, <3>2
  <2>6. QED
    BY <1>6, <2>2, <2>3, <2>4, <2>5 DEF Follow
<1>7. CASE UNCHANGED <<entries, handle, cache, queried, asked>> /\ fetcher' \in {fetcher, NoFetch}
  <2>1. NoFetch \in FT
    BY DEF NoFetch, FT, FF
  <2>2. QED
    BY <1>2, <1>4, <1>7, <2>1
<1>8. QED
  BY <1>5, <1>6, <1>7 DEF Tick, resolver

-----------------------------------------------------------------------------
LEMMA InstallerInit == Init => InstallerInv
<1> SUFFICES ASSUME Init PROVE InstallerInv
  OBVIOUS
<1>1. entries = <<>> /\ handle = [s \in Sets |-> "null"] /\ job = [k \in Keys |-> NoJob] /\ fetcher = NoFetch
  BY DEF Init
<1>2. entries \in Seq(ET) /\ Len(entries) = 0 /\ DOMAIN entries = {}
  BY <1>1
<1>3. disk \in [Sets -> {NoDir} \cup SUBSET Maps]
  <2>1. \A s \in Sets : Leftovers[s] \subseteq {NoDir} \cup SUBSET Maps
    BY DownloadAssumption
  <2>2. /\ disk \in [Sets -> UNION {Leftovers[s] : s \in Sets}]
        /\ \A s \in Sets : disk[s] \in Leftovers[s]
    BY DEF Init
  <2>3. \A s \in Sets : disk[s] \in {NoDir} \cup SUBSET Maps
    BY <2>1, <2>2
  <2>4. QED
    BY <2>2, <2>3
<1>4. TypeOK
  <2>1. MaxActs \in Nat /\ 1 \in 1 .. Len(entries) + 1
    BY <1>2, DownloadAssumption
  <2>2. phase \in {"events", "update", "tick"} /\ at \in 1 .. Len(entries) + 1 /\ acts \in 0 .. MaxActs
    BY <2>1 DEF Init
  <2>3. /\ handle \in [Sets -> HT] /\ cache \in [Maps -> {"none", "known", "bad"}] /\ asked \in [Maps -> Nat]
        /\ paced \in BOOLEAN /\ idle \in BOOLEAN /\ db \subseteq Maps /\ queried \in Maps \cup {NoMap}
        /\ lost \in [Sets -> SUBSET Maps]
    BY DEF Init, HT
  <2>4. QED
    BY <1>2, <1>3, <2>2, <2>3 DEF TypeOK, ET, HT, folders, OT, Running
<1>5. Types
  <2>1. fetcher \in FT /\ job \in [Keys -> JT]
    BY <1>1, JobTypes DEF NoFetch, FT, FF
  <2>2. QED
    BY <1>4, <2>1 DEF Init, Types
<1>6. EntriesOK /\ HandlesOK /\ UnpackedOK
  BY <1>1, <1>2 DEF EntriesOK, HandlesOK, UnpackedOK
<1>7. JobsOK
  BY <1>1, JobTypes DEF JobsOK, Running
<1>8. QED
  BY <1>5, <1>6, <1>7 DEF InstallerInv

LEMMA InstallerStep == InstallerInv /\ [Next]_vars => InstallerInv'
<1> SUFFICES ASSUME InstallerInv, [Next]_vars PROVE InstallerInv'
  OBVIOUS
<1>1. CASE MainStep
  BY <1>1, OthersInstaller, FrameInstaller, UpdateEntryInstaller, TickInstaller DEF MainStep
<1>2. CASE Intervene
  BY <1>2, InterveneInstaller
<1>3. CASE (\E m \in Maps : Answer(m)) \/ (\E s \in Sets : TransferEnds(s)) \/ PaceEnds
  BY <1>3, OthersInstaller
<1>4. CASE \E k \in Keys : Work(k)
  BY <1>4, WorkInstaller
<1>5. CASE \E j \in orphans : WorkAbandoned(j)
  BY <1>5, WorkAbandonedInstaller
<1>6. CASE Refreshed
  BY <1>6, FrameInstaller
<1>7. CASE Expire
  BY <1>7, ExpireInstaller
<1>8. CASE UNCHANGED vars
  <2>1. /\ UNCHANGED <<phase, at, entries, handle, paced, job, orphans, folders, db, idle, cache, queried,
                       asked, fetcher, acts>>
    BY <1>8 DEF vars, folders
  <2>2. QED
    BY <2>1, RequestTypes, SameHandles, RequestsMove
<1>9. QED
  BY <1>1, <1>2, <1>3, <1>4, <1>5, <1>6, <1>7, <1>8 DEF Next

(* The invariant of the installer, its requests, extractions and folders.  *)
THEOREM DownloadsInvariance == Spec => []InstallerInv
<1>1. Init => InstallerInv
  BY InstallerInit
<1>2. InstallerInv /\ [Next]_vars => InstallerInv'
  BY InstallerStep
<1>3. QED
  BY <1>1, <1>2, PTL DEF Spec

(* Type correctness of downloads, installer and database.                  *)
THEOREM DownloadTypes == Spec => []TypeOK
<1>1. InstallerInv => TypeOK
  BY DEF InstallerInv, Types
<1>2. QED
  BY <1>1, DownloadsInvariance, PTL

(* No transfer goes on for an entry that was dropped or is past it         *)
(* (BeatmapInstaller::cancel, cancel_entry, update).                       *)
THEOREM DownloadsAreWanted == Spec => []TransfersAreWanted
<1>1. InstallerInv => TransfersAreWanted
  <2> SUFFICES ASSUME InstallerInv, NEW s \in Sets,
                      handle[s] \in {"queued", "live", "arrivedOk", "arrivedBad"}
               PROVE  Has(s) /\ entries[Of(s)].stage = "downloading"
    BY DEF TransfersAreWanted
  <2>1. PICK i \in DOMAIN entries : entries[i].key = s /\ entries[i].stage = "downloading"
    BY DEF InstallerInv, HandlesOK
  <2>2. Has(s)
    BY <2>1 DEF Has
  <2>3. Of(s) = i
    BY <2>1, <2>2, Located DEF InstallerInv, Types, EntriesOK
  <2>4. QED
    BY <2>1, <2>2, <2>3
<1>2. QED
  BY <1>1, DownloadsInvariance, PTL

(* A download that failed and is tried again starts with a new transfer    *)
(* (BeatmapInstaller::enqueue resets the handle).                          *)
THEOREM DownloadsRetryFresh == Spec => []RetryIsFresh
<1>1. InstallerInv => RetryIsFresh
  BY HandleOf DEF InstallerInv, RetryIsFresh
<1>2. QED
  BY <1>1, DownloadsInvariance, PTL

-----------------------------------------------------------------------------
(* What a frame, a user or a worker does to the transfer that was seen.    *)
LEMMA LostKept == ASSUME UNCHANGED lost PROVE LostGrows
  BY DEF LostGrows

LEMMA WorkLoses ==
  ASSUME InstallerInv, (\E k \in Keys : Work(k)) \/ (\E j \in orphans : WorkAbandoned(j)) PROVE LostGrows
<1>1. /\ Types /\ JobsOK /\ job \in [Keys -> JT] /\ disk \in [Sets -> {NoDir} \cup SUBSET Maps]
      /\ lost \in [Sets -> SUBSET Maps] /\ orphans \subseteq OT
  BY DEF InstallerInv, Types, TypeOK
<1>2. ASSUME NEW k \in Keys, Work(k) PROVE LostGrows
  <2>1. PICK j \in JT : j = job[k]
    BY <1>1
  <2>2. PICK m \in Maps \cup {NoMap}, st \in Results : Extraction(j, m, st)
    BY <1>2, <2>1 DEF Work
  <2>3. j.st \in Running
    BY <2>2 DEF Extraction, Open, Write, Skip, GiveUp, Running
  <2>4. j.set \in Sets
    BY <1>1, <2>1, <2>3, Folders DEF JobsOK
  <2>5. QED
    BY <1>1, <2>2, <2>4, ExtractionFacts
<1>3. ASSUME NEW j \in orphans, WorkAbandoned(j) PROVE LostGrows
  <2>1. j \in JT /\ j.set \in Sets
    BY <1>1 DEF OT, JT, Running
  <2>2. PICK m \in Maps \cup {NoMap}, st \in Results : Extraction(j, m, st)
    BY <1>3 DEF WorkAbandoned
  <2>3. QED
    BY <1>1, <2>1, <2>2, ExtractionFacts
<1>4. QED
  BY <1>2, <1>3

LEMMA FetcherStays ==
  ASSUME FetcherInv, NEW s, s = fetcher.set, fetcher' \in {fetcher, [fetcher EXCEPT !.cut = TRUE]}, fetcher \in FT,
         LostGrows, Watching' /\ (OnItsWay(s) \/ Imported(s)) => OnItsWay(s)' \/ Imported(s)'
  PROVE  FetcherInv'
<1>1. /\ fetcher'.set = fetcher.set /\ fetcher'.target = fetcher.target /\ fetcher'.why = fetcher.why
      /\ fetcher'.status = fetcher.status /\ fetcher'.transferred = fetcher.transferred
      /\ fetcher'.inFlight = fetcher.inFlight /\ (~fetcher'.cut => ~fetcher.cut)
  BY DEF FT, FF
<1>2. fetcher.transferred \/ fetcher.why = "mismatch" => lost[s] \subseteq lost'[s]
  BY DEF FetcherInv, LostGrows, FT, FF
<1>3. MismatchHasAReason'
  BY <1>1, <1>2 DEF FetcherInv, MismatchHasAReason
<1>4. /\ fetcher'.transferred \/ fetcher'.why = "mismatch" => fetcher'.set # NoSet
      /\ fetcher'.transferred /\ fetcher'.status = "working" => fetcher'.inFlight
  BY <1>1 DEF FetcherInv
<1>5. Watching' => Watching /\ fetcher.transferred
  BY <1>1 DEF Watching
<1>6. Watching' => \/ OnItsWay(fetcher.set)' \/ Imported(fetcher.set)'
                   \/ fetcher'.target \notin Archive[fetcher'.set] \ lost'[fetcher'.set]
  <2> SUFFICES ASSUME Watching', fetcher'.target \in Archive[fetcher'.set] \ lost'[fetcher'.set]
               PROVE  OnItsWay(fetcher.set)' \/ Imported(fetcher.set)'
    OBVIOUS
  <2>1. fetcher.target \in Archive[fetcher.set] \ lost[fetcher.set]
    BY <1>1, <1>2, <1>5
  <2>2. OnItsWay(s) \/ Imported(s)
    BY <1>5, <2>1 DEF FetcherInv
  <2>3. OnItsWay(s)' \/ Imported(s)'
    BY <2>2
  <2>4. s = fetcher'.set
    BY <1>1
  <2>5. QED
    BY <2>3, <2>4 DEF OnItsWay, Imported
<1>7. QED
  BY <1>3, <1>4, <1>6 DEF FetcherInv

(* The list is as it was.                                                  *)
LEMMA SameWay ==
  ASSUME NEW s, OnItsWay(s), entries' = entries, phase' = "events" => phase = "events"
  PROVE  OnItsWay(s)'
<1>1. PICK i \in DOMAIN entries :
        /\ entries[i].key = s
        /\ Active(entries[i]) \/ (entries[i].stage \in {"failed", "expired"} /\ (phase = "events" => Hidden(i)))
  BY DEF OnItsWay
<1>2. Hidden(i) => Hidden(i)'
  BY DEF Hidden
<1>3. QED
  BY <1>1, <1>2 DEF OnItsWay, Active

(* An entry of a set that is not its own is an import of a file.           *)
LEMMA OthersInstall ==
  ASSUME InstallerInv, NEW i \in DOMAIN entries, entries[i].set \in Sets
  PROVE  \/ entries[i].key = entries[i].set
         \/ entries[i].stage \in {"installing", "failed", "expired"} /\ entries[i].key \in Files
<1>1. entries[i].key \in Keys /\ EntryOK(entries[i])
  BY EntryTypes DEF InstallerInv, Types, EntriesOK, ET
<1>2. entries[i].key \in Files => entries[i].set = NoSet \/ entries[i].stage \in {"installing", "failed", "expired"}
  BY DEF InstallerInv, UnpackedOK
<1>3. QED
  BY <1>1, <1>2, DownloadAssumption DEF EntryOK, Keys

(* Seen from its set, a failed entry is hidden unless it is what is seen.  *)
LEMMA SeenOrHidden ==
  ASSUME InstallerInv, NEW i \in DOMAIN entries, entries[i].key \in Sets,
         Watched(entries[i].key) \notin {"failed", "expired"}, entries[i].stage \in {"failed", "expired"}
  PROVE  Hidden(i)
<1> DEFINE s == entries[i].key
<1>1. entries[i].set = s
  BY DEF InstallerInv, EntriesOK, EntryOK
<1>2. PICK j \in DOMAIN entries : /\ entries[j].set = s /\ Watched(s) = entries[j].stage
                                  /\ \A k \in DOMAIN entries : entries[k].set = s => j <= k
  BY <1>1, WatchedFacts DEF InstallerInv, Types
<1>3. j # i /\ j <= i
  BY <1>1, <1>2
<1>4. entries[j].key # s
  BY <1>3 DEF InstallerInv, EntriesOK
<1>5. entries[j].stage = "installing"
  BY <1>2, <1>4, OthersInstall
<1>6. i \in Nat /\ j \in Nat
  BY EntryTypes DEF InstallerInv, Types
<1>7. \A m \in DOMAIN entries : m < j => entries[m].set # s
  BY <1>2, <1>6, EntryTypes DEF InstallerInv, Types
<1>8. j < i
  BY <1>3, <1>6
<1>9. QED
  BY <1>1, <1>2, <1>5, <1>7, <1>8 DEF Hidden

(* Within a frame: an entry that is updated, and one that is dropped.      *)
OnWay(e) == Active(e) \/ e.stage \in {"failed", "expired"}

LEMMA ChangedWay ==
  ASSUME InstallerInv, NEW s, OnItsWay(s), phase' # "events", at \in DOMAIN entries, NEW e, e.key = entries[at].key,
         entries' = [entries EXCEPT ![at] = e], OnWay(entries[at]) => OnWay(e)
  PROVE  OnItsWay(s)'
<1>1. /\ entries \in Seq(ET) /\ DOMAIN entries' = DOMAIN entries /\ entries'[at] = e
      /\ \A m \in DOMAIN entries : m # at => entries'[m] = entries[m]
  BY EntryTypes DEF InstallerInv, Types
<1>2. PICK i \in DOMAIN entries : entries[i].key = s /\ OnWay(entries[i])
  BY DEF OnItsWay, OnWay
<1>3. entries'[i].key = s /\ OnWay(entries'[i])
  BY <1>1, <1>2 DEF OnWay, Active
<1>4. QED
  BY <1>1, <1>2, <1>3 DEF OnItsWay, OnWay, Active

LEMMA DroppedWay ==
  ASSUME InstallerInv, NEW s, OnItsWay(s), phase' # "events", at \in DOMAIN entries, Drop, entries[at].key # s
  PROVE  OnItsWay(s)'
<1>1. entries \in Seq(ET) /\ entries' = RemoveAt(entries, at)
  BY EntryTypes DEF InstallerInv, Types, Drop
<1>2. PICK i \in DOMAIN entries : entries[i].key = s /\ OnWay(entries[i])
  BY DEF OnItsWay, OnWay
<1>3. PICK k \in DOMAIN entries' : entries'[k] = entries[i]
  BY <1>1, <1>2, RemoveAtKeeps
<1>4. entries'[k].key = s /\ OnWay(entries'[k])
  BY <1>2, <1>3
<1>5. QED
  BY <1>4 DEF OnItsWay, OnWay, Active

LEMMA CutStops ==
  ASSUME fetcher \in FT, fetcher.set \in Sets, Cut(fetcher.set) PROVE ~Watching'
  BY DEF Cut, Watching, FT, FF

LEMMA CutFetcher ==
  ASSUME fetcher \in FT, NEW set, Cut(set) PROVE fetcher' \in {fetcher, [fetcher EXCEPT !.cut = TRUE]}
  BY DEF Cut

(* What is installed is imported whole, if it was unpacked.                *)
LEMMA InstallWay ==
  ASSUME InstallerInv, NEW s \in Sets, at \in DOMAIN entries, Install(entries[at]), OnItsWay(s),
         UNCHANGED <<phase, idle>>, phase = "update"
  PROVE  OnItsWay(s)' \/ Imported(s)'
<1> DEFINE e == entries[at]
<1>1. e \in ET /\ e.stage = "installing" /\ EntryOK(e)
  BY CurrentFacts DEF Install
<1>2. disk[e.set] \in {NoDir} \cup SUBSET Maps /\ UNCHANGED lost
  BY <1>1, Installed DEF Install, folders
<1>3. CASE ~idle /\ entries' = entries
  BY <1>3, SameWay
<1>4. CASE /\ disk[e.set] \in {NoDir, {}}
           /\ entries' = [entries EXCEPT ![at].stage = IF e.fromDisk THEN "downloading" ELSE "failed",
                                         ![at].fromDisk = FALSE]
  <2> DEFINE e2 == [e EXCEPT !.stage = IF e.fromDisk THEN "downloading" ELSE "failed", !.fromDisk = FALSE]
  <2>1. entries' = [entries EXCEPT ![at] = e2] /\ e2.key = e.key /\ e2.stage \in {"downloading", "failed"}
    BY <1>1, <1>4 DEF ET
  <2> HIDE DEF e2
  <2>2. OnWay(e2)
    BY <2>1 DEF OnWay, Active
  <2>3. QED
    BY <2>1, <2>2, ChangedWay
<1>5. CASE idle /\ db' = db \cup disk[e.set] /\ disk[e.set] \notin {NoDir, {}} /\ Drop
  <2>1. CASE e.key # s
    BY <1>5, <2>1, DroppedWay
  <2>2. CASE e.key = s /\ ~e.fromDisk
    <3>1. Archive[s] \subseteq Accounted(e.set) /\ Contents(e.set) = disk[e.set]
      BY <1>1, <1>5, <2>2 DEF InstallerInv, UnpackedOK, Accounted, Contents, folders
    <3>2. e.set = s /\ Accounted(e.set) = disk[e.set] \cup lost[s]
      BY <1>1, <1>5, <2>2, <3>1 DEF Accounted, EntryOK
    <3>3. QED
      BY <1>2, <1>5, <3>1, <3>2 DEF Imported
  <2>3. CASE e.key = s /\ e.fromDisk
    <3>1. PICK i \in DOMAIN entries : entries[i].key = s /\ OnWay(entries[i])
      BY DEF OnItsWay, OnWay
    <3>2. i = at
      BY <2>3, <3>1 DEF InstallerInv, EntriesOK
    <3>3. QED
      BY <1>1, <2>3, <3>1, <3>2 DEF OnWay, Active
  <2>4. QED
    BY <2>1, <2>2, <2>3
<1>6. QED
  BY <1>3, <1>4, <1>5 DEF Install

LEMMA UpdateEntryFetcher == ASSUME InstallerInv, FetcherInv, UpdateEntry PROVE FetcherInv'
<1> DEFINE e == entries[at]
<1>0. PICK s : s = fetcher.set
  OBVIOUS
<1>1. /\ phase = "update" /\ at \in DOMAIN entries /\ UNCHANGED <<phase, idle>>
      /\ LeaveQueue(e) \/ Download(e) \/ Extract(e) \/ Install(e) \/ KeepFailed(e)
  BY DEF UpdateEntry
<1>2. e \in ET /\ EntryOK(e) /\ fetcher \in FT
  BY <1>1, CurrentFacts
<1>3. fetcher' \in {fetcher, [fetcher EXCEPT !.cut = TRUE]}
  BY <1>1, <1>2, CutFetcher DEF LeaveQueue, Download, Extract, Install, KeepFailed
<1>4. db \subseteq db' /\ UNCHANGED lost
  BY <1>1 DEF LeaveQueue, Download, Extract, Install, KeepFailed, folders
<1>5. s \in Sets \/ ~Watching'
  BY <1>0, <1>2, <1>3 DEF FetcherInv, Watching, FT, FF
<1>6. ASSUME NEW to \in Stages, Stage(to), OnItsWay(s),
             OnWay(e) => Active([e EXCEPT !.stage = to]) \/ to \in {"failed", "expired"}
      PROVE  OnItsWay(s)'
  <2> DEFINE e2 == [e EXCEPT !.stage = to]
  <2>1. entries' = [entries EXCEPT ![at] = e2] /\ e2.key = e.key /\ e2.stage = to
    BY <1>1, <1>6, StageFacts DEF InstallerInv
  <2>2. OnWay(e) => OnWay(e2)
    BY <1>6, <2>1 DEF OnWay
  <2> HIDE DEF e2
  <2>3. QED
    BY <1>1, <1>6, <2>1, <2>2, ChangedWay
<1>7. ASSUME s \in Sets, Watching', OnItsWay(s) PROVE OnItsWay(s)' \/ Imported(s)'
  <2>1. CASE LeaveQueue(e)
    <3>1. ~OnWay(e) /\ e.stage = "queued"
      BY <2>1 DEF LeaveQueue, OnWay, Active
    <3>2. CASE Stage("extracting")
      <4>1. OnItsWay(s)'
        BY <1>6, <1>7, <3>1, <3>2 DEF Stages
      <4>2. QED
        BY <4>1
    <3>3. CASE entries' = [entries EXCEPT ![at].stage = "installing", ![at].fromDisk = TRUE]
      <4> DEFINE e2 == [e EXCEPT !.stage = "installing", !.fromDisk = TRUE]
      <4>1. entries' = [entries EXCEPT ![at] = e2] /\ e2.key = e.key
        BY <1>2, <3>3 DEF ET
      <4> HIDE DEF e2
      <4>2. OnItsWay(s)'
        BY <1>1, <1>7, <3>1, <4>1, ChangedWay
      <4>3. QED
        BY <4>2
    <3>4. QED
      BY <2>1, <3>2, <3>3 DEF LeaveQueue
  <2>2. CASE Download(e)
    <3>1. e.key \in Sets /\ e.key = e.set
      BY <1>2, <2>2 DEF Download, MustDownload, EntryOK
    <3>2. ASSUME NEW to \in {"downloading", "extracting", "failed"}, Stage(to) PROVE OnItsWay(s)'
      <4>1. OnWay(e) => Active([e EXCEPT !.stage = to]) \/ to \in {"failed", "expired"}
        BY <1>2, <3>2 DEF Active, ET
      <4>2. QED
        BY <1>6, <1>7, <3>2, <4>1 DEF Stages
    <3>3. CASE Drop /\ Cut(e.set)
      <4>1. e.key # s
        BY <1>0, <1>2, <1>7, <3>1, <3>3, CutStops
      <4>2. OnItsWay(s)'
        BY <1>1, <1>7, <3>3, <4>1, DroppedWay
      <4>3. QED
        BY <4>2
    <3>4. QED
      <4>1. Stage("downloading") \/ Stage("extracting") \/ Stage("failed") \/ (Drop /\ Cut(e.set))
        BY <2>2 DEF Download
      <4>2. (Stage("downloading") \/ Stage("extracting") \/ Stage("failed")) => OnItsWay(s)'
        BY <3>2
      <4>3. QED
        BY <3>3, <4>1, <4>2
  <2>3. CASE Extract(e)
    <3>1. e.stage = "extracting" /\ ~e.fromDisk
      BY <1>2, <2>3 DEF Extract, EntryOK
    <3>2. CASE entries' = entries
      BY <1>1, <1>7, <3>2, SameWay
    <3>3. CASE Stage("failed")
      <4>1. OnItsWay(s)'
        BY <1>6, <1>7, <3>3 DEF Stages
      <4>2. QED
        BY <4>1
    <3>4. CASE entries' = [entries EXCEPT ![at].stage = "installing", ![at].set = job[e.key].set]
      <4> DEFINE e2 == [e EXCEPT !.stage = "installing", !.set = job[e.key].set]
      <4>1. entries' = [entries EXCEPT ![at] = e2] /\ e2.key = e.key /\ e2.stage = "installing" /\ ~e2.fromDisk
        BY <1>2, <3>1, <3>4 DEF ET
      <4> HIDE DEF e2
      <4>2. OnWay(e2)
        BY <4>1 DEF OnWay, Active
      <4>3. OnItsWay(s)'
        BY <1>1, <1>7, <4>1, <4>2, ChangedWay
      <4>4. QED
        BY <4>3
    <3>5. QED
      BY <2>3, <3>2, <3>3, <3>4 DEF Extract
  <2>4. CASE Install(e)
    <3>1. QED
      BY <1>1, <1>7, <2>4, InstallWay
  <2>5. CASE KeepFailed(e)
    <3>1. CASE entries' = entries
      BY <1>1, <1>7, <3>1, SameWay
    <3>2. CASE Drop /\ Cut(e.set)
      <4>1. e.set # s
        BY <1>0, <1>2, <1>7, <3>2, CutStops
      <4>2. e.key # s
        BY <1>2, <1>7, <4>1 DEF EntryOK
      <4>3. OnItsWay(s)'
        BY <1>1, <1>7, <3>2, <4>2, DroppedWay
      <4>4. QED
        BY <4>3
    <3>3. QED
      BY <2>5, <3>1, <3>2 DEF KeepFailed
  <2>6. QED
    BY <1>1, <2>1, <2>2, <2>3, <2>4, <2>5
<1>8. Imported(s) => Imported(s)'
  BY <1>1, <1>4 DEF Imported
<1>9. Watching' /\ (OnItsWay(s) \/ Imported(s)) => OnItsWay(s)' \/ Imported(s)'
  BY <1>5, <1>7, <1>8
<1>10. QED
  BY <1>0, <1>2, <1>3, <1>4, <1>9, LostKept, FetcherStays

(* Between frames: a new entry, a retry, a cancelled entry.                *)
LEMMA FetcherSets ==
  ASSUME FetcherInv, fetcher \in FT, fetcher' \in {fetcher, [fetcher EXCEPT !.cut = TRUE]}
  PROVE  fetcher.set \in Sets \/ ~Watching'
  BY DEF FetcherInv, Watching, FT, FF

LEMMA JoinWay ==
  ASSUME InstallerInv, NEW s, OnItsWay(s), phase' = phase, NEW k \in Keys, entries' = Append(entries, Entry(k))
  PROVE  OnItsWay(s)'
<1>1. entries \in Seq(ET) /\ DOMAIN entries = 1 .. Len(entries) /\ Len(entries) \in Nat
  BY EntryTypes DEF InstallerInv, Types
<1>2. Entry(k) \in ET
  BY DEF Entry, ET, Stages, Keys
<1>3. \A i \in DOMAIN entries : i \in DOMAIN entries' /\ entries'[i] = entries[i]
  BY <1>1, <1>2, AppendFacts
<1>4. PICK i \in DOMAIN entries :
        /\ entries[i].key = s
        /\ Active(entries[i]) \/ (entries[i].stage \in {"failed", "expired"} /\ (phase = "events" => Hidden(i)))
  BY DEF OnItsWay
<1>5. Hidden(i) => Hidden(i)'
  BY <1>3 DEF Hidden
<1>6. QED
  BY <1>3, <1>4, <1>5 DEF OnItsWay, Active

LEMMA RetryWay ==
  ASSUME InstallerInv, NEW s \in Sets, OnItsWay(s), UNCHANGED phase, phase = "events",
         NEW x \in Sets, Watched(x) \in {"none", "failed", "expired"},
         Has(x), entries[Of(x)].stage \in {"failed", "expired"},
         entries' = [entries EXCEPT ![Of(x)].stage = "queued"]
  PROVE  OnItsWay(s)'
<1> DEFINE j == Of(x)
<1>1. j \in DOMAIN entries /\ entries[j].key = x /\ entries \in Seq(ET)
  BY Located, EntryTypes DEF InstallerInv, Types
<1>2. /\ DOMAIN entries' = DOMAIN entries
      /\ \A i \in DOMAIN entries : i # j => entries'[i] = entries[i]
      /\ entries'[j].set = entries[j].set
  <2>1. entries' = [entries EXCEPT ![j] = [entries[j] EXCEPT !.stage = "queued"]]
    OBVIOUS
  <2>2. entries[j] \in ET
    BY <1>1
  <2> HIDE DEF j
  <2>3. QED
    BY <1>1, <2>1, <2>2 DEF ET
<1>3. PICK i \in DOMAIN entries :
        /\ entries[i].key = s
        /\ Active(entries[i]) \/ (entries[i].stage \in {"failed", "expired"} /\ (phase = "events" => Hidden(i)))
  BY DEF OnItsWay
<1>4. i # j
  <2> SUFFICES ASSUME i = j PROVE FALSE
    OBVIOUS
  <2>1. Hidden(i) /\ s = x
    BY <1>1, <1>3 DEF Active
  <2>2. PICK k \in DOMAIN entries :
          /\ k < i /\ entries[k].set = entries[i].set /\ entries[k].stage = "installing"
          /\ \A n \in DOMAIN entries : n < k => entries[n].set # entries[i].set
    BY <2>1 DEF Hidden
  <2>3. entries[i].set = s
    BY <1>3 DEF InstallerInv, EntriesOK, EntryOK
  <2>4. PICK m \in DOMAIN entries : /\ entries[m].set = s /\ Watched(s) = entries[m].stage
                                    /\ \A n \in DOMAIN entries : entries[n].set = s => m <= n
    BY <2>3, WatchedFacts DEF InstallerInv, Types
  <2>5. m <= k /\ i \in Nat /\ k \in Nat /\ m \in Nat
    BY <2>2, <2>3, <2>4, EntryTypes DEF InstallerInv, Types
  <2>6. m = k
    BY <2>2, <2>3, <2>4, <2>5
  <2>7. QED
    BY <2>1, <2>2, <2>4, <2>6
<1>5. Hidden(i) => Hidden(i)'
  <2> SUFFICES ASSUME Hidden(i) PROVE Hidden(i)'
    OBVIOUS
  <2>1. PICK k \in DOMAIN entries :
          /\ k < i /\ entries[k].set = entries[i].set /\ entries[k].stage = "installing"
          /\ \A m \in DOMAIN entries : m < k => entries[m].set # entries[i].set
    BY DEF Hidden
  <2>2. k # j
    BY <2>1
  <2>3. QED
    BY <1>2, <1>4, <2>1, <2>2 DEF Hidden
<1>6. QED
  BY <1>2, <1>3, <1>4, <1>5 DEF OnItsWay, Active

LEMMA CancelWay ==
  ASSUME InstallerInv, NEW s \in Sets, OnItsWay(s), UNCHANGED phase,
         NEW j \in DOMAIN entries, entries[j].set # s, entries' = RemoveAt(entries, j)
  PROVE  OnItsWay(s)'
<1>1. entries \in Seq(ET) /\ DOMAIN entries = 1 .. Len(entries) /\ Len(entries) \in Nat
  BY EntryTypes DEF InstallerInv, Types
<1>2. PICK i \in DOMAIN entries :
        /\ entries[i].key = s
        /\ Active(entries[i]) \/ (entries[i].stage \in {"failed", "expired"} /\ (phase = "events" => Hidden(i)))
  BY DEF OnItsWay
<1>3. entries[i].set = s
  BY <1>2 DEF InstallerInv, EntriesOK, EntryOK
<1>4. i # j
  BY <1>3
<1> DEFINE to(n) == IF n < j THEN n ELSE n - 1
<1>5. ASSUME NEW n \in DOMAIN entries, n # j
      PROVE  to(n) \in DOMAIN entries' /\ entries'[to(n)] = entries[n]
  BY <1>1, <1>5, RemoveAtOrder
<1>6. to(i) \in DOMAIN entries' /\ entries'[to(i)] = entries[i]
  BY <1>4, <1>5
<1>7. Hidden(i) => Hidden(to(i))'
  <2> SUFFICES ASSUME Hidden(i)
               PROVE  \E k \in DOMAIN entries' :
                        /\ k < to(i) /\ entries'[k].set = entries'[to(i)].set /\ entries'[k].stage = "installing"
                        /\ \A m \in DOMAIN entries' : m < k => entries'[m].set # entries'[to(i)].set
    BY DEF Hidden
  <2>1. PICK k \in DOMAIN entries :
          /\ k < i /\ entries[k].set = entries[i].set /\ entries[k].stage = "installing"
          /\ \A m \in DOMAIN entries : m < k => entries[m].set # entries[i].set
    BY DEF Hidden
  <2>2. k # j
    BY <1>3, <2>1
  <2>3. to(k) \in DOMAIN entries' /\ entries'[to(k)] = entries[k]
    BY <1>5, <2>2
  <2>4. to(k) < to(i)
    BY <1>1, <1>4, <2>1, <2>2
  <2>5. ASSUME NEW m \in DOMAIN entries', m < to(k) PROVE entries'[m].set # entries[i].set
    <3> DEFINE n == IF m < j THEN m ELSE m + 1
    <3>1. /\ DOMAIN entries' = 1 .. Len(entries) - 1 /\ m \in 1 .. Len(entries) - 1
          /\ entries'[m] = IF m < j THEN entries[m] ELSE entries[m + 1]
      BY <1>1, RemoveAtFacts
    <3>2. n \in DOMAIN entries /\ n < k
      BY <1>1, <2>2, <2>5, <3>1
    <3>3. entries'[m] = entries[n]
      BY <3>1
    <3> HIDE DEF n
    <3>4. QED
      BY <2>1, <3>2, <3>3
  <2> HIDE DEF to
  <2>6. QED
    BY <1>6, <2>1, <2>3, <2>4, <2>5
<1> HIDE DEF to
<1>8. QED
  BY <1>2, <1>6, <1>7 DEF OnItsWay, Active, Hidden

LEMMA InterveneFetcher == ASSUME InstallerInv, FetcherInv, Intervene PROVE FetcherInv'
<1>0. PICK s : s = fetcher.set
  OBVIOUS
<1>1. /\ phase = "events" /\ UNCHANGED phase /\ fetcher \in FT /\ LostGrows
  <2>1. UNCHANGED lost
    BY DEF Intervene, Click, Cancel, EnqueueLocal, Target, Disconnect, Refresh, installer, folders
  <2>2. QED
    BY <2>1, LostKept DEF Intervene, InstallerInv, Types
<1>2. ~Imported(s)
  BY <1>1 DEF Imported
<1>3. CASE UNCHANGED <<entries, fetcher>>
  BY <1>0, <1>1, <1>2, <1>3, SameWay, FetcherStays
<1>4. CASE \E k \in Keys : Cancel(k)
  <2>1. PICK k \in Keys : Cancel(k)
    BY <1>4
  <2>2. Has(k) /\ entries' = RemoveAt(entries, Of(k)) /\ Cut(entries[Of(k)].set)
    BY <2>1 DEF Cancel
  <2>3. Of(k) \in DOMAIN entries
    BY <2>2, Located DEF InstallerInv, Types
  <2>4. fetcher' \in {fetcher, [fetcher EXCEPT !.cut = TRUE]}
    BY <1>1, <2>2, CutFetcher
  <2>5. s \in Sets \/ ~Watching'
    BY <1>0, <1>1, <2>4, FetcherSets
  <2>6. entries[Of(k)].set = s /\ s \in Sets => ~Watching'
    BY <1>0, <1>1, <2>2, CutStops
  <2>7. Watching' /\ OnItsWay(s) => OnItsWay(s)'
    BY <1>1, <2>2, <2>3, <2>5, <2>6, CancelWay
  <2>8. QED
    BY <1>0, <1>1, <1>2, <2>4, <2>7, FetcherStays
<1>5. CASE \E x \in Sets : Watched(x) \in {"none", "failed", "expired"} /\ Enqueue(x) /\ UNCHANGED fetcher
  <2>1. PICK x \in Sets : Watched(x) \in {"none", "failed", "expired"} /\ Enqueue(x) /\ UNCHANGED fetcher
    BY <1>5
  <2>2. CASE entries' = Append(entries, Entry(x))
    <3>1. OnItsWay(s) => OnItsWay(s)'
      BY <1>1, <2>2, JoinWay DEF Keys
    <3>2. QED
      BY <1>0, <1>1, <1>2, <2>1, <3>1, FetcherStays
  <2>3. CASE /\ Has(x) /\ entries[Of(x)].stage \in {"failed", "expired"}
             /\ entries' = [entries EXCEPT ![Of(x)].stage = "queued"]
    <3>1. s \in Sets \/ ~Watching'
      BY <1>0, <1>1, <2>1, FetcherSets
    <3>2. s \in Sets /\ OnItsWay(s) => OnItsWay(s)'
      BY <1>1, <2>1, <2>3, RetryWay
    <3>3. QED
      BY <1>0, <1>1, <1>2, <2>1, <3>1, <3>2, FetcherStays
  <2>4. CASE UNCHANGED entries
    BY <1>3, <2>1, <2>4
  <2>5. QED
    BY <2>1, <2>2, <2>3, <2>4 DEF Enqueue
<1>6. CASE \E f \in Files : EnqueueLocal(f)
  <2>1. PICK f \in Files : entries' = Append(entries, Entry(f)) /\ UNCHANGED fetcher
    BY <1>6 DEF EnqueueLocal
  <2>2. OnItsWay(s) => OnItsWay(s)'
    BY <1>1, <2>1, JoinWay DEF Keys
  <2>3. QED
    BY <1>0, <1>1, <1>2, <2>1, <2>2, FetcherStays
<1>7. CASE \E m \in Maps \cup {NoMap} : Target(m)
  <2>1. PICK m \in Maps \cup {NoMap} :
          fetcher' = IF m = NoMap THEN NoFetch ELSE [NoFetch EXCEPT !.target = m, !.status = "working"]
    BY <1>7 DEF Target
  <2>2. fetcher'.transferred = FALSE /\ fetcher'.why = "none"
    BY <2>1 DEF NoFetch
  <2>3. QED
    BY <2>2 DEF FetcherInv, Watching, MismatchHasAReason
<1>8. QED
  <2>1. ASSUME NEW x \in Sets, Click(x) PROVE FetcherInv'
    BY <1>4, <1>5, <2>1 DEF Click, Keys
  <2>2. (Disconnect \/ Refresh) => UNCHANGED <<entries, fetcher>>
    BY DEF Disconnect, Refresh, installer
  <2>3. QED
    BY <1>3, <1>4, <1>6, <1>7, <2>1, <2>2 DEF Intervene

(* The worker, the network and the frame's parts.                          *)
LEMMA OthersFetcher ==
  ASSUME InstallerInv, FetcherInv, UNCHANGED <<entries, fetcher>>, idle' \in {idle, TRUE}, db \subseteq db',
         LostGrows, phase' = phase \/ phase' # "events"
  PROVE  FetcherInv'
<1>0. PICK s : s = fetcher.set
  OBVIOUS
<1>1. OnItsWay(s) => OnItsWay(s)'
  BY SameWay
<1>2. fetcher \in FT
  BY DEF InstallerInv, Types
<1>3. Watching' /\ Imported(s) => Imported(s)'
  <2>1. Watching' => s \in Sets
    BY <1>0, <1>2, FetcherSets
  <2>2. QED
    BY <2>1 DEF Imported, LostGrows
<1>4. QED
  BY <1>0, <1>1, <1>2, <1>3, FetcherStays

LEMMA ExpireFetcher == ASSUME InstallerInv, FetcherInv, Expire PROVE FetcherInv'
<1>0. PICK s : s = fetcher.set
  OBVIOUS
<1>1. PICK j \in DOMAIN entries : entries[j].stage = "failed" /\ entries' = [entries EXCEPT ![j].stage = "expired"]
  BY DEF Expire
<1>2. UNCHANGED <<phase, db, idle, lost, fetcher>> /\ entries \in Seq(ET) /\ fetcher \in FT
  BY EntryTypes DEF Expire, folders, InstallerInv, Types
<1>3. /\ DOMAIN entries' = DOMAIN entries
      /\ \A i \in DOMAIN entries : i # j => entries'[i] = entries[i]
      /\ entries'[j].set = entries[j].set /\ entries'[j].key = entries[j].key /\ entries'[j].stage = "expired"
  <2>1. entries' = [entries EXCEPT ![j] = [entries[j] EXCEPT !.stage = "expired"]]
    BY <1>1
  <2>2. entries[j] \in ET
    BY <1>2
  <2>3. QED
    BY <1>2, <2>1, <2>2 DEF ET
<1>4. ASSUME OnItsWay(s) PROVE OnItsWay(s)'
  <2>1. PICK i \in DOMAIN entries :
          /\ entries[i].key = s
          /\ Active(entries[i]) \/ (entries[i].stage \in {"failed", "expired"} /\ (phase = "events" => Hidden(i)))
    BY <1>4 DEF OnItsWay
  <2>2. Hidden(i) => Hidden(i)'
    <3>1. \A k \in DOMAIN entries : entries[k].stage = "installing" => k # j
      BY <1>1
    <3>2. entries'[i].set = entries[i].set
      BY <1>3
    <3>3. QED
      BY <1>3, <3>1, <3>2 DEF Hidden
  <2>3. CASE i = j
    BY <1>1, <1>2, <1>3, <2>1, <2>2, <2>3 DEF OnItsWay, Active
  <2>4. CASE i # j
    BY <1>2, <1>3, <2>1, <2>2, <2>4 DEF OnItsWay, Active
  <2>5. QED
    BY <2>3, <2>4
<1>5. Imported(s) => Imported(s)'
  BY <1>2 DEF Imported
<1>6. QED
  BY <1>0, <1>2, <1>4, <1>5, LostKept, FetcherStays

(* MapFetcher::tick: what is seen decides.                                 *)
LEMMA TickFetcher == ASSUME InstallerInv, FetcherInv, Tick PROVE FetcherInv'
<1>0. PICK s : s = fetcher.set
  OBVIOUS
<1>1. /\ phase = "tick" /\ phase' = "events" /\ UNCHANGED <<db, idle, lost>> /\ fetcher \in FT
  BY DEF Tick, folders, InstallerInv, Types
<1>2. CASE UNCHANGED fetcher /\ fetcher.status # "working"
  BY <1>1, <1>2 DEF FetcherInv, Watching, MismatchHasAReason
<1>3. CASE fetcher' = NoFetch
  BY <1>3 DEF NoFetch, FetcherInv, Watching, MismatchHasAReason
<1>4. CASE fetcher.status = "working" /\ Resolve
  <2>1. fetcher.transferred = FALSE
    BY <1>1, <1>4 DEF Resolve, FetcherInv, FT, FF
  <2>2. fetcher'.transferred = FALSE /\ fetcher'.why # "mismatch"
    BY <1>1, <1>4, <2>1 DEF Resolve, Verdict, FT, FF
  <2>3. QED
    BY <2>2 DEF FetcherInv, Watching, MismatchHasAReason
<1>5. CASE fetcher.status = "working" /\ ~(idle /\ fetcher.target \in db) /\ Follow
  <2> DEFINE stage == Watched(s)
  <2>1. s \in Sets
    BY <1>0, <1>1, <1>5 DEF Follow, FT, FF
  <2>2. Watching => OnItsWay(s) \/ fetcher.target \notin Archive[s] \ lost[s]
    BY <1>0, <1>5 DEF FetcherInv, Imported
  <2>3. CASE Verdict("notfound", "install")
    <3>1. /\ fetcher'.status = "notfound" /\ fetcher'.why = "install"
          /\ fetcher'.set = fetcher.set /\ fetcher'.transferred = fetcher.transferred
      BY <1>1, <2>3 DEF Verdict, FT, FF
    <3>2. QED
      BY <3>1 DEF FetcherInv, Watching, MismatchHasAReason
  <2>4. CASE /\ stage \notin {"failed", "expired", "none"}
             /\ fetcher' = [fetcher EXCEPT !.inFlight = TRUE, !.transferred = @ \/ stage = "downloading",
                                           !.status = "working", !.why = "none"]
             /\ UNCHANGED <<entries, handle>>
    <3>1. /\ fetcher'.inFlight = TRUE /\ fetcher'.transferred = (fetcher.transferred \/ stage = "downloading")
          /\ fetcher'.set = fetcher.set /\ fetcher'.target = fetcher.target /\ fetcher'.why = "none"
          /\ fetcher'.cut = fetcher.cut
      BY <1>1, <2>4 DEF FT, FF
    <3>2. ASSUME OnItsWay(s) PROVE OnItsWay(s)'
      <4>1. PICK i \in DOMAIN entries :
              /\ entries[i].key = s
              /\ Active(entries[i]) \/ (entries[i].stage \in {"failed", "expired"} /\ (phase = "events" => Hidden(i)))
        BY <3>2 DEF OnItsWay
      <4>2. entries[i].stage \in {"failed", "expired"} => Hidden(i)
        BY <2>1, <2>4, <4>1, SeenOrHidden
      <4>3. Hidden(i) => Hidden(i)'
        BY <2>4 DEF Hidden
      <4>4. QED
        BY <2>4, <4>1, <4>2, <4>3 DEF OnItsWay, Active
    <3>3. ASSUME stage = "downloading" PROVE OnItsWay(s)'
      <4>1. PICK j \in DOMAIN entries : entries[j].set = s /\ entries[j].stage = "downloading"
        BY <3>3, WatchedFacts DEF InstallerInv, Types
      <4>2. entries[j].key = s
        BY <2>1, <4>1, OthersInstall
      <4>3. QED
        BY <2>4, <4>1, <4>2 DEF OnItsWay, Active
    <3>4. Watching' => OnItsWay(s)' \/ fetcher.target \notin Archive[s] \ lost[s]
      BY <1>5, <2>2, <3>1, <3>2, <3>3 DEF Watching
    <3>5. fetcher'.set = s /\ s # NoSet
      BY <1>0, <2>1, <3>1, DownloadAssumption
    <3>6. Watching' => \/ OnItsWay(fetcher.set)' \/ Imported(fetcher.set)'
                       \/ fetcher'.target \notin Archive[fetcher'.set] \ lost'[fetcher'.set]
      BY <1>1, <3>1, <3>4, <3>5 DEF OnItsWay
    <3>7. QED
      BY <3>1, <3>5, <3>6 DEF FetcherInv, MismatchHasAReason
  <2>5. CASE /\ stage = "none" /\ fetcher.inFlight /\ fetcher.transferred
             /\ fetcher' = [fetcher EXCEPT !.inFlight = FALSE, !.status = "notfound", !.why = "mismatch"]
    <3>1. /\ fetcher'.status = "notfound" /\ fetcher'.cut = fetcher.cut
          /\ fetcher'.set = fetcher.set /\ fetcher'.target = fetcher.target
          /\ fetcher'.transferred = fetcher.transferred
      BY <1>1, <2>5 DEF FT, FF
    <3>2. ~OnItsWay(s)
      <4>1. \A i \in DOMAIN entries : entries[i].set # s
        <5>1. \A i \in DOMAIN entries : entries[i].stage # "none"
          BY EntryTypes DEF InstallerInv, Types, ET, Stages
        <5>2. QED
          BY <2>5, <5>1, WatchedFacts DEF InstallerInv, Types
      <4>2. \A i \in DOMAIN entries : entries[i].key # s
        BY <2>1, <4>1 DEF InstallerInv, EntriesOK, EntryOK
      <4>3. QED
        BY <4>2 DEF OnItsWay
    <3>3. ~fetcher.cut => fetcher.target \notin Archive[s] \ lost[s]
      BY <1>5, <2>2, <2>5, <3>2 DEF Watching
    <3>4. QED
      BY <1>0, <1>1, <2>1, <3>1, <3>3, DownloadAssumption DEF FetcherInv, Watching, MismatchHasAReason
  <2>6. CASE /\ ~(fetcher.inFlight /\ fetcher.transferred)
             /\ fetcher' = [fetcher EXCEPT !.inFlight = FALSE, !.status = "working", !.why = "none"]
    <3>1. ~fetcher.transferred
      BY <1>5, <2>6 DEF FetcherInv
    <3>2. fetcher'.transferred = fetcher.transferred /\ fetcher'.why = "none"
      BY <1>1, <2>6 DEF FT, FF
    <3>3. QED
      BY <3>1, <3>2 DEF FetcherInv, Watching, MismatchHasAReason
  <2>7. QED
    BY <1>0, <1>5, <2>3, <2>4, <2>5, <2>6 DEF Follow
<1>6. QED
  BY <1>2, <1>3, <1>4, <1>5 DEF Tick

LEMMA FetcherInit == Init => FetcherInv
  BY DEF Init, NoFetch, FetcherInv, Watching, MismatchHasAReason

LEMMA FetcherStep == ASSUME Attentive, InstallerInv, FetcherInv, [Next]_vars PROVE FetcherInv'
<1>1. CASE UpdateEntry
  BY <1>1, UpdateEntryFetcher
<1>2. CASE Tick
  BY <1>2, TickFetcher
<1>3. CASE Intervene
  BY <1>3, InterveneFetcher
<1>4. CASE Expire
  BY <1>4, ExpireFetcher
<1>5. ASSUME UNCHANGED <<entries, fetcher, db>>, LostGrows, idle' \in {idle, TRUE}, phase' = phase \/ phase' # "events"
      PROVE  FetcherInv'
  BY <1>5, OthersFetcher
<1>6. CASE (\E s \in Sets : DownloadComplete(s)) \/ (\E s \in Sets : TransferEnds(s)) \/ PaceEnds \/ Refreshed
  BY <1>5, <1>6, LostKept DEF DownloadComplete, TransferEnds, PaceEnds, Refreshed, installer, folders
<1>7. CASE BeginUpdate \/ EndUpdate
  BY <1>5, <1>7, LostKept DEF BeginUpdate, EndUpdate, installer, folders
<1>11. CASE \E m \in Maps : Answer(m)
  BY <1>5, <1>11, LostKept DEF Answer, installer, folders
<1>8. CASE (\E k \in Keys : Work(k)) \/ (\E j \in orphans : WorkAbandoned(j))
  BY <1>5, <1>8, WorkLoses DEF Work, WorkAbandoned
<1>9. CASE UNCHANGED vars
  BY <1>5, <1>9, LostKept DEF vars, folders
<1>10. QED
  BY <1>1, <1>2, <1>3, <1>4, <1>11, <1>6, <1>7, <1>8, <1>9 DEF Next, MainStep

(* The transfer that a fetcher saw is on its way to the database, has been *)
(* imported in this frame, has failed behind another import of the set, or *)
(* did not bring the map.  On screens that tick in every frame.            *)
THEOREM DownloadsFollowed == Attentive => (Spec => []FetcherInv)
<1> SUFFICES ASSUME Attentive PROVE Spec => []FetcherInv
  OBVIOUS
<1>1. Init => InstallerInv /\ FetcherInv
  BY InstallerInit, FetcherInit
<1>2. InstallerInv /\ FetcherInv /\ [Next]_vars => (InstallerInv /\ FetcherInv)'
  BY InstallerStep, FetcherStep
<1>3. QED
  BY <1>1, <1>2, PTL DEF Spec

(* Where the fetcher ticks in every frame, its verdict "mismatch" means    *)
(* that the archive of the server's set lacks the map, that a file was not *)
(* written, or that its install was cancelled or failed unseen behind      *)
(* another import of the set (MapFetcher::tick).                           *)
THEOREM DownloadsMismatchHasAReason == Attentive => (Spec => []MismatchHasAReason)
<1> SUFFICES ASSUME Attentive PROVE Spec => []MismatchHasAReason
  OBVIOUS
<1>1. Spec => []FetcherInv
  BY DownloadsFollowed
<1>2. FetcherInv => MismatchHasAReason
  BY DEF FetcherInv
<1>3. QED
  BY <1>1, <1>2, PTL

(* What was unpacked is imported: a download that is reported done without *)
(* some of its maps is one whose folder was found on disk (try_import), or *)
(* one of whose files could not be written, or was deleted by another      *)
(* extraction that wrote nothing (write_entries_to_dir).                   *)
ImportsWhole ==
  \A i \in DOMAIN entries :
    phase = "update" /\ i = at /\ entries[i].stage = "installing" /\ ~entries[i].fromDisk
      /\ Len(entries') < Len(entries) => Archive[entries[i].key] \subseteq db' \cup lost[entries[i].set]

LEMMA UpdateShortens ==
  ASSUME InstallerInv, [Next]_vars, phase = "update", Len(entries') < Len(entries)
  PROVE  UpdateEntry
<1>1. Len(entries) \in Nat
  BY EntryTypes DEF InstallerInv, Types
<1>2. entries' # entries
  BY <1>1
<1>3. ~Expire
  <2> SUFFICES ASSUME Expire PROVE FALSE
    OBVIOUS
  <2>1. PICK i \in DOMAIN entries : entries' = [entries EXCEPT ![i].stage = "expired"]
    BY DEF Expire
  <2>2. entries \in Seq(ET)
    BY EntryTypes DEF InstallerInv, Types
  <2>3. Len(entries') = Len(entries)
    BY <2>1, <2>2
  <2>4. QED
    BY <1>1, <2>3
<1>4. UpdateEntry \/ UNCHANGED entries
  <2>1. ~Intervene /\ ~Tick
    BY DEF Intervene, Tick
  <2>2. MainStep => UpdateEntry \/ UNCHANGED entries
    BY <2>1 DEF MainStep, DownloadComplete, BeginUpdate, EndUpdate, installer
  <2>3. (\E m \in Maps : Answer(m)) \/ (\E s \in Sets : TransferEnds(s)) \/ PaceEnds \/ Refreshed
          => UNCHANGED entries
    BY DEF Answer, TransferEnds, PaceEnds, Refreshed, installer
  <2>4. (\E k \in Keys : Work(k)) \/ (\E j \in orphans : WorkAbandoned(j)) => UNCHANGED entries
    BY DEF Work, WorkAbandoned
  <2>5. CASE UNCHANGED vars
    BY <2>5 DEF vars
  <2>6. QED
    BY <1>3, <2>1, <2>2, <2>3, <2>4, <2>5 DEF Next
<1>5. QED
  BY <1>2, <1>4

(* Every step of the system imports what was unpacked, but for what was    *)
(* lost.                                                                   *)
THEOREM DownloadsImportWhole == Spec => [][ImportsWhole]_vars
<1>1. InstallerInv /\ [Next]_vars => ImportsWhole
  <2> SUFFICES ASSUME InstallerInv, [Next]_vars, NEW i \in DOMAIN entries,
                      phase = "update", i = at, entries[i].stage = "installing", ~entries[i].fromDisk,
                      Len(entries') < Len(entries)
               PROVE  Archive[entries[i].key] \subseteq db' \cup lost[entries[i].set]
    BY DEF ImportsWhole
  <2>1. UpdateEntry /\ Len(entries) \in Nat /\ entries \in Seq(ET)
    BY UpdateShortens, EntryTypes DEF InstallerInv, Types
  <2>2. Install(entries[at])
    BY <2>1 DEF UpdateEntry, LeaveQueue, Download, MustDownload, Extract, KeepFailed
  <2>3. Archive[entries[at].key] \subseteq Accounted(entries[at].set)
    BY DEF InstallerInv, UnpackedOK
  <2>4. entries' # entries
    BY <2>1
  <2>5. ~(disk[entries[at].set] \in {NoDir, {}})
    <3> SUFFICES ASSUME disk[entries[at].set] \in {NoDir, {}} PROVE FALSE
      OBVIOUS
    <3>1. Len(entries') = Len(entries)
      BY <2>1, <2>2 DEF Install
    <3>2. QED
      BY <2>1, <3>1
  <2>6. db' = db \cup disk[entries[at].set]
    BY <2>2, <2>4, <2>5 DEF Install
  <2>7. QED
    BY <2>3, <2>5, <2>6 DEF Accounted, Contents, folders
<1>2. QED
  BY <1>1, DownloadsInvariance, PTL DEF Spec
=============================================================================
