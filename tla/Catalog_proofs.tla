--------------------------- MODULE Catalog_proofs ---------------------------
(***************************************************************************)
(* Proofs about Catalog, for any number of exporters, registrars, artifacts*)
(* and deaths, with and without overlapping transactions.                  *)
(*                                                                         *)
(* An exporter at work is ahead of the watermark, so the watermark is that *)
(* of the newest artifact only while nobody exports; and what an exporter  *)
(* has read is the table as long as its maximum is the newest, for every   *)
(* later commit is newer.  The histories follow the completed jobs, which  *)
(* only a late failure takes from the table: it makes them say less of a   *)
(* profile, and what they still have to say stays true.                    *)
(***************************************************************************)
EXTENDS Catalog, TLAPS

Exporting == {"file1", "file2", "file3", "file4", "history", "watermark"}
FilePc    == {"file1", "file2", "file3", "file4"}

Entry == Int \union Registrar
\* What an exporter may read as the newest id.
Mark  == {Newest(S) : S \in SUBSET Int}
Proc  == [pc : {"idle", "rows"} \union Exporting, max : Mark, rows : SUBSET Entry]

Typed ==
  /\ ids \in 0 .. MaxArtifacts
  /\ open \subseteq 1 .. ids /\ artifacts \subseteq 1 .. ids /\ artifacts \intersect open = {}
  /\ completed \subseteq artifacts
  /\ files \in [File -> SUBSET Entry]
  /\ deaths \in Nat /\ raced \in BOOLEAN /\ inverted \in BOOLEAN
  /\ proc \in [Process -> Proc]
  /\ \A p \in Registrar : proc[p].pc \in {"idle"} \union FilePc

\* How many of the files have been written at pc.
Written(pc) == CASE pc = "file2" -> 1 [] pc = "file3" -> 2 [] pc = "file4" -> 3
                 [] pc \in {"history", "watermark"} -> 4 [] OTHER -> 0

Top == Newest(artifacts)

AtMostOne == ~raced => \A p, q \in Process : proc[p].pc # "idle" /\ proc[q].pc # "idle" => p = q

\* Artifacts that commit in order have a newest one, which nobody is ahead of.
Ordered ==
  ~inverted =>
    /\ artifacts = {} \/ \E m \in artifacts : \A x \in artifacts : x <= m
    /\ watermark \in Int /\ watermark <= Top
    /\ \A p \in Exporter : proc[p].pc # "idle" => proc[p].max \in Int /\ proc[p].max <= Top

ExportSound ==
  ~raced /\ ~inverted => \A p \in Exporter : proc[p].pc # "idle" =>
    /\ watermark < proc[p].max
    /\ \A i \in File : i <= Written(proc[p].pc) => files[i] = proc[p].rows
    /\ proc[p].pc # "rows" /\ proc[p].max = Top => proc[p].rows = artifacts
    /\ proc[p].pc = "watermark" /\ proc[p].max = Top => HistoriesAreExact

Exact ==
  ~raced /\ ~inverted /\ watermark = Top =>
    /\ \A i \in File : files[i] \ Registrar = artifacts
    /\ HistoriesAreExact
    /\ \A p \in Registrar : proc[p].pc # "idle" => proc[p].rows \ Registrar = artifacts

\* The files before and after the place of the one that is writing.
Agree ==
  deaths = 0 /\ ~raced =>
    /\ (\A p \in Process : proc[p].pc = "idle") => \A i, j \in File : files[i] = files[j]
    /\ \A p \in Process : proc[p].pc # "idle" =>
         /\ \A i \in File : i <= Written(proc[p].pc) => files[i] = proc[p].rows
         /\ \A i, j \in File : i > Written(proc[p].pc) /\ j > Written(proc[p].pc) => files[i] = files[j]

\* A history file is that of a profile with an artifact: one that is replaced
\* is replaced by one of its own profile.
Profiled == \A h \in history : \E a \in artifacts : ProfileOf[a] = ProfileOf[h]

CatalogInv == Typed /\ Profiled /\ AtMostOne /\ Ordered /\ ExportSound /\ Exact /\ Agree

-----------------------------------------------------------------------------
\* Newest is the greatest element where there is one.
LEMMA NewestIs ==
  ASSUME NEW S, S \subseteq Int, NEW m \in S, \A x \in S : x <= m
  PROVE  Newest(S) = m
  <1>1. \A y \in S : m >= y
    OBVIOUS
  <1>2. Max(S) \in S /\ \A y \in S : Max(S) >= y
    BY <1>1 DEF Max
  <1>3. Max(S) = m
    <2> DEFINE g == Max(S)
    <2>1. g \in Int /\ g <= m /\ m <= g /\ m \in Int
      BY <1>2
    <2> HIDE DEF g
    <2>2. g = m
      BY <2>1
    <2> QED BY <2>2 DEF g
  <1> QED BY <1>3 DEF Newest

LEMMA NewestOfNone == Newest({}) = 0
  BY DEF Newest

LEMMA TopIsInt ==
  ASSUME Typed, Ordered, ~inverted
  PROVE  /\ Top \in Int /\ (\A x \in artifacts : x <= Top)
         /\ IF artifacts = {} THEN Top = 0 ELSE Top \in artifacts
  <1>1. artifacts \subseteq Int
    BY DEF Typed
  <1>2. CASE artifacts = {}
    BY <1>2, NewestOfNone DEF Top
  <1>3. CASE artifacts # {}
    <2>1. PICK m \in artifacts : \A x \in artifacts : x <= m
      BY <1>3 DEF Ordered
    <2>2. Top = m
      BY <1>1, <2>1, NewestIs DEF Top
    <2> QED BY <1>1, <1>3, <2>1, <2>2
  <1> QED BY <1>2, <1>3

\* What the histories say is not disturbed by whatever leaves the table alone.
LEMMA HistoriesKept ==
  ASSUME UNCHANGED <<artifacts, completed, history>>
  PROVE  (HistoriesAreExact' <=> HistoriesAreExact) /\ (Profiled' <=> Profiled)
  BY DEF HistoriesAreExact, Of, Profiled

LEMMA CatalogInit == Init => CatalogInv
  <1> SUFFICES ASSUME Init PROVE CatalogInv OBVIOUS
  <1>1. \A p \in Process : proc[p].pc = "idle"
    BY DEF Init, Idle
  <1>2. Typed
    <2>1. Idle \in Proc
      BY NewestOfNone DEF Idle, Proc, Mark
    <2>2. proc \in [Process -> Proc] /\ \A p \in Registrar : proc[p].pc = "idle"
      BY <1>1, <2>1 DEF Init, Process
    <2>3. files \in [File -> SUBSET Entry]
      BY DEF Init
    <2>4. ids = 0 /\ open = {} /\ artifacts = {} /\ completed = {} /\ deaths = 0 /\ ~raced /\ ~inverted
      BY DEF Init
    <2>5. MaxArtifacts \in Nat
      BY CatalogAssumption
    <2>6. raced \in BOOLEAN /\ inverted \in BOOLEAN
      BY DEF Init
    <2> QED BY <2>2, <2>3, <2>4, <2>5, <2>6 DEF Typed
  <1>3. Top = 0
    BY NewestOfNone DEF Init, Top
  <1>4. Ordered
    BY <1>1, <1>3 DEF Init, Ordered, Process
  <1>5. ExportSound /\ AtMostOne
    BY <1>1 DEF ExportSound, AtMostOne, Process
  <1>6. Exact /\ Profiled
    BY <1>3 DEF Init, Exact, Profiled
  <1>7. Agree
    BY <1>1 DEF Init, Agree
  <1> QED BY <1>2, <1>4, <1>5, <1>6, <1>7 DEF CatalogInv

-----------------------------------------------------------------------------
\* Workers.  A commit in order is newer than everything anybody has read.
LEMMA InsertStep == CatalogInv /\ Insert => CatalogInv'
  <1> SUFFICES ASSUME CatalogInv, Insert PROVE CatalogInv' OBVIOUS
  <1>1. Typed'
    BY CatalogAssumption DEF CatalogInv, Typed, Insert
  <1>2. UNCHANGED <<artifacts, completed, files, history, watermark, proc, deaths, raced, inverted>>
    BY DEF Insert
  <1>3. Top' = Top
    BY <1>2 DEF Top
  <1>4. (HistoriesAreExact' <=> HistoriesAreExact) /\ (Profiled' <=> Profiled)
    BY <1>2, HistoriesKept
  <1> QED BY <1>1, <1>2, <1>3, <1>4 DEF CatalogInv, AtMostOne, Ordered, ExportSound, Exact, Agree

LEMMA CommitStep ==
  ASSUME NEW a \in open, CatalogInv, Commit(a)
  PROVE  CatalogInv'
  <1>1. /\ UNCHANGED <<ids, files, history, watermark, proc, deaths, raced>> /\ open' = open \ {a}
        /\ inverted' = (inverted \/ a < Top)
    BY DEF Commit, Top
  <1>2. PICK old \in SUBSET artifacts :
          /\ artifacts' = (artifacts \ old) \union {a}
          /\ completed' = (completed \ old) \union {a}
          /\ \A b \in old : ProfileOf[b] = ProfileOf[a]
    BY DEF Commit
  <1>3. Typed'
    <2>1. /\ open' \subseteq 1 .. ids /\ artifacts' \subseteq 1 .. ids /\ artifacts' \intersect open' = {}
      BY <1>1, <1>2 DEF CatalogInv, Typed
    <2>2. inverted' \in BOOLEAN
      BY <1>1
    <2>3. completed' \subseteq artifacts'
      BY <1>2 DEF CatalogInv, Typed
    <2> QED BY <1>1, <2>1, <2>2, <2>3 DEF CatalogInv, Typed
  <1>10. Profiled'
    BY <1>1, <1>2 DEF CatalogInv, Profiled
  <1>4. AtMostOne' /\ Agree'
    BY <1>1 DEF CatalogInv, AtMostOne, Agree
  <1>5. ASSUME ~inverted' PROVE ~inverted /\ Top \in Int /\ Top < a /\ Top' = a
    <2>1. ~inverted /\ ~(a < Top)
      BY <1>1, <1>5
    <2>2. /\ Top \in Int /\ \A x \in artifacts : x <= Top
          /\ IF artifacts = {} THEN Top = 0 ELSE Top \in artifacts
      BY <2>1, TopIsInt DEF CatalogInv
    <2>3. a \in Int /\ a > 0 /\ a \notin artifacts /\ artifacts \subseteq Int
      BY DEF CatalogInv, Typed
    <2>4. Top < a
      BY <2>1, <2>2, <2>3
    <2>5. artifacts' \subseteq Int /\ a \in artifacts' /\ \A x \in artifacts' : x <= a
      BY <1>2, <2>2, <2>3, <2>4
    <2>6. Top' = a
      BY <2>5, NewestIs DEF Top
    <2> QED BY <2>1, <2>2, <2>4, <2>6
  <1>6. Ordered'
    <2> SUFFICES ASSUME ~inverted'
                 PROVE  /\ artifacts' = {} \/ \E m \in artifacts' : \A x \in artifacts' : x <= m
                        /\ watermark' \in Int /\ watermark' <= Top'
                        /\ \A p \in Exporter : proc'[p].pc # "idle" => proc'[p].max \in Int /\ proc'[p].max <= Top'
      BY DEF Ordered
    <2>1. ~inverted /\ Top \in Int /\ Top < a /\ Top' = a /\ a \in Int
      BY <1>5 DEF CatalogInv, Typed
    <2>2. \A x \in artifacts : x <= Top /\ x \in Int
      BY <2>1, TopIsInt DEF CatalogInv, Typed
    <2>3. \A x \in artifacts' : x <= a
      BY <1>2, <2>1, <2>2
    <2>4. watermark <= Top /\ watermark \in Int
      BY <2>1 DEF CatalogInv, Ordered
    <2>5. \A p \in Exporter : proc[p].pc # "idle" => proc[p].max \in Int /\ proc[p].max <= Top
      BY <2>1 DEF CatalogInv, Ordered
    <2> QED BY <1>1, <1>2, <2>1, <2>3, <2>4, <2>5
  <1>7. ASSUME ~inverted' PROVE /\ watermark' # Top'
                                /\ \A p \in Exporter : proc[p].pc # "idle" => proc[p].max # Top'
    <2>1. ~inverted /\ Top \in Int /\ Top < a /\ Top' = a /\ a \in Int
      BY <1>5, <1>7 DEF CatalogInv, Typed
    <2>2. watermark <= Top /\ watermark \in Int
      BY <2>1 DEF CatalogInv, Ordered
    <2>3. \A p \in Exporter : proc[p].pc # "idle" => proc[p].max \in Int /\ proc[p].max <= Top
      BY <2>1 DEF CatalogInv, Ordered
    <2> QED BY <1>1, <2>1, <2>2, <2>3
  <1>8. ExportSound'
    BY <1>1, <1>5, <1>7 DEF CatalogInv, ExportSound
  <1>9. Exact'
    BY <1>7 DEF Exact
  <1> QED BY <1>3, <1>4, <1>6, <1>8, <1>9, <1>10 DEF CatalogInv

\* A failure that is reported late moves nothing that an exporter has read, and
\* the histories have to say less of the profile.
LEMMA LateFailureStep ==
  ASSUME NEW a \in completed, CatalogInv, LateFailure(a)
  PROVE  CatalogInv'
  <1>1. /\ UNCHANGED <<ids, open, artifacts, files, history, watermark, proc, deaths, raced, inverted>>
        /\ completed' = completed \ {a}
    BY DEF LateFailure
  <1>2. Top' = Top
    BY <1>1 DEF Top
  <1>3. Typed' /\ Profiled'
    BY <1>1 DEF CatalogInv, Typed, Profiled
  <1>4. HistoriesAreExact => HistoriesAreExact'
    BY <1>1 DEF HistoriesAreExact, Of
  <1> QED BY <1>1, <1>2, <1>3, <1>4 DEF CatalogInv, AtMostOne, Ordered, ExportSound, Exact, Agree

-----------------------------------------------------------------------------
\* p is alone at work.
OthersIdle(p) == \A q \in Process : q # p => proc[q].pc = "idle"

LEMMA WorksAlone ==
  ASSUME NEW p \in Process, CatalogInv, ~raced, proc[p].pc # "idle"
  PROVE  OthersIdle(p)
  BY DEF CatalogInv, AtMostOne, OthersIdle

Puts(p, r) == proc' \in [Process -> Proc] /\ \A q \in Process : proc'[q] = IF q = p THEN r ELSE proc[q]

\* p moves to r, in turn unless raced is noted.
Moves(p, r) ==
  /\ r \in Proc /\ Puts(p, r)
  /\ raced' \in BOOLEAN /\ (~raced' => ~raced /\ OthersIdle(p))

LEMMA MovedTyped ==
  ASSUME NEW p \in Process, NEW r, CatalogInv, Moves(p, r),
         UNCHANGED <<ids, open, artifacts, completed, inverted>>, deaths' \in Nat,
         files' \in [File -> SUBSET Entry], p \in Registrar => r.pc \in {"idle"} \union FilePc
  PROVE  /\ Typed' /\ AtMostOne' /\ Top' = Top
         /\ \A q \in Process : proc'[q] = IF q = p THEN r ELSE proc[q]
  <1>1. \A q \in Process : proc'[q] = IF q = p THEN r ELSE proc[q]
    BY DEF Moves, Puts
  <1>2. proc' \in [Process -> Proc]
    BY DEF Moves, Puts
  <1>3. \A q \in Registrar : proc'[q].pc \in {"idle"} \union FilePc
    BY <1>1 DEF CatalogInv, Typed, Process
  <1>4. Typed'
    BY <1>2, <1>3 DEF Moves, CatalogInv, Typed
  <1>5. AtMostOne'
    BY <1>1 DEF Moves, OthersIdle, AtMostOne
  <1>6. Top' = Top
    BY DEF Top
  <1> QED BY <1>1, <1>4, <1>5, <1>6

\* What is left to show of a step of p: its own part of each invariant.
LEMMA MovedSound ==
  ASSUME NEW p \in Process, NEW r, CatalogInv, Moves(p, r),
         UNCHANGED <<ids, open, artifacts, completed, inverted>>, deaths' \in Nat,
         files' \in [File -> SUBSET Entry], p \in Registrar => r.pc \in {"idle"} \union FilePc,
         Profiled',
         ~inverted => /\ watermark' \in Int /\ watermark' <= Top
                      /\ p \in Exporter /\ r.pc # "idle" => r.max \in Int /\ r.max <= Top,
         ~raced' /\ ~inverted /\ p \in Exporter /\ r.pc # "idle" =>
           /\ watermark' < r.max
           /\ \A i \in File : i <= Written(r.pc) => files'[i] = r.rows
           /\ r.pc # "rows" /\ r.max = Top => r.rows = artifacts
           /\ r.pc = "watermark" /\ r.max = Top => HistoriesAreExact',
         ~raced' /\ ~inverted /\ watermark' = Top =>
           /\ \A i \in File : files'[i] \ Registrar = artifacts
           /\ HistoriesAreExact'
           /\ p \in Registrar /\ r.pc # "idle" => r.rows \ Registrar = artifacts,
         deaths' = 0 /\ ~raced' =>
           /\ r.pc = "idle" => \A i, j \in File : files'[i] = files'[j]
           /\ r.pc # "idle" =>
                /\ \A i \in File : i <= Written(r.pc) => files'[i] = r.rows
                /\ \A i, j \in File : i > Written(r.pc) /\ j > Written(r.pc) => files'[i] = files'[j]
  PROVE  CatalogInv'
  <1>1. /\ Typed' /\ AtMostOne' /\ Top' = Top /\ inverted' = inverted /\ artifacts' = artifacts
        /\ \A q \in Process : proc'[q] = IF q = p THEN r ELSE proc[q]
    BY MovedTyped
  <1>2. Ordered'
    BY <1>1 DEF CatalogInv, Ordered, Process
  <1>3. ASSUME ~raced' PROVE \A q \in Process : q # p => proc'[q].pc = "idle"
    BY <1>1, <1>3 DEF Moves, OthersIdle
  <1>4. proc'[p] = r
    BY <1>1
  <1>5. ExportSound'
    BY <1>1, <1>3, <1>4 DEF ExportSound, Process
  <1>6. Exact'
    BY <1>1, <1>3, <1>4 DEF Exact, Process
  <1>7. Agree'
    BY <1>3, <1>4 DEF Agree
  <1> QED BY <1>1, <1>2, <1>5, <1>6, <1>7 DEF CatalogInv

\* A step of p that writes no history.
LEMMA MovedQuietly ==
  ASSUME CatalogInv, UNCHANGED <<artifacts, completed, history>>
  PROVE  Profiled' /\ (HistoriesAreExact' <=> HistoriesAreExact)
  BY HistoriesKept DEF CatalogInv

-----------------------------------------------------------------------------
LEMMA CheckStep ==
  ASSUME NEW p \in Exporter, CatalogInv, ExportCheck(p)
  PROVE  CatalogInv'
  <1>1. /\ proc[p].pc = "idle" /\ watermark # Top /\ raced' = (raced \/ ~Alone(p))
        /\ proc' = [proc EXCEPT ![p].pc = "rows", ![p].max = Top]
        /\ UNCHANGED <<ids, open, artifacts, completed, files, history, watermark, deaths, inverted>>
    BY DEF ExportCheck, Due, Top
  <1>2. p \in Process /\ p \notin Registrar /\ proc[p] \in Proc
    BY CatalogAssumption DEF CatalogInv, Typed, Process
  <1>3. Top \in Mark
    BY DEF Top, Mark, CatalogInv, Typed
  <1>4. PICK r : /\ r \in Proc /\ Puts(p, r) /\ r.pc = "rows" /\ r.max = Top
    <2> DEFINE n == [proc[p] EXCEPT !.pc = "rows", !.max = Top]
    <2>1. n \in Proc /\ n.pc = "rows" /\ n.max = Top
      BY <1>2, <1>3 DEF Proc
    <2>2. proc \in [Process -> Proc]
      BY DEF CatalogInv, Typed
    <2>3. DOMAIN proc' = Process /\ \A q \in Process : q # p => proc'[q] = proc[q]
      BY <1>1, <1>2, <2>2
    <2>4. proc'[p] = [proc[p] EXCEPT !.pc = "rows", !.max = Top]
      BY <1>1, <1>2, <2>2 DEF Proc
    <2>5. proc' = [q \in Process |-> proc'[q]]
      BY <1>1, <2>2
    <2>6. Puts(p, n)
      BY <1>2, <2>1, <2>2, <2>3, <2>4, <2>5 DEF Puts
    <2> HIDE DEF n
    <2> QED BY <2>1, <2>6
  <1>5. raced' \in BOOLEAN /\ (~raced' => ~raced /\ OthersIdle(p))
    BY <1>1 DEF OthersIdle, Alone
  <1>6. Moves(p, r)
    BY <1>4, <1>5 DEF Moves
  <1>7. ASSUME ~inverted PROVE /\ Top \in Int /\ watermark \in Int /\ watermark <= Top /\ watermark < Top
    BY <1>1, <1>7, TopIsInt DEF CatalogInv, Ordered
  <1>8. ASSUME deaths' = 0, ~raced' PROVE \A i, j \in File : files[i] = files[j]
    BY <1>1, <1>5, <1>8 DEF CatalogInv, Agree, OthersIdle
  <1>9. Written(r.pc) = 0 /\ \A i \in File : ~(i <= 0)
    BY <1>4 DEF Written, File
  <1>10. deaths' \in Nat /\ files' \in [File -> SUBSET Entry]
    BY <1>1 DEF CatalogInv, Typed
  <1>11. \A i \in File : ~(i <= Written(r.pc))
    BY <1>9
  <1> QED BY <1>1, <1>2, <1>4, <1>6, <1>7, <1>8, <1>10, <1>11, MovedQuietly, MovedSound

LEMMA SelectStep ==
  ASSUME NEW p \in Exporter, CatalogInv, ExportSelect(p)
  PROVE  CatalogInv'
  <1>1. /\ proc[p].pc = "rows"
        /\ proc' = [proc EXCEPT ![p].pc = "file1", ![p].rows = artifacts]
        /\ UNCHANGED <<ids, open, artifacts, completed, files, history, watermark, deaths, raced, inverted>>
    BY DEF ExportSelect
  <1>2. p \in Process /\ p \notin Registrar /\ proc[p] \in Proc /\ proc[p].pc # "idle"
    BY <1>1, CatalogAssumption DEF CatalogInv, Typed, Process
  <1>3. artifacts \subseteq Entry
    BY DEF CatalogInv, Typed, Entry
  <1>4. PICK r : /\ r \in Proc /\ Puts(p, r) /\ r.pc = "file1" /\ r.max = proc[p].max
                 /\ r.rows = artifacts
    <2> DEFINE n == [proc[p] EXCEPT !.pc = "file1", !.rows = artifacts]
    <2>1. n \in Proc /\ n.pc = "file1" /\ n.max = proc[p].max /\ n.rows = artifacts
      BY <1>2, <1>3 DEF Proc, Exporting
    <2>2. proc \in [Process -> Proc]
      BY DEF CatalogInv, Typed
    <2>3. Puts(p, n)
      BY <1>1, <1>2, <2>1, <2>2 DEF Proc, Puts
    <2> HIDE DEF n
    <2> QED BY <2>1, <2>3
  <1>5. Moves(p, r)
    BY <1>1, <1>2, <1>4, WorksAlone DEF Moves, CatalogInv, Typed
  <1>6. ASSUME ~inverted PROVE watermark \in Int /\ watermark <= Top /\ r.max \in Int /\ r.max <= Top
    BY <1>2, <1>4, <1>6 DEF CatalogInv, Ordered
  <1>7. ASSUME ~raced', ~inverted PROVE watermark < r.max /\ watermark # Top
    <2>1. Top \in Int
      BY <1>7, TopIsInt DEF CatalogInv
    <2>2. watermark < r.max
      BY <1>1, <1>2, <1>4, <1>7 DEF CatalogInv, ExportSound
    <2> QED BY <2>1, <2>2, <1>6, <1>7
  <1>8. Written(r.pc) = 0 /\ Written(proc[p].pc) = 0 /\ \A i \in File : ~(i <= 0) /\ i > 0
    BY <1>1, <1>4 DEF Written, File
  <1>9. ASSUME deaths' = 0, ~raced' PROVE \A i, j \in File : files[i] = files[j]
    BY <1>1, <1>2, <1>8, <1>9 DEF CatalogInv, Agree
  <1> QED BY <1>1, <1>2, <1>4, <1>5, <1>6, <1>7, <1>8, <1>9, MovedQuietly, MovedSound DEF CatalogInv, Typed

\* The labels of the files in turn.
LEMMA PlaceOfFile ==
  ASSUME NEW i \in File, NEW p \in Process, proc[p].pc = <<"file1", "file2", "file3", "file4">>[i]
  PROVE  /\ Written(proc[p].pc) = i - 1 /\ Written(PcAfter(i)) = i
         /\ PcAfter(i) \in Exporting \ {"watermark"} /\ (i # 4 => PcAfter(i) \in FilePc)
         /\ proc[p].pc \in FilePc
  <1>1. i = 1 \/ i = 2 \/ i = 3 \/ i = 4
    BY DEF File
  <1>2. CASE i = 1
    BY <1>2 DEF Written, PcAfter, Exporting, FilePc
  <1>3. CASE i = 2
    BY <1>3 DEF Written, PcAfter, Exporting, FilePc
  <1>4. CASE i = 3
    BY <1>4 DEF Written, PcAfter, Exporting, FilePc
  <1>5. CASE i = 4
    BY <1>5 DEF Written, PcAfter, Exporting, FilePc
  <1> QED BY <1>1, <1>2, <1>3, <1>4, <1>5

LEMMA FileStep ==
  ASSUME NEW p \in Process, NEW i \in File, CatalogInv, WriteFile(p, i)
  PROVE  CatalogInv'
  <1>1. /\ proc[p].pc = <<"file1", "file2", "file3", "file4">>[i]
        /\ files' = [files EXCEPT ![i] = proc[p].rows]
        /\ proc' = IF i = 4 /\ p \in Registrar THEN [proc EXCEPT ![p] = Idle]
                   ELSE [proc EXCEPT ![p].pc = PcAfter(i)]
        /\ UNCHANGED <<ids, open, artifacts, completed, history, watermark, deaths, raced, inverted>>
    BY DEF WriteFile
  <1>2. /\ Written(proc[p].pc) = i - 1 /\ Written(PcAfter(i)) = i
        /\ PcAfter(i) \in Exporting \ {"watermark"} /\ (i # 4 => PcAfter(i) \in FilePc)
        /\ proc[p].pc \in FilePc
    BY <1>1, PlaceOfFile
  <1>3. proc[p] \in Proc /\ proc \in [Process -> Proc] /\ files \in [File -> SUBSET Entry] /\ i \in Int
    BY DEF CatalogInv, Typed, File
  <1>4. proc[p].pc # "idle" /\ proc[p].pc # "rows"
    BY <1>2 DEF FilePc
  <1>5. PICK r : /\ r \in Proc /\ Puts(p, r)
                 /\ IF i = 4 /\ p \in Registrar THEN r.pc = "idle"
                    ELSE r.pc = PcAfter(i) /\ r.max = proc[p].max /\ r.rows = proc[p].rows
    <2>1. CASE i = 4 /\ p \in Registrar
      <3>1. Idle \in Proc /\ Idle.pc = "idle"
        BY NewestOfNone DEF Idle, Proc, Mark
      <3>2. Puts(p, Idle)
        BY <1>1, <1>3, <2>1, <3>1 DEF Puts
      <3> QED BY <2>1, <3>1, <3>2
    <2>2. CASE ~(i = 4 /\ p \in Registrar)
      <3> DEFINE n == [proc[p] EXCEPT !.pc = PcAfter(i)]
      <3>1. n \in Proc /\ n.pc = PcAfter(i) /\ n.max = proc[p].max /\ n.rows = proc[p].rows
        BY <1>2, <1>3 DEF Proc
      <3>2. proc' = [proc EXCEPT ![p] = n]
        BY <1>1, <1>3, <2>2
      <3> HIDE DEF n
      <3>3. Puts(p, n)
        BY <1>3, <3>1, <3>2 DEF Puts
      <3> QED BY <2>2, <3>1, <3>3
    <2> QED BY <2>1, <2>2
  <1>6. Moves(p, r)
    BY <1>1, <1>4, <1>5, WorksAlone DEF Moves, CatalogInv, Typed
  <1>7. /\ deaths' \in Nat /\ files' \in [File -> SUBSET Entry]
        /\ p \in Registrar => r.pc \in {"idle"} \union FilePc
    <2>1. proc[p].rows \in SUBSET Entry
      BY <1>3 DEF Proc
    <2> QED BY <1>1, <1>2, <1>3, <1>5, <2>1 DEF CatalogInv, Typed
  <1>8. \A k \in File : files'[k] = IF k = i THEN proc[p].rows ELSE files[k]
    BY <1>1, <1>3
  <1>9. r.pc # "idle" => r.pc = PcAfter(i) /\ r.max = proc[p].max /\ r.rows = proc[p].rows
    BY <1>5
  <1>10. ASSUME ~inverted
         PROVE  /\ watermark \in Int /\ watermark <= Top
                /\ p \in Exporter /\ r.pc # "idle" => r.max \in Int /\ r.max <= Top
    BY <1>4, <1>9, <1>10 DEF CatalogInv, Ordered
  <1>11. ASSUME ~raced, ~inverted, p \in Exporter
         PROVE  /\ watermark < proc[p].max /\ watermark # Top
                /\ \A k \in File : k <= i - 1 => files[k] = proc[p].rows
                /\ proc[p].max = Top => proc[p].rows = artifacts
    <2>1. /\ watermark < proc[p].max
          /\ \A k \in File : k <= i - 1 => files[k] = proc[p].rows
          /\ proc[p].max = Top => proc[p].rows = artifacts
      BY <1>2, <1>4, <1>11 DEF CatalogInv, ExportSound
    <2>2. Top \in Int /\ proc[p].max \in Int /\ proc[p].max <= Top /\ watermark \in Int
      BY <1>4, <1>11, TopIsInt DEF CatalogInv, Ordered
    <2> QED BY <2>1, <2>2
  <1>12. ASSUME ~raced', ~inverted, p \in Exporter, r.pc # "idle"
         PROVE  /\ watermark < r.max
                /\ \A k \in File : k <= Written(r.pc) => files'[k] = r.rows
                /\ r.max = Top => r.rows = artifacts
                /\ r.pc # "watermark"
    <2>1. ~raced
      BY <1>1, <1>12
    <2>2. \A k \in File : k <= i => k = i \/ k <= i - 1
      BY <1>3 DEF File
    <2> QED BY <1>2, <1>8, <1>9, <1>11, <1>12, <2>1, <2>2
  <1>13. ASSUME ~raced', ~inverted, watermark' = Top
         PROVE  /\ \A k \in File : files'[k] \ Registrar = artifacts
                /\ HistoriesAreExact'
                /\ p \in Registrar /\ r.pc # "idle" => r.rows \ Registrar = artifacts
    <2>1. ~raced /\ watermark = Top /\ p \in Registrar
      BY <1>1, <1>11, <1>13 DEF Process
    <2>2. /\ \A k \in File : files[k] \ Registrar = artifacts
          /\ HistoriesAreExact /\ proc[p].rows \ Registrar = artifacts
      BY <1>4, <1>13, <2>1 DEF CatalogInv, Exact
    <2> QED BY MovedQuietly, <1>1, <1>8, <1>9, <2>2
  <1>14. ASSUME deaths' = 0, ~raced'
         PROVE  /\ r.pc = "idle" => \A j, k \in File : files'[j] = files'[k]
                /\ r.pc # "idle" =>
                     /\ \A k \in File : k <= Written(r.pc) => files'[k] = r.rows
                     /\ \A j, k \in File : j > Written(r.pc) /\ k > Written(r.pc) => files'[j] = files'[k]
    <2>1. /\ \A k \in File : k <= i - 1 => files[k] = proc[p].rows
          /\ \A j, k \in File : j > i - 1 /\ k > i - 1 => files[j] = files[k]
      BY <1>1, <1>2, <1>4, <1>14 DEF CatalogInv, Agree
    <2>2. \A k \in File : (k <= i <=> k = i \/ k <= i - 1) /\ (k > i => k > i - 1 /\ k # i)
      BY <1>3 DEF File
    <2>3. \A k \in File : k <= i => files'[k] = proc[p].rows
      BY <1>8, <2>1, <2>2
    <2>4. \A j, k \in File : j > i /\ k > i => files'[j] = files'[k]
      BY <1>8, <2>1, <2>2
    <2>5. CASE r.pc # "idle"
      BY <1>2, <1>9, <2>3, <2>4, <2>5
    <2>6. CASE r.pc = "idle"
      <3>1. i = 4
        BY <1>2, <1>5, <2>6 DEF Exporting
      <3>2. \A k \in File : k <= i
        BY <3>1 DEF File
      <3> QED BY <2>3, <2>6, <3>2
    <2> QED BY <2>5, <2>6
  <1> QED BY <1>1, <1>6, <1>7, <1>10, <1>12, <1>13, <1>14, MovedQuietly, MovedSound

\* What is written is exact, whatever was in the files before.
LEMMA HistoryWritten ==
  ASSUME NEW p, CatalogInv, WriteHistory(p)
  PROVE  HistoriesAreExact' /\ Profiled'
  <1>1. /\ UNCHANGED <<artifacts, completed>> /\ completed \subseteq artifacts /\ Profiled
        /\ history' = completed \union {h \in history : \A a \in completed : ProfileOf[a] # ProfileOf[h]}
    BY DEF WriteHistory, CatalogInv, Typed
  <1>2. Profiled'
    BY <1>1 DEF Profiled
  <1>3. ASSUME NEW f \in Profile, Of(f, artifacts) \subseteq completed
        PROVE  Of(f, history') = Of(f, artifacts)
    <2>1. CASE Of(f, artifacts) = {}
      BY <1>1, <1>2, <2>1 DEF Of, Profiled
    <2>2. CASE Of(f, artifacts) # {}
      <3>1. PICK b \in completed : ProfileOf[b] = f
        BY <1>3, <2>2 DEF Of
      <3>2. \A h \in history' : ProfileOf[h] = f => h \in completed
        BY <1>1, <3>1
      <3> QED BY <1>1, <1>3, <3>2 DEF Of
    <2> QED BY <2>1, <2>2
  <1>4. HistoriesAreExact'
    BY <1>1, <1>3 DEF HistoriesAreExact, Of
  <1> QED BY <1>2, <1>4

LEMMA HistoryStep ==
  ASSUME NEW p \in Exporter, CatalogInv, WriteHistory(p)
  PROVE  CatalogInv'
  <1>1. /\ proc[p].pc = "history" /\ history' = completed \union {h \in history : \A a \in completed : ProfileOf[a] # ProfileOf[h]}
        /\ proc' = [proc EXCEPT ![p].pc = "watermark"]
        /\ UNCHANGED <<ids, open, artifacts, completed, files, watermark, deaths, raced, inverted>>
    BY DEF WriteHistory
  <1>2. p \in Process /\ p \notin Registrar /\ proc[p] \in Proc /\ proc[p].pc # "idle" /\ proc \in [Process -> Proc]
    BY <1>1, CatalogAssumption DEF CatalogInv, Typed, Process
  <1>3. PICK r : /\ r \in Proc /\ Puts(p, r) /\ r.pc = "watermark" /\ r.max = proc[p].max
                 /\ r.rows = proc[p].rows
    <2> DEFINE n == [proc[p] EXCEPT !.pc = "watermark"]
    <2>1. n \in Proc /\ n.pc = "watermark" /\ n.max = proc[p].max /\ n.rows = proc[p].rows
      BY <1>2 DEF Proc, Exporting
    <2>2. proc' = [proc EXCEPT ![p] = n]
      BY <1>1, <1>2
    <2> HIDE DEF n
    <2>3. Puts(p, n)
      BY <1>2, <2>1, <2>2 DEF Puts
    <2> QED BY <2>1, <2>3
  <1>4. Moves(p, r) /\ deaths' \in Nat /\ files' \in [File -> SUBSET Entry]
    BY <1>1, <1>2, <1>3, WorksAlone DEF Moves, CatalogInv, Typed
  <1>5. Written(r.pc) = Written(proc[p].pc)
    BY <1>1, <1>3 DEF Written
  <1>6. ASSUME ~inverted PROVE watermark \in Int /\ watermark <= Top /\ r.max \in Int /\ r.max <= Top
    BY <1>2, <1>3, <1>6 DEF CatalogInv, Ordered
  <1>7. ASSUME ~raced', ~inverted
        PROVE  /\ watermark < r.max /\ watermark # Top
               /\ \A k \in File : k <= Written(r.pc) => files[k] = r.rows
               /\ r.max = Top => r.rows = artifacts
    <2>1. /\ watermark < r.max
          /\ \A k \in File : k <= Written(r.pc) => files[k] = r.rows
          /\ r.max = Top => r.rows = artifacts
      BY <1>1, <1>2, <1>3, <1>5, <1>7 DEF CatalogInv, ExportSound
    <2>2. Top \in Int
      BY <1>7, TopIsInt DEF CatalogInv
    <2> QED BY <1>6, <1>7, <2>1, <2>2
  <1>8. ASSUME deaths' = 0, ~raced'
        PROVE  /\ \A k \in File : k <= Written(r.pc) => files[k] = r.rows
               /\ \A j, k \in File : j > Written(r.pc) /\ k > Written(r.pc) => files[j] = files[k]
    BY <1>1, <1>2, <1>3, <1>5, <1>8 DEF CatalogInv, Agree
  <1> QED BY <1>1, <1>2, <1>3, <1>4, <1>6, <1>7, <1>8, HistoryWritten, MovedSound

\* A process that ends at Idle.
LEMMA IdleMoves ==
  ASSUME NEW p \in Process, CatalogInv, proc' = [proc EXCEPT ![p] = Idle], proc[p].pc # "idle", raced' = raced
  PROVE  Moves(p, Idle) /\ Idle.pc = "idle"
  <1>1. Idle \in Proc /\ Idle.pc = "idle"
    BY NewestOfNone DEF Idle, Proc, Mark
  <1>2. Puts(p, Idle)
    BY <1>1 DEF Puts, CatalogInv, Typed
  <1> QED BY <1>1, <1>2, WorksAlone DEF Moves, CatalogInv, Typed

LEMMA WatermarkStep ==
  ASSUME NEW p \in Exporter, CatalogInv, WriteWatermark(p)
  PROVE  CatalogInv'
  <1>1. /\ proc[p].pc = "watermark" /\ watermark' = proc[p].max /\ proc' = [proc EXCEPT ![p] = Idle]
        /\ UNCHANGED <<ids, open, artifacts, completed, files, history, deaths, raced, inverted>>
    BY DEF WriteWatermark
  <1>2. p \in Process /\ proc[p].pc # "idle" /\ proc[p].pc # "rows" /\ Written(proc[p].pc) = 4
    BY <1>1 DEF Process, Written
  <1>3. Moves(p, Idle) /\ Idle.pc = "idle" /\ deaths' \in Nat /\ files' \in [File -> SUBSET Entry]
    BY <1>1, <1>2, IdleMoves DEF CatalogInv, Typed
  <1>4. ASSUME ~inverted PROVE watermark' \in Int /\ watermark' <= Top
    BY <1>1, <1>2, <1>4 DEF CatalogInv, Ordered
  <1>5. \A k \in File : k <= 4
    BY DEF File
  <1>6. ASSUME ~raced', ~inverted, watermark' = Top
        PROVE  (\A k \in File : files'[k] \ Registrar = artifacts) /\ HistoriesAreExact'
    <2>1. /\ proc[p].rows = artifacts /\ HistoriesAreExact
          /\ \A k \in File : files[k] = proc[p].rows
      BY <1>1, <1>2, <1>5, <1>6 DEF CatalogInv, ExportSound
    <2>2. artifacts \subseteq 1 .. MaxArtifacts
      BY CatalogAssumption DEF CatalogInv, Typed
    <2>3. artifacts \ Registrar = artifacts
      BY <2>2, CatalogAssumption
    <2> QED BY MovedQuietly, <1>1, <2>1, <2>3
  <1>7. ASSUME deaths' = 0, ~raced' PROVE \A j, k \in File : files'[j] = files'[k]
    BY <1>1, <1>2, <1>5, <1>7 DEF CatalogInv, Agree
  <1> QED BY <1>1, <1>2, <1>3, <1>4, <1>6, <1>7, MovedQuietly, MovedSound

LEMMA RegisterStep ==
  ASSUME NEW p \in Registrar, CatalogInv, Register(p)
  PROVE  CatalogInv'
  <1> DEFINE entries == files[1] \union {p}
  <1>1. /\ proc[p].pc = "idle" /\ raced' = (raced \/ ~Alone(p))
        /\ proc' = [proc EXCEPT ![p].pc = "file1", ![p].rows = entries]
        /\ UNCHANGED <<ids, open, artifacts, completed, files, history, watermark, deaths, inverted>>
    BY DEF Register
  <1>2. p \in Process /\ p \notin Exporter /\ proc[p] \in Proc /\ proc \in [Process -> Proc] /\ 1 \in File
    BY CatalogAssumption DEF CatalogInv, Typed, Process, File
  <1>3. entries \subseteq Entry
    BY <1>2 DEF CatalogInv, Typed, Entry
  <1> HIDE DEF entries
  <1>4. PICK r : r \in Proc /\ Puts(p, r) /\ r.pc = "file1" /\ r.rows = entries
    <2> DEFINE n == [proc[p] EXCEPT !.pc = "file1", !.rows = entries]
    <2>1. n \in Proc /\ n.pc = "file1" /\ n.rows = entries
      BY <1>2, <1>3 DEF Proc, Exporting
    <2>2. DOMAIN proc' = Process /\ \A q \in Process : q # p => proc'[q] = proc[q]
      BY <1>1, <1>2
    <2>3. proc'[p] = [proc[p] EXCEPT !.pc = "file1", !.rows = entries]
      BY <1>1, <1>2 DEF Proc
    <2>4. proc' = [q \in Process |-> proc'[q]]
      BY <1>1, <1>2
    <2>5. Puts(p, n)
      BY <1>2, <2>1, <2>2, <2>3, <2>4 DEF Puts
    <2> HIDE DEF n
    <2> QED BY <2>1, <2>5
  <1>5. raced' \in BOOLEAN /\ (~raced' => ~raced /\ OthersIdle(p))
    BY <1>1 DEF OthersIdle, Alone
  <1>6. Moves(p, r) /\ deaths' \in Nat /\ files' \in [File -> SUBSET Entry]
    BY <1>1, <1>4, <1>5 DEF Moves, CatalogInv, Typed
  <1>7. ASSUME ~inverted PROVE watermark \in Int /\ watermark <= Top
    BY <1>7 DEF CatalogInv, Ordered
  <1>8. ASSUME ~raced', ~inverted, watermark = Top
        PROVE  /\ \A k \in File : files[k] \ Registrar = artifacts
               /\ HistoriesAreExact /\ r.rows \ Registrar = artifacts
    <2>1. (\A k \in File : files[k] \ Registrar = artifacts) /\ HistoriesAreExact
      BY <1>5, <1>8 DEF CatalogInv, Exact
    <2>2. entries \ Registrar = files[1] \ Registrar
      BY DEF entries
    <2> QED BY <1>2, <1>4, <2>1, <2>2
  <1>9. ASSUME deaths' = 0, ~raced' PROVE \A i, j \in File : files[i] = files[j]
    BY <1>1, <1>5, <1>9 DEF CatalogInv, Agree, OthersIdle
  <1>10. r.pc \in FilePc /\ \A i \in File : ~(i <= Written(r.pc))
    BY <1>4 DEF Written, File, FilePc
  <1> QED BY <1>1, <1>2, <1>4, <1>6, <1>7, <1>8, <1>9, <1>10, MovedQuietly, MovedSound

LEMMA DieStep ==
  ASSUME NEW p \in Process, CatalogInv, Die(p)
  PROVE  CatalogInv'
  <1>1. /\ proc[p].pc # "idle" /\ deaths' = deaths + 1 /\ proc' = [proc EXCEPT ![p] = Idle]
        /\ UNCHANGED <<ids, open, artifacts, completed, files, history, watermark, raced, inverted>>
    BY DEF Die
  <1>2. Moves(p, Idle) /\ Idle.pc = "idle"
    BY <1>1, IdleMoves
  <1>3. deaths' \in Nat /\ deaths' # 0 /\ files' \in [File -> SUBSET Entry]
    BY <1>1 DEF CatalogInv, Typed
  <1>4. ASSUME ~inverted PROVE watermark \in Int /\ watermark <= Top
    BY <1>4 DEF CatalogInv, Ordered
  <1>5. ASSUME ~raced', ~inverted, watermark = Top
        PROVE  (\A k \in File : files[k] \ Registrar = artifacts) /\ HistoriesAreExact
    BY <1>1, <1>5 DEF CatalogInv, Exact
  <1> QED BY <1>1, <1>2, <1>3, <1>4, <1>5, MovedQuietly, MovedSound

LEMMA CatalogStep == CatalogInv /\ [Next]_vars => CatalogInv'
  <1> SUFFICES ASSUME CatalogInv, [Next]_vars PROVE CatalogInv'
    OBVIOUS
  <1>1. ASSUME NEW p \in Exporter, Export(p) PROVE CatalogInv'
    <2>1. CASE ExportCheck(p)
      BY <2>1, CheckStep
    <2>2. CASE ExportSelect(p)
      BY <2>2, SelectStep
    <2>3. CASE WriteHistory(p)
      BY <2>3, HistoryStep
    <2>4. CASE WriteWatermark(p)
      BY <2>4, WatermarkStep
    <2>5. CASE \E i \in File : WriteFile(p, i)
      BY <2>5, FileStep DEF Process
    <2> QED BY <1>1, <2>1, <2>2, <2>3, <2>4, <2>5 DEF Export
  <1>2. ASSUME NEW p \in Registrar, Register(p) \/ \E i \in File : WriteFile(p, i) PROVE CatalogInv'
    BY <1>2, RegisterStep, FileStep DEF Process
  <1>3. CASE UNCHANGED vars
    <2>1. Top' = Top
      BY <1>3 DEF vars, Top
    <2>2. (HistoriesAreExact' <=> HistoriesAreExact) /\ (Profiled' <=> Profiled)
      BY <1>3, HistoriesKept DEF vars
    <2> QED BY <1>3, <2>1, <2>2 DEF vars, CatalogInv, Typed, AtMostOne, Ordered, ExportSound, Exact, Agree
  <1> QED BY <1>1, <1>2, <1>3, InsertStep, CommitStep, LateFailureStep, DieStep DEF Next

\* An export that counts as up to date is exact in every file, whatever died
\* before, and its histories miss no completed report and are exact for every
\* profile of which no report was taken back: only two writers at once or commits
\* out of order can spoil it.
THEOREM UpToDateExact == Spec => []UpToDateIsExact
  <1>1. CatalogInv => UpToDateIsExact
    BY DEF CatalogInv, Exact, UpToDateIsExact, Settled, Top
  <1> QED BY <1>1, CatalogInit, CatalogStep, PTL DEF Spec

\* The four files hold the same entries whenever nobody writes them, unless a
\* writer died between them or two wrote at once.
THEOREM FilesInAgreement == Spec => []FilesAgree
  <1>1. CatalogInv => FilesAgree
    BY DEF CatalogInv, Agree, FilesAgree
  <1> QED BY <1>1, CatalogInit, CatalogStep, PTL DEF Spec
=============================================================================
