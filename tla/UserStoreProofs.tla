-------------------------- MODULE UserStoreProofs --------------------------
(***************************************************************************)
(* What holds of the user database for every number of cards, every        *)
(* capacity and every length of USER.TXT.                                  *)
(***************************************************************************)
EXTENDS UserStore, TLAPS, FunctionTheorems, FiniteSetTheorems, SequenceTheorems

---------------------------------------------------------------------------
(* Sequences of lines. *)

(* Every position of K has a rank, and no two have the same. *)
LEMMA RankInjective ==
  ASSUME NEW n \in Nat, NEW K \in SUBSET (1..n)
  PROVE  /\ IsFiniteSet(K)
         /\ Cardinality(K) \in Nat
         /\ \A i \in K : Rank(i, K) \in 1..Cardinality(K)
         /\ \A i, j \in K : Rank(i, K) = Rank(j, K) => i = j
<1> DEFINE Below(i) == {j \in K : j <= i}
<1>0. \A i \in K : i \in Int
  OBVIOUS
<1>1. IsFiniteSet(K) /\ Cardinality(K) \in Nat
  <2>1. IsFiniteSet(1..n)
    BY FS_Interval
  <2>2. IsFiniteSet(K)
    BY <2>1, FS_Subset
  <2> QED BY <2>2, FS_CardinalityType
<1>2. \A i \in K : /\ IsFiniteSet(Below(i))
                   /\ Cardinality(Below(i)) \in Nat
                   /\ Cardinality(Below(i)) <= Cardinality(K)
  BY <1>1, FS_Subset, FS_CardinalityType
<1>3. \A i \in K : Cardinality(Below(i)) # 0
  <2> SUFFICES ASSUME NEW i \in K PROVE Cardinality(Below(i)) # 0
    OBVIOUS
  <2>1. i \in Below(i)
    BY <1>0
  <2> QED BY <2>1, <1>2, FS_EmptySet
<1>4. \A i, j \in K : i < j => Cardinality(Below(i)) < Cardinality(Below(j))
  <2> SUFFICES ASSUME NEW i \in K, NEW j \in K, i < j
               PROVE  Cardinality(Below(i)) < Cardinality(Below(j))
    OBVIOUS
  <2>0. i \in Int /\ j \in Int
    BY <1>0
  <2>1. Below(i) \in SUBSET Below(j)
    <3> SUFFICES ASSUME NEW k \in Below(i) PROVE k \in Below(j)
      OBVIOUS
    <3>1. k \in K /\ k <= i /\ k \in Int
      BY <1>0
    <3> QED BY <3>1, <2>0
  <2>2. j \in Below(j) /\ j \notin Below(i)
    BY <2>0
  <2> HIDE DEF Below
  <2>3. /\ Cardinality(Below(i)) <= Cardinality(Below(j))
        /\ Cardinality(Below(i)) # Cardinality(Below(j))
    BY <2>1, <2>2, <1>2, FS_Subset
  <2> QED BY <2>3, <1>2
<1>5. \A i \in K : Rank(i, K) = Cardinality(Below(i))
  BY DEF Rank
<1>6. \A i \in K : Rank(i, K) \in 1..Cardinality(K)
  <2> HIDE DEF Below
  <2> QED BY <1>1, <1>2, <1>3, <1>5
<1>7. \A i, j \in K : Rank(i, K) = Rank(j, K) => i = j
  <2> HIDE DEF Below
  <2> SUFFICES ASSUME NEW i \in K, NEW j \in K, i < j
               PROVE  Rank(i, K) # Rank(j, K)
    OBVIOUS
  <2> QED BY <1>2, <1>4, <1>5
<1> QED BY <1>1, <1>6, <1>7

(* Every rank is taken. *)
LEMMA RankSurjective ==
  ASSUME NEW n \in Nat, NEW K \in SUBSET (1..n)
  PROVE  \A k \in 1..Cardinality(K) : \E i \in K : Rank(i, K) = k
<1> DEFINE T == 1..Cardinality(K)
           f == [i \in K |-> Rank(i, K)]
<1>0. Cardinality(K) \in Nat
  BY RankInjective
<1>1. IsFiniteSet(T) /\ Cardinality(T) = Cardinality(K)
  BY <1>0, FS_Interval
<1>2. f \in [K -> T] /\ \A i, j \in K : f[i] = f[j] => i = j
  BY RankInjective
<1>3. f \in Injection(K, T)
  BY <1>2, Fun_IsInj
<1>4. f \in Surjection(K, T)
  BY <1>1, <1>3, FS_Injection
<1>5. \A k \in T : \E i \in K : f[i] = k
  <2> HIDE DEF T, f
  <2> QED BY <1>4, Fun_SurjectionProperties
<1> QED BY <1>5

(* Kept lists the lines at the positions K and no others. *)
LEMMA KeptLines ==
  ASSUME NEW S, NEW lines \in Seq(S), NEW K \in SUBSET DOMAIN lines
  PROVE  /\ Kept(lines, K) \in Seq(S)
         /\ Len(Kept(lines, K)) = Cardinality(K)
         /\ Ids(Kept(lines, K)) = {lines[i].id : i \in K}
<1> DEFINE Nth(k) == CHOOSE i \in K : Rank(i, K) = k
           R == Kept(lines, K)
<1>1. Len(lines) \in Nat /\ DOMAIN lines = 1..Len(lines) /\ K \in SUBSET (1..Len(lines))
  BY LenProperties
<1>2. Cardinality(K) \in Nat
  BY <1>1, RankInjective
<1>3. \A k \in 1..Cardinality(K) : Nth(k) \in K /\ Rank(Nth(k), K) = k
  BY <1>1, RankSurjective
<1>4. \A i \in K : Rank(i, K) \in 1..Cardinality(K) /\ Nth(Rank(i, K)) = i
  BY <1>1, <1>3, RankInjective
<1>5. \A i \in K : lines[i] \in S
  BY <1>1, ElementOfSeq
<1> HIDE DEF Nth
<1>6. R = [k \in 1..Cardinality(K) |-> lines[Nth(k)]]
  BY DEF Kept, Nth
<1>7. R \in [1..Cardinality(K) -> S]
  BY <1>3, <1>5, <1>6
<1>8. R \in Seq(S) /\ Len(R) = Cardinality(K) /\ DOMAIN R = 1..Cardinality(K)
  BY <1>2, <1>7
<1>9. Ids(R) = {lines[i].id : i \in K}
  BY <1>3, <1>4, <1>6, <1>8 DEF Ids
<1> QED BY <1>8, <1>9

(* What the other operators on lines do to the set of hashes. *)
LEMMA WithoutLines ==
  ASSUME NEW lines \in Seq(Line), NEW id
  PROVE  /\ Without(lines, id) \in Seq(Line)
         /\ Len(Without(lines, id)) <= Len(lines)
         /\ Ids(Without(lines, id)) = Ids(lines) \ {id}
<1> DEFINE K == {i \in DOMAIN lines : lines[i].id # id}
<1>1. K \in SUBSET DOMAIN lines /\ DOMAIN lines = 1..Len(lines) /\ Len(lines) \in Nat
  BY LenProperties
<1>2. Cardinality(K) <= Len(lines)
  <2>1. IsFiniteSet(1..Len(lines)) /\ Cardinality(1..Len(lines)) = Len(lines)
    BY <1>1, FS_Interval
  <2>2. K \in SUBSET (1..Len(lines))
    BY <1>1
  <2> HIDE DEF K
  <2> QED BY <2>1, <2>2, FS_Subset
<1>3. {lines[i].id : i \in K} = Ids(lines) \ {id}
  BY DEF Ids
<1> HIDE DEF K
<1>4. /\ Kept(lines, K) \in Seq(Line)
      /\ Len(Kept(lines, K)) = Cardinality(K)
      /\ Ids(Kept(lines, K)) = {lines[i].id : i \in K}
  BY <1>1, KeptLines
<1>5. Without(lines, id) = Kept(lines, K)
  BY DEF Without, K
<1> QED BY <1>2, <1>3, <1>4, <1>5

LEMMA RenamedLines ==
  ASSUME NEW lines \in Seq(Line), NEW id \in Id, NEW n \in Name
  PROVE  /\ Renamed(lines, id, n) \in Seq(Line)
         /\ Ids(Renamed(lines, id, n)) \subseteq Ids(lines) \cup {id}
         /\ id = Hash[id] => Ids(Renamed(lines, id, n)) = Ids(lines)
<1>1. Len(lines) \in Nat /\ DOMAIN lines = 1..Len(lines) /\ \A i \in DOMAIN lines : lines[i] \in Line
  BY LenProperties, ElementOfSeq
<1> DEFINE R == Renamed(lines, id, n)
<1>2. /\ DOMAIN R = 1..Len(lines)
      /\ \A i \in 1..Len(lines) :
           R[i] = IF lines[i].id = Hash[id] THEN [id |-> id, name |-> n] ELSE lines[i]
  BY <1>1 DEF Renamed
<1>3. R \in [1..Len(lines) -> Line]
  BY <1>1 DEF Renamed, Line
<1>4. R \in Seq(Line)
  BY <1>1, <1>3
<1>5. \A i \in 1..Len(lines) : R[i].id = IF lines[i].id = Hash[id] THEN id ELSE lines[i].id
  BY <1>2
<1> HIDE DEF R
<1>6. Ids(R) \subseteq Ids(lines) \cup {id}
  BY <1>1, <1>2, <1>5 DEF Ids
<1>7. ASSUME id = Hash[id] PROVE Ids(R) = Ids(lines)
  BY <1>1, <1>2, <1>5, <1>7 DEF Ids
<1> QED BY <1>4, <1>6, <1>7 DEF R

LEMMA SwapRemovedLines ==
  ASSUME NEW lines \in Seq(Line), NEW i \in DOMAIN lines
  PROVE  /\ SwapRemove(lines, i) \in Seq(Line)
         /\ Len(SwapRemove(lines, i)) = Len(lines) - 1
         /\ Ids(SwapRemove(lines, i)) \subseteq Ids(lines)
<1>1. Len(lines) \in Nat \ {0} /\ DOMAIN lines = 1..Len(lines) /\ \A k \in DOMAIN lines : lines[k] \in Line
  BY LenProperties, ElementOfSeq
<1> DEFINE R == SwapRemove(lines, i)
<1>2. \A k \in 1..(Len(lines) - 1) : R[k] \in {lines[x] : x \in DOMAIN lines}
  BY <1>1 DEF SwapRemove
<1>3. R \in [1..(Len(lines) - 1) -> Line]
  BY <1>1 DEF SwapRemove
<1>4. R \in Seq(Line) /\ Len(R) = Len(lines) - 1 /\ DOMAIN R = 1..(Len(lines) - 1)
  <2>1. Len(lines) - 1 \in Nat
    BY <1>1
  <2> HIDE DEF R
  <2> QED BY <2>1, <1>3
<1> HIDE DEF R
<1>5. Ids(R) \subseteq Ids(lines)
  BY <1>2, <1>4 DEF Ids
<1> QED BY <1>4, <1>5 DEF R

LEMMA LoadedLines ==
  ASSUME NEW lines \in Seq(Line)
  PROVE  /\ Loaded(lines) \in Seq(Line)
         /\ Len(Loaded(lines)) <= MaxUsers
         /\ Ids(Loaded(lines)) \subseteq Ids(lines)
<1> DEFINE n == IF Len(lines) < MaxUsers THEN Len(lines) ELSE MaxUsers
           R == SubSeq(lines, 1, n)
<1>1. Len(lines) \in Nat /\ DOMAIN lines = 1..Len(lines) /\ \A k \in 1..Len(lines) : lines[k] \in Line
  BY LenProperties, ElementOfSeq
<1>2. n \in Nat /\ n <= MaxUsers /\ n <= Len(lines)
  BY <1>1, UserStoreAssumption
<1> HIDE DEF n
<1>3. /\ R \in Seq(Line)
      /\ Len(R) = IF 1 <= n THEN n - 1 + 1 ELSE 0
      /\ \A k \in 1..(n - 1 + 1) : R[k] = lines[1 + k - 1]
  BY <1>1, <1>2, SubSeqProperties
<1>4. Len(R) = n /\ DOMAIN R = 1..n /\ \A k \in 1..n : k \in DOMAIN lines /\ R[k] = lines[k]
  BY <1>1, <1>2, <1>3, LenProperties
<1> HIDE DEF R
<1>5. Ids(R) \subseteq Ids(lines)
  BY <1>4 DEF Ids
<1>6. Loaded(lines) = R
  BY DEF Loaded, R, n
<1> QED BY <1>2, <1>3, <1>4, <1>5, <1>6

LEMMA AppendedLine ==
  ASSUME NEW lines \in Seq(Line), NEW id \in Id, NEW n \in Name
  PROVE  LET R == Append(lines, [id |-> id, name |-> n])
         IN  R \in Seq(Line) /\ Len(R) = Len(lines) + 1 /\ Ids(R) = Ids(lines) \cup {id}
<1> DEFINE line == [id |-> id, name |-> n]
           R == Append(lines, line)
<1>1. line \in Line /\ line.id = id
  BY DEF Line
<1> HIDE DEF line
<1>2. Len(lines) \in Nat /\ DOMAIN lines = 1..Len(lines)
  BY LenProperties
<1>3. /\ R \in Seq(Line)
      /\ Len(R) = Len(lines) + 1
      /\ \A i \in 1..Len(lines) : R[i] = lines[i]
      /\ R[Len(lines) + 1] = line
  BY <1>1, AppendProperties
<1>4. DOMAIN R = 1..(Len(lines) + 1)
  BY <1>3, LenProperties
<1> HIDE DEF R
<1>5. Ids(R) = Ids(lines) \cup {id}
  BY <1>1, <1>2, <1>3, <1>4 DEF Ids
<1> QED BY <1>3, <1>5 DEF R, line

LEMMA ReworkedName ==
  ASSUME NEW lines \in Seq(Line), NEW i \in DOMAIN lines, NEW n \in Name
  PROVE  /\ [lines EXCEPT ![i].name = n] \in Seq(Line)
         /\ Len([lines EXCEPT ![i].name = n]) = Len(lines)
         /\ Ids([lines EXCEPT ![i].name = n]) = Ids(lines)
<1> DEFINE R == [lines EXCEPT ![i].name = n]
<1>1. Len(lines) \in Nat /\ DOMAIN lines = 1..Len(lines) /\ \A k \in DOMAIN lines : lines[k] \in Line
  BY LenProperties, ElementOfSeq
<1>2. \A k \in DOMAIN lines : R[k] \in Line /\ R[k].id = lines[k].id
  BY <1>1 DEF Line
<1>3. R \in [1..Len(lines) -> Line]
  BY <1>1, <1>2
<1>4. R \in Seq(Line) /\ Len(R) = Len(lines) /\ DOMAIN R = DOMAIN lines
  BY <1>1, <1>3
<1> HIDE DEF R
<1>5. Ids(R) = Ids(lines)
  BY <1>2, <1>4 DEF Ids
<1> QED BY <1>4, <1>5 DEF R

---------------------------------------------------------------------------
(* Type correctness.  StoreTypeOK is not inductive alone: that a command   *)
(* sent by a web handler is a Command rests on the cache holding nothing   *)
(* but hashes, and that again on the lines the SD task is about to write.  *)

JobHashed ==
  \A j \in job :
    /\ j.step \in {"append", "push"} => j.id \in Hashed
    /\ j.step \in {"rewrite", "rename"} => Ids(j.lines) \subseteq Stored

StoreInv == StoreTypeOK /\ OnlyHashesStored /\ JobHashed

LEMMA HashType ==
  /\ Hashed \subseteq Stored /\ Garbled \subseteq Stored /\ Stored \subseteq Id
  /\ \A c \in Card : c \in Id /\ Hash[c] \in Hashed
  /\ \A i \in Id : Hash[i] \in Id
BY VocabularyAssumption DEF Hashed, Stored

LEMMA CommandFields ==
  ASSUME NEW c \in Command
  PROVE  /\ c.op = "AddUser" => c.id \in Card
         /\ c.op = "RemoveUser" => c.id \in Stored
         /\ c.op = "UpdateUser" => c.id \in Stored /\ c.name \in Name
BY DEF Command, UserCommand, OtherCommand

LEMMA JobFields ==
  ASSUME NEW j \in Job
  PROVE  /\ j.step \in {"append", "push", "retain", "rewrite"} => j.id \in Id
         /\ j.step = "append" => /\ j.try \in 1..MaxRetries
                                /\ j = [step |-> "append", id |-> j.id, try |-> j.try]
         /\ j.step \in {"rewrite", "rename"} => j.lines \in Seq(Line)
         /\ j.step = "load" => j = [step |-> "load"]
BY DEF Job

LEMMA JobMade ==
  /\ [step |-> "load"] \in Job /\ [step |-> "clear"] \in Job
  /\ \A i \in Id, k \in 1..MaxRetries : [step |-> "append", id |-> i, try |-> k] \in Job
  /\ \A i \in Id : [step |-> "push", id |-> i] \in Job /\ [step |-> "retain", id |-> i] \in Job
  /\ \A i \in Id, l \in Seq(Line) : [step |-> "rewrite", id |-> i, lines |-> l] \in Job
  /\ \A l \in Seq(Line) : [step |-> "rename", lines |-> l] \in Job
BY DEF Job

LEMMA CommandMade ==
  /\ \A c \in Card : AddUser(c) \in Command
  /\ \A h \in Stored : RemoveUser(h) \in Command
  /\ \A h \in Stored, n \in Name : UpdateUser(h, n) \in Command
  /\ RemoveAllUsers \in Command
BY DEF Command, UserCommand, AddUser, RemoveUser, UpdateUser, RemoveAllUsers

LEMMA NoLines == <<>> \in Seq(Line) /\ Len(<<>>) = 0 /\ Ids(<<>>) = {}
BY EmptySeq DEF Ids

(* The file as it may be at any time, and what pieces of lines do to it.   *)
FileOK ==
  /\ usersFile \in Seq(Line) /\ Ids(usersFile) \subseteq Stored
  /\ tail \in {"closed", "open", "nobody"}
  /\ tail = "open" => usersFile # <<>>

LEMMA FileTyped == StoreTypeOK /\ OnlyHashesStored => FileOK
BY DEF StoreTypeOK, OnlyHashesStored, FileOK

(* Nobody's line is lost by what is put behind it, and a whole line lists  *)
(* its user if the file was closed.                                        *)
LEMMA PutLines ==
  ASSUME FileOK, NEW id \in Hashed, NEW piece \in Piece, PutPiece(id, piece)
  PROVE  /\ FileOK'
         /\ Ids(usersFile) \subseteq Ids(usersFile')
         /\ piece = "line" => tail' = "closed"
         /\ piece = "line" /\ tail = "closed" => id \in Ids(usersFile')
<1> USE DEF FileOK
<1>0. id \in Id /\ id \in Stored /\ Garbled \subseteq Id /\ Garbled \subseteq Stored
  BY HashType, VocabularyAssumption
<1>1. NewNames(piece) \subseteq Name
  BY VocabularyAssumption DEF NewNames
<1>2. CASE /\ UNCHANGED usersFile
           /\ \/ piece = "nothing" /\ UNCHANGED tail
              \/ piece = "number" /\ tail' = "nobody"
              \/ tail = "nobody" /\ tail' = Ending(piece, "nobody")
  BY <1>2 DEF PutPiece, Ending, fileVars
<1>3. CASE \E i \in {id} \cup Garbled, n \in NewNames(piece) :
             /\ usersFile' = Append(usersFile, [id |-> i, name |-> n])
             /\ tail = "closed" => i = id
             /\ tail' = Ending(piece, "open")
  <2>1. PICK i \in {id} \cup Garbled, n \in NewNames(piece) :
               /\ usersFile' = Append(usersFile, [id |-> i, name |-> n])
               /\ tail = "closed" => i = id
               /\ tail' = Ending(piece, "open")
    BY <1>3
  <2>2. i \in Id /\ i \in Stored /\ n \in Name
    BY <1>0, <1>1
  <2>3. /\ usersFile' \in Seq(Line)
        /\ Len(usersFile') = Len(usersFile) + 1
        /\ Ids(usersFile') = Ids(usersFile) \cup {i}
    BY <2>1, <2>2, AppendedLine
  <2>4. usersFile' # <<>>
    BY <2>3, NoLines, LenProperties
  <2> QED BY <2>1, <2>2, <2>3, <2>4 DEF Ending
<1>4. CASE /\ tail = "open"
           /\ \E n \in Name : usersFile' = [usersFile EXCEPT ![Len(usersFile)].name = n]
           /\ tail' = Ending(piece, "open")
  <2>1. PICK n \in Name : usersFile' = [usersFile EXCEPT ![Len(usersFile)].name = n]
    BY <1>4
  <2>2. Len(usersFile) \in DOMAIN usersFile /\ Len(usersFile) # 0
    BY <1>4, LenProperties, EmptySeq
  <2>3. /\ usersFile' \in Seq(Line)
        /\ Len(usersFile') = Len(usersFile)
        /\ Ids(usersFile') = Ids(usersFile)
    BY <2>1, <2>2, ReworkedName
  <2>4. usersFile' # <<>>
    BY <2>2, <2>3, NoLines
  <2> QED BY <1>4, <2>3, <2>4 DEF Ending
<1> QED BY <1>2, <1>3, <1>4 DEF PutPiece, Piece, fileVars

(* A rewrite that was cut off left lines it was to write, and no others.   *)
LEMMA TornLines ==
  ASSUME NEW lines \in Seq(Line), Ids(lines) \subseteq Stored, TornRewrite(lines)
  PROVE  FileOK'
<1>1. Len(lines) \in Nat /\ DOMAIN lines = 1..Len(lines) /\ \A k \in 1..Len(lines) : lines[k] \in Line
  BY LenProperties, ElementOfSeq
<1>2. PICK n \in 0..Len(lines) :
        \/ usersFile' = SubSeq(lines, 1, n) /\ tail' \in {"closed", "nobody"}
        \/ /\ n > 0
           /\ \E m \in Name : usersFile' = [SubSeq(lines, 1, n) EXCEPT ![n].name = m]
           /\ tail' = "open"
  BY DEF TornRewrite
<1> DEFINE part == SubSeq(lines, 1, n)
<1>3. /\ part \in Seq(Line)
      /\ Len(part) = IF 1 <= n THEN n - 1 + 1 ELSE 0
      /\ \A k \in 1..(n - 1 + 1) : part[k] = lines[1 + k - 1]
  BY <1>1, SubSeqProperties
<1>4. Len(part) = n /\ DOMAIN part = 1..n /\ \A k \in 1..n : k \in DOMAIN lines /\ part[k] = lines[k]
  BY <1>1, <1>3, LenProperties
<1>5. Ids(part) \subseteq Stored
  BY <1>4 DEF Ids
<1> HIDE DEF part
<1>6. CASE usersFile' = part /\ tail' \in {"closed", "nobody"}
  BY <1>3, <1>5, <1>6 DEF FileOK
<1>7. CASE /\ n > 0
           /\ \E m \in Name : usersFile' = [part EXCEPT ![n].name = m]
           /\ tail' = "open"
  <2>1. PICK m \in Name : usersFile' = [part EXCEPT ![n].name = m]
    BY <1>7
  <2>2. /\ usersFile' \in Seq(Line)
        /\ Len(usersFile') = n
        /\ Ids(usersFile') = Ids(part)
    <3>1. n \in DOMAIN part /\ part \in Seq(Line)
      BY <1>1, <1>3, <1>4, <1>7
    <3>2. /\ [part EXCEPT ![n].name = m] \in Seq(Line)
          /\ Len([part EXCEPT ![n].name = m]) = Len(part)
          /\ Ids([part EXCEPT ![n].name = m]) = Ids(part)
      BY <3>1, ReworkedName
    <3> QED BY <1>4, <2>1, <3>2
  <2>3. usersFile' # <<>>
    BY <1>7, <2>2, NoLines
  <2> QED BY <1>5, <1>7, <2>2, <2>3 DEF FileOK
<1> QED BY <1>2, <1>6, <1>7 DEF part

LEMMA ReadLines ==
  ASSUME StoreInv, NEW text \in ReadOutcomes
  PROVE  text \in Seq(Line) /\ Ids(text) \subseteq Stored
BY NoLines DEF StoreInv, StoreTypeOK, OnlyHashesStored, ReadOutcomes

LEMMA SlotMade ==
  /\ IsSlot({}, Command) /\ \A c \in Command : IsSlot({c}, Command)
  /\ IsSlot({}, Job) /\ \A j \in Job : IsSlot({j}, Job)
BY DEF IsSlot

LEMMA StoreInvInit == Init => StoreInv
<1> SUFFICES ASSUME Init PROVE StoreInv
  OBVIOUS
<1>1. usersFile = <<>> /\ tail = "closed" /\ damaged = FALSE /\ failed = FALSE /\ astray = {}
  BY DEF Init
<1>2. Len(users) <= MaxUsers
  BY NoLines, UserStoreAssumption DEF Init
<1>3. OnlyHashesStored /\ JobHashed
  BY NoLines DEF Init, OnlyHashesStored, JobHashed
<1> QED BY <1>1, <1>2, <1>3, NoLines, JobMade, SlotMade DEF Init, StoreInv, StoreTypeOK

LEMMA HistoryTyped ==
  ASSUME StoreInv, [Next]_storeVars
  PROVE  {damaged', failed'} \subseteq BOOLEAN /\ astray' \subseteq Hashed
<1> damaged \in BOOLEAN /\ failed \in BOOLEAN /\ astray \subseteq Hashed
  BY DEF StoreInv, StoreTypeOK
<1> \A j \in job : j.step = "append" => j.id \in Hashed
  BY DEF StoreInv, JobHashed
<1>1. CASE AddUserWrite
  BY <1>1 DEF AddUserWrite
<1>2. CASE AddUserFails
  BY <1>2 DEF AddUserFails
<1>3. CASE UNCHANGED <<failed, astray>> /\ RemoveUserOpen
  <2>1. damaged' \in BOOLEAN
    BY <1>3 DEF RemoveUserOpen
  <2> QED BY <1>3, <2>1
<1>4. CASE UNCHANGED <<failed, astray>> /\ (RemoveUserWrite \/ ChangeNameWrite)
  <2>1. damaged' \in BOOLEAN
    BY <1>4 DEF RemoveUserWrite, ChangeNameWrite
  <2> QED BY <1>4, <2>1
<1>5. CASE UNCHANGED history
  BY <1>5 DEF history
<1>6. CASE LosePower
  BY <1>6 DEF LosePower
<1>7. ASSUME SdStep, ~AddUserWrite, ~AddUserFails, ~RemoveUserOpen, ~RemoveUserWrite, ~ChangeNameWrite
      PROVE  UNCHANGED history
  BY <1>7 DEF SdStep, LoadUsers, AddUserTake, AddUserPush, RemoveUserRetain, ChangeNameOpen,
              RemoveAllDelete, RemoveAllClear
<1>8. ASSUME ~SdStep, ~LosePower PROVE UNCHANGED history
  BY <1>8 DEF Next, SignalAddUser, WebUpdateUser, WebRemoveUser, WebRemoveAllUsers, OtherTraffic,
              storeVars
<1>9. RemoveUserOpen \/ RemoveUserWrite \/ ChangeNameWrite => UNCHANGED <<failed, astray>>
  BY DEF RemoveUserOpen, RemoveUserWrite, ChangeNameWrite
<1> QED BY <1>1, <1>2, <1>3, <1>4, <1>5, <1>6, <1>7, <1>8, <1>9

(* Every step of the SD task, of a handler and of the world around them    *)
(* preserves StoreInv.                                                     *)
LEMMA StoreInvNext == StoreInv /\ [Next]_storeVars => StoreInv'
<1> SUFFICES ASSUME StoreInv, [Next]_storeVars PROVE StoreInv'
  OBVIOUS
<1> {damaged', failed'} \subseteq BOOLEAN /\ astray' \subseteq Hashed
  BY HistoryTyped
<1> FileOK
  BY FileTyped DEF StoreInv
<1> USE DEF StoreInv, StoreTypeOK, OnlyHashesStored, JobHashed, fileVars
<1>1. CASE LoadUsers
  <2>1. PICK text \in ReadOutcomes : users' = Loaded(text)
    BY <1>1 DEF LoadUsers
  <2>2. text \in Seq(Line) /\ Ids(text) \subseteq Stored
    BY ReadLines
  <2>3. users' \in Seq(Line) /\ Len(users') <= MaxUsers /\ Ids(users') \subseteq Stored
    BY <2>1, <2>2, LoadedLines
  <2> QED BY <1>1, <2>3, SlotMade DEF LoadUsers
<1>2. CASE AddUserTake
  <2>1. PICK c \in cmd : AddUserTake!(c)
    BY <1>2 DEF AddUserTake
  <2>2. c \in Command /\ c.id \in Card
    BY <2>1, CommandFields DEF IsSlot
  <2>3. Hash[c.id] \in Hashed /\ Hash[c.id] \in Id /\ 1 \in 1..MaxRetries
    BY <2>2, HashType, UserStoreAssumption
  <2>4. job' = {[step |-> "append", id |-> Hash[c.id], try |-> 1]} /\ cmd' = {}
    BY <2>1
  <2>5. IsSlot(job', Job)
    BY <2>3, <2>4, JobMade, SlotMade
  <2>6. JobHashed'
    BY <2>3, <2>4
  <2> QED BY <2>1, <2>4, <2>5, <2>6, SlotMade
<1>2a. CASE AddUserWrite
  <2>1. PICK j \in job : AddUserWrite!(j)
    BY <1>2a DEF AddUserWrite
  <2>2. j.id \in Hashed /\ j.id \in Id
    BY <2>1, HashType
  <2>3. FileOK'
    BY <2>1, <2>2, PutLines DEF Piece
  <2>4. job' = {[step |-> "push", id |-> j.id]} /\ cmd' = cmd /\ users' = users
    BY <2>1
  <2>5. IsSlot(job', Job)
    BY <2>2, <2>4, JobMade, SlotMade
  <2>6. JobHashed'
    BY <2>2, <2>4
  <2> QED BY <2>3, <2>4, <2>5, <2>6 DEF FileOK
<1>2b. CASE AddUserFails
  <2>1. PICK j \in job, piece \in Piece : AddUserFails!(j, piece)
    BY <1>2b DEF AddUserFails
  <2>2. j.id \in Hashed /\ j.id \in Id /\ j.try \in 1..MaxRetries
        /\ j = [step |-> "append", id |-> j.id, try |-> j.try]
    BY <2>1, HashType, JobFields DEF IsSlot
  <2>3. FileOK'
    BY <2>1, <2>2, PutLines
  <2>4. cmd' = cmd /\ users' = users
    BY <2>1
  <2>5. CASE j.try < MaxRetries /\ job' = {[j EXCEPT !.try = @ + 1]}
    <3>1. [j EXCEPT !.try = @ + 1] = [step |-> "append", id |-> j.id, try |-> j.try + 1]
      BY <2>2
    <3>2. j.try + 1 \in 1..MaxRetries
      BY <2>2, <2>5, UserStoreAssumption
    <3>3. IsSlot(job', Job)
      BY <2>2, <2>5, <3>1, <3>2, JobMade, SlotMade
    <3>4. JobHashed'
      BY <2>2, <2>5, <3>1
    <3> QED BY <2>3, <2>4, <3>3, <3>4 DEF FileOK
  <2>6. CASE job' = {[step |-> "push", id |-> j.id]}
    <3>1. IsSlot(job', Job)
      BY <2>2, <2>6, JobMade, SlotMade
    <3>2. JobHashed'
      BY <2>2, <2>6
    <3> QED BY <2>3, <2>4, <3>1, <3>2 DEF FileOK
  <2> QED BY <2>1, <2>5, <2>6
<1>3. CASE AddUserPush
  <2>1. PICK j \in job : AddUserPush!(j)
    BY <1>3 DEF AddUserPush
  <2>2. j.id \in Hashed /\ j.id \in Id /\ j.id \in Stored /\ DefaultName \in Name
    BY <2>1, HashType, VocabularyAssumption
  <2>3. users' \in Seq(Line) /\ Len(users') <= MaxUsers /\ Ids(users') \subseteq Stored
    <3>1. CASE Len(users) < MaxUsers
      <4>1. users' = Append(users, [id |-> j.id, name |-> DefaultName])
        BY <2>1, <3>1 DEF NewLine
      <4> QED BY <2>2, <3>1, <4>1, AppendedLine, LenProperties, UserStoreAssumption
    <3>2. CASE ~(Len(users) < MaxUsers)
      BY <2>1, <3>2
    <3> QED BY <3>1, <3>2
  <2> QED BY <2>1, <2>3, SlotMade
<1>4. CASE RemoveUserOpen
  <2>1. PICK c \in cmd, text \in ReadOutcomes : RemoveUserOpen!(c, text)
    BY <1>4 DEF RemoveUserOpen
  <2>2. c \in Command /\ c.id \in Id /\ Hash[c.id] \in Id
    BY <2>1, CommandFields, HashType DEF IsSlot
  <2>3. text \in Seq(Line) /\ Ids(text) \subseteq Stored
    BY ReadLines
  <2> DEFINE left == Without(text, Hash[c.id])
  <2>4. left \in Seq(Line) /\ Ids(left) \subseteq Stored
    BY <2>2, <2>3, WithoutLines
  <2> HIDE DEF left
  <2>5. CASE /\ usersFile' = <<>> /\ tail' = "closed"
             /\ job' = {[step |-> "rewrite", id |-> Hash[c.id], lines |-> left]}
    <3>1. IsSlot(job', Job)
      BY <2>2, <2>4, <2>5, JobMade, SlotMade
    <3>2. JobHashed'
      BY <2>4, <2>5
    <3> QED BY <2>1, <2>5, <3>1, <3>2, NoLines, SlotMade
  <2>6. CASE UNCHANGED fileVars /\ job' = {[step |-> "retain", id |-> Hash[c.id]]}
    <3>1. IsSlot(job', Job)
      BY <2>2, <2>6, JobMade, SlotMade
    <3>2. JobHashed'
      BY <2>6
    <3> QED BY <2>1, <2>6, <3>1, <3>2, SlotMade
  <2> QED BY <2>1, <2>5, <2>6 DEF left
<1>5. CASE RemoveUserWrite
  <2>1. PICK j \in job : RemoveUserWrite!(j)
    BY <1>5 DEF RemoveUserWrite
  <2>2. j \in Job /\ j.id \in Id /\ j.lines \in Seq(Line) /\ Ids(j.lines) \subseteq Stored
    BY <2>1, JobFields DEF IsSlot
  <2>3. FileOK'
    BY <2>1, <2>2, TornLines DEF FileOK
  <2>4. IsSlot(job', Job)
    BY <2>1, <2>2, JobMade, SlotMade
  <2>5. JobHashed'
    BY <2>1
  <2> QED BY <2>1, <2>3, <2>4, <2>5 DEF FileOK
<1>6. CASE RemoveUserRetain
  <2>1. PICK j \in job : RemoveUserRetain!(j)
    BY <1>6 DEF RemoveUserRetain
  <2>2. users' \in Seq(Line) /\ Len(users') <= MaxUsers /\ Ids(users') \subseteq Stored
    BY <2>1, WithoutLines, LenProperties, UserStoreAssumption
  <2> QED BY <2>1, <2>2, SlotMade
<1>7. CASE ChangeNameOpen
  <2>1. PICK c \in cmd, text \in ReadOutcomes : ChangeNameOpen!(c, text)
    BY <1>7 DEF ChangeNameOpen
  <2>2. c \in Command /\ c.id \in Stored /\ c.id \in Id /\ c.name \in Name
    BY <2>1, CommandFields, HashType DEF IsSlot
  <2>3. text \in Seq(Line) /\ Ids(text) \subseteq Stored
    BY ReadLines
  <2> DEFINE renamed == Renamed(text, c.id, c.name)
  <2>4. renamed \in Seq(Line) /\ Ids(renamed) \subseteq Stored
    BY <2>2, <2>3, RenamedLines
  <2> HIDE DEF renamed
  <2>5. CASE /\ usersFile' = <<>> /\ tail' = "closed"
             /\ job' = {[step |-> "rename", lines |-> renamed]}
    <3>1. IsSlot(job', Job)
      BY <2>4, <2>5, JobMade, SlotMade
    <3>2. JobHashed'
      BY <2>4, <2>5
    <3> QED BY <2>1, <2>5, <3>1, <3>2, NoLines, SlotMade
  <2>6. CASE UNCHANGED <<fileVars, job>>
    BY <2>1, <2>6, SlotMade
  <2> QED BY <2>1, <2>5, <2>6 DEF renamed
<1>8. CASE ChangeNameWrite
  <2>1. PICK j \in job : ChangeNameWrite!(j)
    BY <1>8 DEF ChangeNameWrite
  <2>2. j.lines \in Seq(Line) /\ Ids(j.lines) \subseteq Stored
    BY <2>1, JobFields DEF IsSlot
  <2>3. FileOK'
    BY <2>1, <2>2, TornLines DEF FileOK
  <2> QED BY <2>1, <2>3, SlotMade DEF FileOK
<1>9. CASE RemoveAllDelete
  <2>1. PICK c \in cmd : RemoveAllDelete!(c)
    BY <1>9 DEF RemoveAllDelete
  <2>2. FileOK'
    BY <2>1, NoLines DEF FileOK
  <2> QED BY <2>1, <2>2, JobMade, SlotMade DEF FileOK
<1>10. CASE RemoveAllClear
  BY <1>10, NoLines, SlotMade, UserStoreAssumption DEF RemoveAllClear
<1>11. ASSUME NEW c \in Card, SignalAddUser(c) PROVE StoreInv'
  BY <1>11, CommandMade, SlotMade DEF SignalAddUser
<1>12. ASSUME NEW id \in Id, NEW n \in Name, WebUpdateUser(id, n) PROVE StoreInv'
  <2>1. PICK i \in DOMAIN users : /\ IsFirst(users, i, id)
                                  /\ users' = [users EXCEPT ![i].name = n]
    BY <1>12 DEF WebUpdateUser
  <2>2. id \in Stored
    BY <2>1 DEF IsFirst, Ids
  <2>3. users' \in Seq(Line) /\ Len(users') <= MaxUsers /\ Ids(users') \subseteq Stored
    BY <2>1, ReworkedName
  <2> QED BY <1>12, <2>2, <2>3, CommandMade, SlotMade DEF WebUpdateUser
<1>13. ASSUME NEW id \in Id, WebRemoveUser(id) PROVE StoreInv'
  <2>1. PICK i \in DOMAIN users : IsFirst(users, i, id) /\ users' = SwapRemove(users, i)
    BY <1>13 DEF WebRemoveUser
  <2>2. id \in Stored
    BY <2>1 DEF IsFirst, Ids
  <2>3. users' \in Seq(Line) /\ Len(users') <= MaxUsers /\ Ids(users') \subseteq Stored
    BY <2>1, SwapRemovedLines, LenProperties, UserStoreAssumption
  <2> QED BY <1>13, <2>2, <2>3, CommandMade, SlotMade DEF WebRemoveUser
<1>14. CASE WebRemoveAllUsers
  BY <1>14, CommandMade, SlotMade, NoLines, UserStoreAssumption DEF WebRemoveAllUsers
<1>15. CASE OtherTraffic
  <2>1. IsSlot(cmd', Command)
    BY <1>15, SlotMade DEF OtherTraffic, Command
  <2> QED BY <1>15, <2>1 DEF OtherTraffic
<1>16. CASE LosePower
  <2>1. ASSUME UNCHANGED fileVars PROVE FileOK'
    BY <2>1 DEF FileOK
  <2>2. ASSUME NEW j \in job, NEW piece \in Piece, j.step = "append", PutPiece(j.id, piece)
        PROVE  FileOK'
    BY <2>2, PutLines
  <2>3. ASSUME NEW j \in job, j.step \in {"rewrite", "rename"}, TornRewrite(j.lines)
        PROVE  FileOK'
    <3>1. j.lines \in Seq(Line) /\ Ids(j.lines) \subseteq Stored
      BY <2>3, JobFields DEF IsSlot
    <3> QED BY <2>3, <3>1, TornLines
  <2>4. FileOK'
    BY <1>16, <2>1, <2>2, <2>3 DEF LosePower, FileOK
  <2>5. job' = {[step |-> "load"]} /\ cmd' = {} /\ users' = <<>>
    BY <1>16 DEF LosePower
  <2> QED BY <2>4, <2>5, JobMade, SlotMade, NoLines, UserStoreAssumption DEF FileOK
<1>17. CASE UNCHANGED storeVars
  BY <1>17 DEF storeVars
<1> QED
  BY <1>1, <1>2, <1>3, <1>4, <1>5, <1>6, <1>7, <1>8, <1>9, <1>10, <1>11, <1>12, <1>13,
     <1>14, <1>15, <1>16, <1>17, <1>2a, <1>2b DEF Next, SdStep

(* For every capacity, every set of cards and any sequence of faults,      *)
(* losses of power and lost commands, the variables keep their types: the  *)
(* slot holds one command at most and the cache never outgrows MaxUsers.   *)
THEOREM StoreTypes == Spec => []StoreTypeOK
<1>1. StoreInv => StoreTypeOK
  BY DEF StoreInv
<1> QED BY <1>1, StoreInvInit, StoreInvNext, PTL DEF Spec

(* Under the same circumstances, no card number is ever written to the SD  *)
(* card or kept in the cache: what is stored is the hash of a card.        *)
THEOREM HashesOnly == Spec => []OnlyHashesStored
<1>1. StoreInv => OnlyHashesStored
  BY DEF StoreInv
<1> QED BY <1>1, StoreInvInit, StoreInvNext, PTL DEF Spec

---------------------------------------------------------------------------
(* The cache and the file.  CacheBacked speaks of the moments between two  *)
(* commands; what carries it across a command is what each stage of the    *)
(* command owes the next one.                                              *)

Owed(j) ==
  /\ j.step = "load" => users = <<>>
  /\ j.step = "append" /\ ~damaged => Ids(users) \subseteq Ids(usersFile) \cup astray
  /\ j.step = "push" /\ ~damaged => Ids(users) \cup {j.id} \subseteq Ids(usersFile) \cup astray
  /\ j.step = "rewrite" /\ ~damaged => Ids(users) \ {j.id} \subseteq Ids(j.lines) \cup astray
  /\ j.step = "retain" /\ ~damaged => Ids(users) \ {j.id} \subseteq Ids(usersFile) \cup astray
  /\ j.step = "rename" /\ ~damaged => Ids(users) \subseteq Ids(j.lines) \cup astray

(* As long as nothing failed, only the first line written since the boot   *)
(* can run into a piece of another: it ends the file with a newline.       *)
OneAstray ==
  ~damaged /\ ~failed =>
    /\ \A a, b \in astray : a = b
    /\ astray # {} => tail = "closed"

BackedInv ==
  /\ CacheBacked
  /\ OneAstray
  /\ \A j \in job : Owed(j)

(* The hash of a number that may be stored is not another such number. *)
HashesApart == \A h \in Stored : Hash[h] \notin Stored \ {h}

LEMMA BackedInit == Init => BackedInv
BY NoLines DEF Init, BackedInv, CacheBacked, OneAstray, Owed

(* Nothing but a line that ends the file, or a failure, touches OneAstray. *)
LEMMA OneAstrayNext ==
  ASSUME StoreInv, OneAstray, [Next]_storeVars
  PROVE  OneAstray'
<1> USE DEF OneAstray, fileVars, history
<1> FileOK /\ job \subseteq Job /\ damaged \in BOOLEAN
  BY FileTyped DEF StoreInv, StoreTypeOK, IsSlot
<1>1. CASE AddUserWrite
  <2>1. PICK j \in job : AddUserWrite!(j)
    BY <1>1 DEF AddUserWrite
  <2>2. tail' = "closed"
    BY <2>1, PutLines DEF Piece, StoreInv, JobHashed
  <2>3. ASSUME ~damaged, ~failed PROVE \A a, b \in astray' : a = b
    <3>1. CASE tail = "closed"
      BY <2>1, <2>3, <3>1
    <3>2. CASE tail # "closed"
      <4>1. astray = {}
        BY <2>3, <3>2
      <4>2. astray' = {j.id}
        BY <2>1, <3>2, <4>1
      <4> QED BY <4>2
    <3> QED BY <3>1, <3>2
  <2> QED BY <2>1, <2>2, <2>3
<1>2. CASE AddUserFails
  BY <1>2 DEF AddUserFails
<1>3. CASE RemoveUserOpen
  <2>1. UNCHANGED <<failed, astray>> /\ (~damaged' => ~damaged)
    BY <1>3 DEF RemoveUserOpen
  <2>2. tail' = "closed" \/ UNCHANGED tail
    BY <1>3 DEF RemoveUserOpen
  <2> QED BY <2>1, <2>2
<1>4. CASE RemoveUserWrite \/ ChangeNameWrite
  BY <1>4 DEF RemoveUserWrite, ChangeNameWrite
<1>5. CASE ChangeNameOpen \/ RemoveAllDelete
  <2>1. UNCHANGED history
    BY <1>5 DEF ChangeNameOpen, RemoveAllDelete
  <2>2. tail' = "closed" \/ UNCHANGED tail
    BY <1>5 DEF ChangeNameOpen, RemoveAllDelete
  <2> QED BY <2>1, <2>2
<1>6. CASE LosePower
  BY <1>6 DEF LosePower
<1>7. CASE UNCHANGED <<fileVars, history>>
  BY <1>7
<1>8. LoadUsers \/ AddUserTake \/ AddUserPush \/ RemoveUserRetain \/ RemoveAllClear
        => UNCHANGED <<fileVars, history>>
  BY DEF LoadUsers, AddUserTake, AddUserPush, RemoveUserRetain, RemoveAllClear
<1>9. ASSUME ~SdStep, ~LosePower PROVE UNCHANGED <<fileVars, history>>
  BY <1>9 DEF Next, SignalAddUser, WebUpdateUser, WebRemoveUser, WebRemoveAllUsers, OtherTraffic,
              storeVars
<1> QED BY <1>1, <1>2, <1>3, <1>4, <1>5, <1>6, <1>7, <1>8, <1>9 DEF SdStep

LEMMA BackedNext ==
  ASSUME HashesApart
  PROVE  StoreInv /\ BackedInv /\ [Next]_storeVars => BackedInv'
<1> SUFFICES ASSUME StoreInv, BackedInv, [Next]_storeVars PROVE BackedInv'
  OBVIOUS
<1> OneAstray' /\ damaged' \in BOOLEAN /\ failed' \in BOOLEAN /\ damaged \in BOOLEAN
  BY OneAstrayNext, HistoryTyped DEF BackedInv, StoreInv, StoreTypeOK
<1>0. ASSUME job' = {} /\ ~damaged' => Ids(users') \subseteq (Ids(usersFile) \cup astray)',
             \A j \in job' : Owed(j)'
      PROVE  BackedInv'
  <2>1. CacheBacked'
    BY <1>0 DEF CacheBacked, OneAstray
  <2> QED BY <1>0, <2>1 DEF BackedInv
<1> HIDE DEF BackedInv
<1>00. /\ job = {} /\ ~damaged => Ids(users) \subseteq Ids(usersFile) \cup astray
       /\ \A j \in job : Owed(j)
  BY DEF BackedInv, CacheBacked
<1> USE <1>0, <1>00 DEF Owed, fileVars, history
<1> FileOK
  BY FileTyped DEF StoreInv
<1> /\ usersFile \in Seq(Line) /\ Ids(usersFile) \subseteq Stored
    /\ users \in Seq(Line) /\ Ids(users) \subseteq Stored
    /\ cmd \subseteq Command
    /\ job \subseteq Job
    /\ \A a, b \in job : a = b
  BY DEF StoreInv, StoreTypeOK, OnlyHashesStored, IsSlot
<1>1. CASE LoadUsers
  <2>1. PICK text \in ReadOutcomes : users' = Loaded(text)
    BY <1>1 DEF LoadUsers
  <2>2. text \in Seq(Line) /\ Ids(text) \subseteq Ids(usersFile)
    BY NoLines DEF ReadOutcomes
  <2> QED BY <1>1, <2>1, <2>2, LoadedLines DEF LoadUsers
<1>2. CASE AddUserTake
  <2>1. PICK c \in cmd : AddUserTake!(c)
    BY <1>2 DEF AddUserTake
  <2>2. job' # {} /\ \A j \in job' : j.step = "append"
    BY <2>1
  <2> QED BY <2>1, <2>2
<1>2a. CASE AddUserWrite
  <2>1. PICK j \in job : AddUserWrite!(j)
    BY <1>2a DEF AddUserWrite
  <2>2. /\ Ids(usersFile) \subseteq Ids(usersFile')
        /\ tail = "closed" => j.id \in Ids(usersFile')
    BY <2>1, PutLines DEF Piece, StoreInv, JobHashed
  <2>3. astray \cup (IF tail = "closed" THEN {} ELSE {j.id}) \subseteq astray'
    BY <2>1
  <2>4. ~damaged' => Ids(users') \cup {j.id} \subseteq Ids(usersFile') \cup astray'
    BY <2>1, <2>2, <2>3
  <2>5. job' # {} /\ \A k \in job' : k.step = "push" /\ k.id = j.id
    BY <2>1
  <2> QED BY <2>4, <2>5
<1>2b. CASE AddUserFails
  <2>1. PICK j \in job, piece \in Piece : AddUserFails!(j, piece)
    BY <1>2b DEF AddUserFails
  <2>2. Ids(usersFile) \subseteq Ids(usersFile')
    BY <2>1, PutLines DEF StoreInv, JobHashed
  <2>3. CASE job' = {[j EXCEPT !.try = @ + 1]} /\ UNCHANGED astray
    <3>1. j = [step |-> "append", id |-> j.id, try |-> j.try]
      BY <2>1, JobFields
    <3>2. job' # {} /\ \A k \in job' : k.step = "append"
      BY <2>3, <3>1
    <3>3. ~damaged' => Ids(users') \subseteq Ids(usersFile') \cup astray'
      BY <2>1, <2>2, <2>3
    <3> QED BY <3>2, <3>3
  <2>4. CASE job' = {[step |-> "push", id |-> j.id]} /\ astray' = astray \cup {j.id}
    <3>1. job' # {} /\ \A k \in job' : k.step = "push" /\ k.id = j.id
      BY <2>4
    <3>2. ~damaged' => Ids(users') \cup {j.id} \subseteq Ids(usersFile') \cup astray'
      BY <2>1, <2>2, <2>4
    <3> QED BY <3>1, <3>2
  <2> QED BY <2>1, <2>3, <2>4
<1>3. CASE AddUserPush
  <2>1. PICK j \in job : AddUserPush!(j)
    BY <1>3 DEF AddUserPush
  <2>2. j.id \in Id /\ DefaultName \in Name
    BY <2>1, JobFields, VocabularyAssumption
  <2>3. Ids(users') \subseteq Ids(users) \cup {j.id}
    BY <2>1, <2>2, AppendedLine DEF NewLine
  <2> QED BY <2>1, <2>3
<1>4. CASE RemoveUserOpen
  <2>1. PICK c \in cmd, text \in ReadOutcomes : RemoveUserOpen!(c, text)
    BY <1>4 DEF RemoveUserOpen
  <2> DEFINE left == Without(text, Hash[c.id])
  <2>2. text = usersFile => Ids(left) = Ids(usersFile) \ {Hash[c.id]}
    BY WithoutLines
  <2> HIDE DEF left
  <2>3. users' = users /\ astray' = astray /\ job = {}
    BY <2>1
  <2>4. CASE /\ job' = {[step |-> "rewrite", id |-> Hash[c.id], lines |-> left]}
             /\ damaged' = (damaged \/ text # usersFile)
    <3>0. ~damaged' => ~damaged /\ text = usersFile
      BY <2>4, Zenon
    <3>1. ~damaged' => Ids(users') \ {Hash[c.id]} \subseteq Ids(left) \cup astray'
      BY <2>2, <2>3, <3>0
    <3>2. job' # {} /\ \A j \in job' : j.step = "rewrite" /\ j.id = Hash[c.id] /\ j.lines = left
      BY <2>4
    <3> QED BY <3>1, <3>2
  <2>5. CASE /\ job' = {[step |-> "retain", id |-> Hash[c.id]]}
             /\ UNCHANGED <<fileVars, damaged>>
    <3>1. job' # {} /\ \A j \in job' : j.step = "retain" /\ j.id = Hash[c.id]
      BY <2>5
    <3> QED BY <2>3, <2>5, <3>1
  <2> QED BY <2>1, <2>4, <2>5 DEF left
<1>5. CASE RemoveUserWrite
  <2>1. PICK j \in job : RemoveUserWrite!(j)
    BY <1>5 DEF RemoveUserWrite
  <2>2. ~damaged' => Ids(users') \ {j.id} \subseteq Ids(usersFile') \cup astray'
    BY <2>1
  <2>3. job' # {} /\ \A k \in job' : k.step = "retain" /\ k.id = j.id
    BY <2>1
  <2> QED BY <2>2, <2>3
<1>6. CASE RemoveUserRetain
  <2>1. PICK j \in job : RemoveUserRetain!(j)
    BY <1>6 DEF RemoveUserRetain
  <2>2. Ids(users') = Ids(users) \ {j.id}
    BY <2>1, WithoutLines
  <2> QED BY <2>1, <2>2
<1>7. CASE ChangeNameOpen
  <2>1. PICK c \in cmd, text \in ReadOutcomes : ChangeNameOpen!(c, text)
    BY <1>7 DEF ChangeNameOpen
  <2>2. c.id \in Stored /\ c.id \in Id /\ c.name \in Name
    BY <2>1, CommandFields, HashType
  <2> DEFINE renamed == Renamed(text, c.id, c.name)
  <2>3. CASE Hash[c.id] \in Ids(text) /\ job' = {[step |-> "rename", lines |-> renamed]}
    <3>0. text = usersFile
      BY <2>3, NoLines DEF ReadOutcomes
    <3>1. Hash[c.id] = c.id
      BY <2>2, <2>3, <3>0 DEF HashesApart
    <3>2. Ids(renamed) = Ids(usersFile)
      BY <2>2, <3>0, <3>1, RenamedLines
    <3> HIDE DEF renamed
    <3>3. ~damaged' => Ids(users') \subseteq Ids(renamed) \cup astray'
      BY <2>1, <3>2
    <3>4. job' # {} /\ \A j \in job' : j.step = "rename" /\ j.lines = renamed
      BY <2>3
    <3> QED BY <3>3, <3>4
  <2>4. CASE UNCHANGED <<fileVars, job>>
    BY <2>1, <2>4
  <2> QED BY <2>1, <2>3, <2>4
<1>8. CASE ChangeNameWrite
  BY <1>8 DEF ChangeNameWrite
<1>9. CASE RemoveAllDelete
  <2>1. job' = {[step |-> "clear"]}
    BY <1>9 DEF RemoveAllDelete
  <2>2. job' # {} /\ \A j \in job' : j.step = "clear"
    BY <2>1
  <2> QED BY <2>2
<1>10. CASE RemoveAllClear
  BY <1>10, NoLines DEF RemoveAllClear
<1>11. ASSUME NEW c \in Card, SignalAddUser(c) PROVE BackedInv'
  BY <1>11 DEF SignalAddUser
<1>12. ASSUME NEW id \in Id, NEW n \in Name, WebUpdateUser(id, n) PROVE BackedInv'
  <2>1. PICK i \in DOMAIN users : users' = [users EXCEPT ![i].name = n]
    BY <1>12 DEF WebUpdateUser
  <2>2. Ids(users') = Ids(users)
    BY <2>1, ReworkedName
  <2> QED BY <1>12, <2>2, JobFields DEF WebUpdateUser, Booted
<1>13. ASSUME NEW id \in Id, WebRemoveUser(id) PROVE BackedInv'
  <2>1. PICK i \in DOMAIN users : users' = SwapRemove(users, i)
    BY <1>13 DEF WebRemoveUser
  <2>2. Ids(users') \subseteq Ids(users)
    BY <2>1, SwapRemovedLines
  <2> QED BY <1>13, <2>2, JobFields DEF WebRemoveUser, Booted
<1>14. CASE WebRemoveAllUsers
  <2>1. Ids(users') = {} /\ UNCHANGED <<usersFile, job, damaged, astray>>
    BY <1>14, NoLines DEF WebRemoveAllUsers
  <2>2. users' = <<>>
    BY <1>14 DEF WebRemoveAllUsers
  <2> QED BY <2>1, <2>2
<1>15. CASE OtherTraffic
  BY <1>15 DEF OtherTraffic
<1>16. CASE LosePower
  <2>1. job' = {[step |-> "load"]} /\ users' = <<>>
    BY <1>16 DEF LosePower
  <2>2. job' # {} /\ \A j \in job' : j.step = "load"
    BY <2>1
  <2> QED BY <2>1, <2>2
<1>17. CASE UNCHANGED storeVars
  BY <1>17 DEF storeVars
<1> QED
  BY <1>1, <1>2, <1>3, <1>4, <1>5, <1>6, <1>7, <1>8, <1>9, <1>10, <1>11, <1>12, <1>13,
     <1>14, <1>15, <1>16, <1>17, <1>2a, <1>2b DEF Next, SdStep

(* As long as no number the file may hold collides with the hash of        *)
(* another, everyone the cache lets in has a line on the card whenever the *)
(* SD task is between commands: whatever the web handlers do to the cache  *)
(* meanwhile, whichever commands are lost, whenever the power goes and     *)
(* whichever attempts fail, unless a rewrite gave up or a read failed      *)
(* since the boot.  The exceptions are the users whose own line was given  *)
(* up or written behind a piece of another; as long as no append failed    *)
(* since the boot, that is one user at most.                               *)
THEOREM CacheIsBacked ==
  ASSUME HashesApart
  PROVE  Spec => []CacheBacked
<1>1. BackedInv => CacheBacked
  BY DEF BackedInv
<1>2. StoreInv /\ BackedInv /\ [Next]_storeVars => BackedInv'
  BY BackedNext
<1> QED BY <1>1, <1>2, StoreInvInit, StoreInvNext, BackedInit, PTL DEF Spec

---------------------------------------------------------------------------
(* Whom the file lists.  A step that neither touches the file nor begins   *)
(* or ends a rewrite lists the same users; of the others it depends on     *)
(* what the rewrite was given.                                             *)

Named(id) ==
  \E c \in cmd : c.op = "RemoveAllUsers" \/ (c.op = "RemoveUser" /\ Hash[c.id] = id)

NobodyElse == ~damaged' /\ ~(LosePower /\ Rewriting) => \A id \in Listed \ Listed' : Named(id)

LEMMA ListedKept ==
  ASSUME HashesApart
  PROVE  StoreInv /\ [Next]_storeVars => NobodyElse
<1> SUFFICES ASSUME StoreInv, [Next]_storeVars, ~damaged', ~(LosePower /\ Rewriting)
             PROVE  \A id \in Listed \ Listed' : Named(id)
  BY DEF NobodyElse
<1> USE DEF Listed, Rewriting, fileVars, history
<1> FileOK
  BY FileTyped DEF StoreInv
<1> /\ usersFile \in Seq(Line) /\ Ids(usersFile) \subseteq Stored
    /\ cmd \subseteq Command
    /\ job \subseteq Job
    /\ \A a, b \in job : a = b
  BY DEF StoreInv, StoreTypeOK, OnlyHashesStored, IsSlot
<1>1. CASE LoadUsers \/ AddUserPush \/ RemoveUserRetain \/ RemoveAllClear
  <2>1. \E j \in job : j.step \in {"load", "push", "retain", "clear"}
    BY <1>1 DEF LoadUsers, AddUserPush, RemoveUserRetain, RemoveAllClear
  <2>2. job' = {} /\ UNCHANGED usersFile
    BY <1>1 DEF LoadUsers, AddUserPush, RemoveUserRetain, RemoveAllClear
  <2> QED BY <2>1, <2>2
<1>2. CASE AddUserTake
  <2>1. job = {} /\ UNCHANGED usersFile /\ \A j \in job' : j.step = "append"
    BY <1>2 DEF AddUserTake
  <2> QED BY <2>1
<1>2a. CASE AddUserWrite \/ AddUserFails
  <2>1. PICK j \in job, piece \in Piece : j.step = "append" /\ PutPiece(j.id, piece)
    BY <1>2a DEF AddUserWrite, AddUserFails, Piece
  <2>2. Ids(usersFile) \subseteq Ids(usersFile')
    BY <2>1, PutLines DEF StoreInv, JobHashed
  <2>3. j = [step |-> "append", id |-> j.id, try |-> j.try]
    BY <2>1, JobFields
  <2>4. \A k \in job' : k.step \in {"append", "push"}
    <3>1. CASE AddUserWrite
      BY <3>1 DEF AddUserWrite
    <3>2. CASE job' = {[j EXCEPT !.try = @ + 1]}
      BY <2>3, <3>2
    <3>3. AddUserFails => job' = {[j EXCEPT !.try = @ + 1]} \/ job' = {[step |-> "push", id |-> j.id]}
      BY DEF AddUserFails
    <3> QED BY <1>2a, <3>1, <3>2, <3>3
  <2>5. Listed = Ids(usersFile) /\ Listed' = Ids(usersFile')
    BY <2>1, <2>4
  <2> QED BY <2>2, <2>5
<1>3. CASE RemoveUserOpen
  <2>1. PICK c \in cmd, text \in ReadOutcomes : RemoveUserOpen!(c, text)
    BY <1>3 DEF RemoveUserOpen
  <2> DEFINE left == Without(text, Hash[c.id])
  <2>2. text = usersFile => Ids(left) = Ids(usersFile) \ {Hash[c.id]}
    BY WithoutLines
  <2> HIDE DEF left
  <2>3. Listed = Ids(usersFile)
    BY <2>1
  <2>4. CASE /\ job' = {[step |-> "rewrite", id |-> Hash[c.id], lines |-> left]}
             /\ damaged' = (damaged \/ text # usersFile)
    <3>1. text = usersFile
      BY <2>4, Zenon
    <3>2. Listed' = Ids(left)
      BY <2>4
    <3>3. \A id \in Listed \ Listed' : Hash[c.id] = id
      BY <2>2, <2>3, <3>1, <3>2
    <3> QED BY <2>1, <3>3 DEF Named
  <2>5. CASE /\ job' = {[step |-> "retain", id |-> Hash[c.id]]}
             /\ UNCHANGED usersFile
    <3>1. Listed' = Ids(usersFile)
      BY <2>5
    <3> QED BY <2>3, <3>1
  <2> QED BY <2>1, <2>4, <2>5 DEF left
<1>4. CASE RemoveUserWrite \/ ChangeNameWrite
  <2>1. PICK j \in job : j.step \in {"rewrite", "rename"} /\ usersFile' = j.lines
    BY <1>4 DEF RemoveUserWrite, ChangeNameWrite
  <2>2. \A k \in job' : k.step = "retain"
    BY <1>4 DEF RemoveUserWrite, ChangeNameWrite
  <2>3. Listed = Ids(j.lines) /\ Listed' = Ids(usersFile')
    BY <2>1, <2>2
  <2> QED BY <2>1, <2>3
<1>5. CASE ChangeNameOpen
  <2>1. PICK c \in cmd, text \in ReadOutcomes : ChangeNameOpen!(c, text)
    BY <1>5 DEF ChangeNameOpen
  <2>2. c.id \in Stored /\ c.id \in Id /\ c.name \in Name
    BY <2>1, CommandFields, HashType
  <2> DEFINE renamed == Renamed(text, c.id, c.name)
  <2>3. CASE Hash[c.id] \in Ids(text) /\ job' = {[step |-> "rename", lines |-> renamed]}
    <3>1. text = usersFile
      BY <2>3, NoLines DEF ReadOutcomes
    <3>2. Hash[c.id] = c.id
      BY <2>2, <2>3, <3>1 DEF HashesApart
    <3>3. Ids(renamed) = Ids(usersFile)
      BY <2>2, <3>1, <3>2, RenamedLines
    <3> HIDE DEF renamed
    <3>4. Listed = Ids(usersFile) /\ Listed' = Ids(renamed)
      BY <2>1, <2>3
    <3> QED BY <3>3, <3>4
  <2>4. CASE UNCHANGED <<usersFile, job>>
    BY <2>4
  <2> QED BY <2>1, <2>3, <2>4
<1>6. CASE RemoveAllDelete
  BY <1>6 DEF RemoveAllDelete, Named
<1>7. CASE LosePower
  <2>1. ~Rewriting
    BY <1>7
  <2>2. ASSUME NEW j \in job, NEW piece \in Piece, j.step = "append", PutPiece(j.id, piece)
        PROVE  Ids(usersFile) \subseteq Ids(usersFile')
    BY <2>2, PutLines DEF StoreInv, JobHashed
  <2>3. Ids(usersFile) \subseteq Ids(usersFile') /\ job' = {[step |-> "load"]}
    BY <1>7, <2>1, <2>2 DEF LosePower
  <2>4. Listed = Ids(usersFile) /\ Listed' = Ids(usersFile')
    BY <2>1, <2>3
  <2> QED BY <2>3, <2>4
<1>8. CASE UNCHANGED <<usersFile, job>>
  BY <1>8
<1>9. ASSUME ~SdStep, ~LosePower PROVE UNCHANGED <<usersFile, job>>
  BY <1>9 DEF Next, SignalAddUser, WebUpdateUser, WebRemoveUser, WebRemoveAllUsers, OtherTraffic, storeVars
<1> QED BY <1>1, <1>2, <1>3, <1>4, <1>5, <1>6, <1>7, <1>8, <1>9, <1>2a DEF SdStep

(* Whatever lines are added, torn, glued, removed and rewritten, whichever *)
(* commands are lost and whenever the power goes, a user the file lists    *)
(* goes only by a command that names it, or all: unless a rewrite gave up  *)
(* or a read failed since the boot, or a rewrite was cut off.              *)
THEOREM NoUserDropped ==
  ASSUME HashesApart
  PROVE  Spec => NobodyDropped
<1>1. StoreInv /\ [Next]_storeVars => [NobodyElse]_storeVars
  BY ListedKept
<1>2. [NobodyElse]_storeVars =>
        [~damaged' /\ ~(LosePower /\ Rewriting) =>
           \A id \in Listed \ Listed' : \E c \in cmd :
             c.op = "RemoveAllUsers" \/ (c.op = "RemoveUser" /\ Hash[c.id] = id)]_storeVars
  BY DEF NobodyElse, Named
<1> QED BY <1>1, <1>2, StoreInvInit, StoreInvNext, PTL DEF Spec, NobodyDropped
=============================================================================
