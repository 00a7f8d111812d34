--------------------------- MODULE LibraryProofs ---------------------------
(***************************************************************************)
(* Theorems about three parts of the library.  PackageAudit: what an audit *)
(* reports, for any number of packages, paths, files, contents and changes *)
(* by others.  Digest: for every size of block, length and byte, every set *)
(* of bytes and every number of them.  ArrayList: for lists of any length. *)
(***************************************************************************)
EXTENDS PackageAudit, Digest, SequenceTheorems, FiniteSetTheorems, TLAPS

(* The values and the variables of ArrayList. *)
CONSTANT Values

VARIABLES size, capacity, values, block, call, asked, value, new_capacity, list,
          lost, fault

List == INSTANCE ArrayList

-----------------------------------------------------------------------------
(* PackageAudit. *)

Hashing == {"access", "stat", "open", "read", "append", "progress"}

Row == [path : Paths, size : Nat, sha256 : Seq(Chunks)]

Typed ==
  /\ installed \in SUBSET Packages
  /\ inode \in [Paths -> Inodes \union {Dir, NULL}]
  /\ content \in [Inodes -> Contents]
  /\ packages \in Seq(Packages) /\ output \in Seq(Paths \union {BrokenLine})
  /\ files \in Seq(Paths) /\ hashes \in Seq(Row)
  /\ row_count \in Nat /\ row \in Nat /\ st_size \in Nat
  /\ told \in [total : Nat, current : Nat]
  /\ data \in Seq(Chunks)

OneName == \A p, q \in Paths : p # q /\ inode[p] \in Inodes => inode[p] # inode[q]

(* The row a pass is at is a row of its table, whose rows were counted. *)
RowInTable ==
  /\ pc \in {"start", "packages"} => row = 0 /\ row_count = 0
  /\ pc \in {"popen", "getline"} => row_count = Len(packages) /\ row < row_count
  /\ pc \in Hashing \union {"exit"} => row_count = Len(files) /\ row < row_count
  /\ pc = "done" => row >= Len(files)

(* A package is in the database or was erased, and all of the database that *)
(* rpm told of is in the table.                                             *)
PackagesKnown ==
  /\ \A j \in DOMAIN packages : packages[j] \in installed \union touched
  /\ pc \in {"packages", "popen", "getline", "listed", "done"} \union Hashing =>
       \A p \in installed \ unlisted : \E j \in DOMAIN packages : packages[j] = p

(* A line is broken only if the package was erased, or rpm broke off. *)
OutputKnown ==
  /\ pc = "getline" =>
       \A n \in DOMAIN output : output[n] = BrokenLine => package \in touched \union unlisted
  /\ pc = "null" => IF row_count = 0 THEN unlisted # {} ELSE package \in touched \union unlisted

(* The rows that reading did not finish are those before the one at hand,   *)
(* and that one once its file has given the error.                          *)
MisreadKnown ==
  /\ misread \subseteq 1..(Len(hashes) + 1)
  /\ Len(hashes) + 1 \in misread => pc = "append"

(* What was read of a content for row k. *)
ReadOf(k, bytes, whole) ==
  IF k \in misread THEN IsStrictPrefix(bytes, whole) ELSE bytes = whole

(* While a file is hashed, nobody having touched it, it is the file that    *)
(* was looked at, and what was read is the beginning of it.                 *)
FileHeld ==
  LET path == files[row + 1]
  IN /\ pc \in {"open", "read", "append"} /\ path \notin touched =>
          Regular(path) /\ st_size = Len(content[inode[path]])
     /\ pc \in {"read", "append"} /\ path \notin touched => fd = inode[path]
     /\ pc = "read" /\ path \notin touched =>
          /\ Len(data) <= Len(content[fd])
          /\ \A n \in 1..Len(data) : data[n] = content[fd][n]
     /\ pc = "append" /\ path \notin touched => ReadOf(Len(hashes) + 1, data, content[fd])
     /\ pc \in {"read", "append"} => fd # NULL
     /\ pc = "exit" => path \in touched

RowsHeld ==
  \A k \in DOMAIN hashes :
    hashes[k].path \notin touched =>
      /\ inode[hashes[k].path] \in Inodes
      /\ hashes[k].size = Len(content[inode[hashes[k].path]])
      /\ ReadOf(k, hashes[k].sha256, content[inode[hashes[k].path]])

(* What the packages passed list is in the table of the second pass, and of *)
(* the package at hand what is not is still to come.                        *)
Cut(path) == \E n \in DOMAIN files : files[n] = FirstWord[path]

FilesListed ==
  /\ pc \in {"popen", "getline", "listed", "done"} \union Hashing =>
       \A j \in DOMAIN packages :
         (j <= row \/ pc \notin {"popen", "getline"}) 
           /\ packages[j] \notin touched \union unlisted =>
             \A k \in DOMAIN Listed[packages[j]] : Cut(Listed[packages[j]][k])
  /\ pc = "getline" /\ package \notin touched \union unlisted =>
       \A k \in DOMAIN Listed[package] :
         \/ Cut(Listed[package][k])
         \/ \E n \in DOMAIN output : output[n] = Listed[package][k]

(* The files passed have their row. *)
HasRow(path) == \E m \in DOMAIN hashes : hashes[m].path = path

FilesHashed ==
  pc \in Hashing \union {"done"} =>
    \A n \in DOMAIN files :
      /\ n <= row \/ (pc = "progress" /\ n = row + 1)
      /\ files[n] \notin touched /\ Regular(files[n])
      => HasRow(files[n])

(* The callback has heard of the rows passed, but for files that were missed. *)
ToldBehind ==
  /\ pc \in {"start", "packages", "popen", "getline"} => told.current = row
  /\ pc \in Hashing => /\ told.current <= row
                       /\ \A n \in told.current + 1 .. row : Missed(n)

Inv == /\ Typed /\ OneName /\ RowInTable /\ PackagesKnown /\ OutputKnown /\ MisreadKnown
       /\ FileHeld /\ RowsHeld /\ FilesListed /\ FilesHashed /\ ToldBehind

-----------------------------------------------------------------------------
(* SetToSeq is a sequence of what a finite set has. *)
LEMMA SequenceOfSet ==
  ASSUME NEW S, IsFiniteSet(S)
  PROVE  SetToSeq(S) \in Seq(S)
<1> DEFINE n == Cardinality(S)
<1>1. n \in Nat /\ Bijection(1..n, S) # {}
  BY FS_CardinalityType DEF ExistsBijection
<1>2. \E f \in [1..n -> S] : IsInjective(f)
  BY <1>1 DEF Bijection, Injection
<1>3. SetToSeq(S) \in [1..n -> S]
  BY <1>2 DEF SetToSeq
<1> QED  BY <1>1, <1>3

(* What rpm prints of a package, wholly or broken off, are lines. *)
LEMMA LinesPrinted ==
  ASSUME Typed, row < Len(packages)
  PROVE  /\ package \in Packages /\ Listed[package] \in Seq(Paths)
         /\ Printed \in Seq(Paths \union {BrokenLine})
         /\ BrokenOff \subseteq Seq(Paths \union {BrokenLine})
<1> DEFINE Lines == Paths \union {BrokenLine}
<1>1. package \in Packages
  BY DEF Typed, package
<1>2. Listed[package] \in Seq(Paths)
  BY <1>1, ListedAssumption
<1>3. Printed \in Seq(Lines)
  <2>1. BrokenLine \in Lines
    OBVIOUS
  <2>2. <<BrokenLine>> \in Seq(Lines) /\ Listed[package] \in Seq(Lines)
    BY <1>2, <2>1
  <2> QED  BY <2>2 DEF Printed
<1>4. ASSUME NEW n \in DOMAIN Printed
      PROVE  /\ SubSeq(Printed, 1, n - 1) \in Seq(Lines)
             /\ Append(SubSeq(Printed, 1, n - 1), BrokenLine) \in Seq(Lines)
  <2>1. n \in Nat /\ \A i \in 1 .. n - 1 : Printed[i] \in Lines
    BY <1>3
  <2>2. SubSeq(Printed, 1, n - 1) \in Seq(Lines)
    BY <2>1, SubSeqProperties
  <2> QED  BY <2>2
<1> QED  BY <1>1, <1>2, <1>3, <1>4 DEF BrokenOff

LEMMA InitInv == Init => Inv
<1> SUFFICES ASSUME Init  PROVE Inv  OBVIOUS
<1>1. Typed
  BY DEF Init, InitialInodes, Typed
<1>2. OneName
  BY DEF Init, InitialInodes, OneName
<1> QED
  BY <1>1, <1>2 DEF Init, Inv, RowInTable, PackagesKnown, OutputKnown, MisreadKnown,
      FileHeld, RowsHeld, FilesListed, FilesHashed, ToldBehind, Hashing

-----------------------------------------------------------------------------
(* What a step leaves alone: the packages and the files nobody touched. *)
UntouchedStay ==
  /\ touched \subseteq touched'
  /\ installed' \subseteq installed
  /\ installed \ touched' \subseteq installed'
  /\ \A path \in Paths : path \notin touched' =>
       /\ inode'[path] = inode[path]
       /\ inode[path] \in Inodes => content'[inode[path]] = content[inode[path]]

LEMMA OthersTouch ==
  ASSUME Typed, OneName, Others
  PROVE  /\ UntouchedStay /\ OneName' /\ UNCHANGED <<pc, dataVars>>
         /\ installed' \in SUBSET Packages
         /\ inode' \in [Paths -> Inodes \union {Dir, NULL}]
         /\ content' \in [Inodes -> Contents]
<1>1. CASE \E p \in Packages : ErasePackage(p)
  BY <1>1 DEF ErasePackage, Change, UntouchedStay, Typed, OneName
<1>2. ASSUME NEW path \in Paths, RemoveFile(path)
      PROVE  /\ UntouchedStay /\ OneName' /\ UNCHANGED <<pc, dataVars>>
             /\ installed' \in SUBSET Packages
             /\ inode' \in [Paths -> Inodes \union {Dir, NULL}]
             /\ content' \in [Inodes -> Contents]
  BY <1>2, NamesAssumption DEF RemoveFile, Change, UntouchedStay, Typed, OneName
<1>3. ASSUME NEW path \in Paths, Rewrite(path)
      PROVE  /\ UntouchedStay /\ OneName' /\ UNCHANGED <<pc, dataVars>>
             /\ installed' \in SUBSET Packages
             /\ inode' \in [Paths -> Inodes \union {Dir, NULL}]
             /\ content' \in [Inodes -> Contents]
  BY <1>3 DEF Rewrite, Change, UntouchedStay, Typed, OneName
<1>4. ASSUME NEW path \in Paths, NEW i \in Inodes \union {Dir}, Replace(path, i)
      PROVE  /\ UntouchedStay /\ OneName' /\ UNCHANGED <<pc, dataVars>>
             /\ installed' \in SUBSET Packages
             /\ inode' \in [Paths -> Inodes \union {Dir, NULL}]
             /\ content' \in [Inodes -> Contents]
  <2>1. /\ inode' = [inode EXCEPT ![path] = i]
        /\ touched' = touched \union {path} /\ installed' = installed
        /\ UNCHANGED <<pc, dataVars>>
    BY <1>4 DEF Replace, Change
  <2>2. CASE i \in Inodes
    <3>1. \A p \in Paths : inode[p] # i
      BY <1>4, <2>2, NamesAssumption DEF Replace
    <3>2. PICK c \in Contents : content' = [content EXCEPT ![i] = c]
      BY <1>4, <2>2, NamesAssumption DEF Replace
    <3>3. UntouchedStay
      BY <2>1, <3>1, <3>2 DEF UntouchedStay, Typed
    <3>4. OneName'
      BY <2>1, <3>1 DEF OneName, Typed
    <3> QED  BY <2>1, <2>2, <3>2, <3>3, <3>4 DEF Typed
  <2>3. CASE i = Dir
    <3>1. content' = content
      BY <1>4, <2>3 DEF Replace
    <3>2. UntouchedStay
      BY <2>1, <3>1 DEF UntouchedStay, Typed
    <3>3. OneName'
      BY <2>1, <2>3, NamesAssumption DEF OneName, Typed
    <3> QED  BY <2>1, <2>3, <3>1, <3>2, <3>3 DEF Typed
  <2> QED  BY <2>2, <2>3
<1> QED  BY <1>1, <1>2, <1>3, <1>4 DEF Others

LEMMA OthersInv ==
  ASSUME Inv, Others  PROVE Inv'
<1>1. /\ UntouchedStay /\ OneName' /\ UNCHANGED <<pc, dataVars>>
      /\ installed' \in SUBSET Packages
      /\ inode' \in [Paths -> Inodes \union {Dir, NULL}]
      /\ content' \in [Inodes -> Contents]
  BY OthersTouch DEF Inv
<1> USE DEF dataVars
<1>2. Typed'
  BY <1>1 DEF Inv, Typed
<1>3. RowInTable' /\ MisreadKnown'
  BY <1>1 DEF Inv, RowInTable, MisreadKnown
<1>4. PackagesKnown'
  BY <1>1 DEF Inv, PackagesKnown, UntouchedStay, Typed
<1>5. OutputKnown'
  BY <1>1 DEF Inv, OutputKnown, UntouchedStay, package
<1>6. FilesListed'
  BY <1>1 DEF Inv, FilesListed, Cut, UntouchedStay, package
<1>7. \A path \in Paths : path \notin touched' => (Regular(path))' = Regular(path)
  BY <1>1 DEF UntouchedStay, Regular
<1>8. FileHeld'
  <2> DEFINE path == files[row + 1]
  <2>1. CASE pc \in {"open", "read", "append"}
    <3>1. path \in Paths
      BY <2>1 DEF Inv, Typed, RowInTable, Hashing
    <3>2. CASE path \in touched'
      BY <1>1, <3>2, <2>1 DEF Inv, FileHeld
    <3>3. CASE path \notin touched'
      <4>1. path \notin touched /\ Regular(path) /\ inode[path] \in Inodes
        BY <1>1, <2>1, <3>3 DEF Inv, FileHeld, UntouchedStay, Regular
      <4>2. inode'[path] = inode[path] /\ content'[inode[path]] = content[inode[path]]
        BY <1>1, <3>1, <3>3, <4>1 DEF UntouchedStay
      <4>3. pc \in {"read", "append"} => content'[fd] = content[fd]
        BY <4>1, <4>2 DEF Inv, FileHeld
      <4> QED  BY <1>1, <1>7, <3>1, <3>3, <4>1, <4>2, <4>3 DEF Inv, FileHeld, ReadOf
    <3> QED  BY <3>2, <3>3
  <2>2. CASE pc \notin {"open", "read", "append"}
    BY <1>1, <2>2 DEF Inv, FileHeld, UntouchedStay
  <2> QED  BY <2>1, <2>2
<1>9. RowsHeld'
  <2> SUFFICES ASSUME NEW k \in DOMAIN hashes, hashes[k].path \notin touched'
               PROVE  /\ inode'[hashes[k].path] \in Inodes
                      /\ hashes[k].size = Len(content'[inode'[hashes[k].path]])
                      /\ ReadOf(k, hashes[k].sha256, content'[inode'[hashes[k].path]])
    BY <1>1 DEF RowsHeld, ReadOf
  <2>1. hashes[k].path \in Paths
    <3>1. hashes[k] \in Row
      BY DEF Inv, Typed
    <3> QED  BY <3>1 DEF Row
  <2> QED  BY <1>1, <2>1 DEF Inv, RowsHeld, UntouchedStay
<1>10. FilesHashed'
  <2> SUFFICES ASSUME pc \in Hashing \union {"done"}, NEW n \in DOMAIN files,
                      n <= row \/ (pc = "progress" /\ n = row + 1),
                      files[n] \notin touched', (Regular(files[n]))'
               PROVE  HasRow(files[n])
    BY <1>1 DEF FilesHashed, HasRow
  <2>1. files[n] \in Paths
    BY DEF Inv, Typed
  <2>2. files[n] \notin touched /\ (Regular(files[n]))' = Regular(files[n])
    BY <1>1, <1>7, <2>1 DEF UntouchedStay
  <2> QED  BY <1>1, <2>2 DEF Inv, FilesHashed
<1>11. ToldBehind'
  <2> SUFFICES ASSUME pc \in Hashing, NEW n \in told.current + 1 .. row
               PROVE  Missed(n)'
    BY <1>1 DEF Inv, ToldBehind
  <2>1. n \in DOMAIN files
    BY DEF Inv, Typed, RowInTable
  <2>2. files[n] \in Paths
    BY <2>1 DEF Inv, Typed
  <2> QED  BY <1>1, <2>2 DEF Inv, ToldBehind, Missed, UntouchedStay
<1> QED
  BY <1>1, <1>2, <1>3, <1>4, <1>5, <1>6, <1>8, <1>9, <1>10, <1>11 DEF Inv

-----------------------------------------------------------------------------
(* The first and the second pass. *)
LEMMA RpmInv ==
  ASSUME Inv, package_get_rpm_info  PROVE Inv'
<1> USE DEF worldVars, Inv, Hashing
<1>1. /\ pc = "start"
      /\ UNCHANGED <<output, files, row_count, row, st_size, fd, data, hashes, told, misread,
                     worldVars>>
  BY DEF package_get_rpm_info
<1>2. ASSUME NEW n \in 0 .. Len(SetToSeq(installed)),
             packages' = SubSeq(SetToSeq(installed), 1, n),
             unlisted' = installed \ Range(packages'),
             pc' = "packages" \/ (unlisted' # {} /\ pc' = "null")
      PROVE  Inv'
  <2>1. IsFiniteSet(installed)
    BY PackagesAssumption, FS_Subset DEF Typed
  <2>2. packages' \in Seq(installed)
    <3>1. SetToSeq(installed) \in Seq(installed)
      BY <2>1, SequenceOfSet
    <3>2. n \in Int /\ \A i \in 1 .. n : SetToSeq(installed)[i] \in installed
      BY <3>1
    <3> QED  BY <1>2, <3>2, SubSeqProperties
  <2>3. packages' \in Seq(Packages) /\ \A j \in DOMAIN packages' : packages'[j] \in installed
    BY <2>2 DEF Typed
  <2>4. Typed'
    BY <1>1, <2>3 DEF Typed
  <2>5. PackagesKnown'
    <3>1. \A p \in installed \ unlisted' : \E j \in DOMAIN packages' : packages'[j] = p
      BY <1>2 DEF Range
    <3> QED  BY <1>1, <2>3, <3>1 DEF PackagesKnown
  <2> QED
    BY <1>1, <1>2, <2>4, <2>5
    DEF OneName, RowInTable, OutputKnown, MisreadKnown, FileHeld, RowsHeld, ReadOf, FilesListed,
        FilesHashed, ToldBehind
<1>3. CASE pc' = "no table" /\ packages' = packages /\ unlisted' = unlisted
  BY <1>1, <1>3
  DEF Typed, OneName, RowInTable, PackagesKnown, OutputKnown, MisreadKnown, FileHeld, RowsHeld,
      ReadOf, FilesListed, FilesHashed, ToldBehind
<1> QED  BY <1>2, <1>3 DEF package_get_rpm_info

LEMMA FilesInfoInv ==
  ASSUME Inv, package_get_rpm_files_info  PROVE Inv'
<1> USE DEF worldVars, Inv, Hashing
<1>1. /\ pc = "packages" /\ row = 0 /\ row_count' = Len(packages)
      /\ pc' = IF packages = <<>> THEN "listed" ELSE "popen"
      /\ UNCHANGED <<packages, output, files, row, st_size, fd, data, hashes, told, unlisted,
                     misread, worldVars>>
  BY DEF package_get_rpm_files_info, RowInTable
<1>2. /\ Len(packages) \in Nat /\ (packages # <<>> => 0 < Len(packages))
      /\ \A j \in DOMAIN packages : ~ j <= 0
  BY DEF Typed
<1> QED
  BY <1>1, <1>2
  DEF Typed, OneName, RowInTable, PackagesKnown, OutputKnown, MisreadKnown, FileHeld, RowsHeld,
      ReadOf, FilesListed, Cut, FilesHashed, ToldBehind

LEMMA PopenInv ==
  ASSUME Inv, popen  PROVE Inv'
<1> USE DEF worldVars, Inv, Hashing
<1>1. /\ pc = "popen" /\ row < Len(packages)
      /\ UNCHANGED <<packages, files, row_count, row, st_size, fd, data, hashes, told, misread,
                     worldVars>>
      /\ package' = package
  BY DEF popen, RowInTable, package
<1>2. /\ package \in Packages /\ Listed[package] \in Seq(Paths)
      /\ Printed \in Seq(Paths \union {BrokenLine})
      /\ BrokenOff \subseteq Seq(Paths \union {BrokenLine})
  BY <1>1, LinesPrinted
<1>3. CASE pc' = "getline" /\ output' = Printed /\ unlisted' = unlisted
  <2>1. Typed'
    BY <1>1, <1>2, <1>3 DEF Typed
  <2>2. package \notin installed => package \in touched
    BY <1>1, <1>2 DEF PackagesKnown, package, Typed
  <2>3. OutputKnown'
    BY <1>1, <1>2, <1>3, <2>2, NamesAssumption DEF OutputKnown, Printed
  <2>4. FilesListed'
    BY <1>1, <1>3, <2>2 DEF FilesListed, Cut, Printed
  <2> QED
    BY <1>1, <1>3, <2>1, <2>3, <2>4
    DEF OneName, RowInTable, PackagesKnown, MisreadKnown, FileHeld, RowsHeld, ReadOf, FilesHashed,
        ToldBehind
<1>4. CASE pc' = "getline" /\ output' \in BrokenOff /\ unlisted' = unlisted \union {package}
  <2>1. Typed'
    BY <1>1, <1>2, <1>4 DEF Typed
  <2>2. FilesListed'
    BY <1>1, <1>4 DEF FilesListed, Cut
  <2> QED
    BY <1>1, <1>4, <2>1, <2>2
    DEF OneName, RowInTable, PackagesKnown, OutputKnown, MisreadKnown, FileHeld, RowsHeld, ReadOf,
        FilesHashed, ToldBehind
<1>5. CASE pc' = "abort" /\ output' = output /\ unlisted' = unlisted
  BY <1>1, <1>5
  DEF Typed, OneName, RowInTable, PackagesKnown, OutputKnown, MisreadKnown, FileHeld, RowsHeld,
      ReadOf, FilesListed, FilesHashed, ToldBehind
<1> QED  BY <1>3, <1>4, <1>5 DEF popen

LEMMA GetlineInv ==
  ASSUME Inv, getline  PROVE Inv'
<1> USE DEF worldVars, Inv, Hashing
<1>1. /\ pc = "getline" /\ output # <<>> /\ output' = Tail(output)
      /\ UNCHANGED <<packages, row_count, row, st_size, fd, data, hashes, told, unlisted, misread,
                     worldVars>>
      /\ package' = package
  BY DEF getline, package
<1>2. /\ Head(output) = output[1] /\ 1 \in DOMAIN output
      /\ output' \in Seq(Paths \union {BrokenLine})
      /\ Head(output) \in Paths \union {BrokenLine}
      /\ \A n \in DOMAIN output' : n + 1 \in DOMAIN output /\ output'[n] = output[n + 1]
  BY <1>1, HeadTailProperties DEF Typed
<1>3. CASE Head(output) = BrokenLine /\ pc' = "null" /\ files' = files
  <2>1. package \in touched \union unlisted /\ row_count # 0
    BY <1>1, <1>2, <1>3 DEF OutputKnown, RowInTable, Typed
  <2> QED
    BY <1>1, <1>2, <1>3, <2>1
    DEF Typed, OneName, RowInTable, PackagesKnown, OutputKnown, MisreadKnown, FileHeld,
        RowsHeld, ReadOf, FilesListed, FilesHashed, ToldBehind
<1>4. CASE Head(output) # BrokenLine /\ pc' = pc
           /\ files' = Append(files, FirstWord[Head(output)])
  <2>1. FirstWord[Head(output)] \in Paths
    BY <1>2, <1>4, FirstWordAssumption
  <2>2. /\ files' \in Seq(Paths) /\ Len(files') = Len(files) + 1
        /\ \A n \in DOMAIN files : n \in DOMAIN files' /\ files'[n] = files[n]
        /\ Len(files) + 1 \in DOMAIN files'
        /\ files'[Len(files) + 1] = FirstWord[Head(output)]
    BY <1>4, <2>1, AppendProperties DEF Typed
  <2> DEFINE CutThen(path) == \E n \in DOMAIN files' : files'[n] = FirstWord[path]
  <2>3. (\A path : Cut(path) => CutThen(path)) /\ CutThen(Head(output))
    BY <2>2 DEF Cut
  <2>4. Typed'
    BY <1>1, <1>2, <2>2 DEF Typed
  <2>5. FilesListed'
    <3>1. ASSUME package \notin touched \union unlisted,
                 NEW k \in DOMAIN Listed[package]
          PROVE  \/ CutThen(Listed[package][k])
                 \/ \E n \in DOMAIN output' : output'[n] = Listed[package][k]
      <4>1. CASE Cut(Listed[package][k])
        BY <2>3, <4>1
      <4>2. ASSUME NEW n \in DOMAIN output, output[n] = Listed[package][k]
            PROVE  \/ CutThen(Listed[package][k])
                   \/ \E m \in DOMAIN output' : output'[m] = Listed[package][k]
        <5>1. CASE n = 1
          BY <1>2, <2>3, <4>2, <5>1
        <5>2. CASE n # 1
          <6>1. n - 1 \in DOMAIN output' /\ (n - 1) + 1 = n
            BY <1>1, <1>2, <5>2, HeadTailProperties DEF Typed
          <6> QED  BY <1>2, <4>2, <6>1
        <5> QED  BY <5>1, <5>2
      <4>3. \/ Cut(Listed[package][k])
            \/ \E n \in DOMAIN output : output[n] = Listed[package][k]
        BY <1>1, <3>1 DEF FilesListed
      <4> QED  BY <4>1, <4>2, <4>3
    <3>2. ASSUME NEW j \in DOMAIN packages, j <= row,
                 packages[j] \notin touched \union unlisted,
                 NEW k \in DOMAIN Listed[packages[j]]
          PROVE  CutThen(Listed[packages[j]][k])
      BY <1>1, <2>3, <3>2 DEF FilesListed
    <3>3. \A path : Cut(path)' <=> CutThen(path)
      BY DEF Cut
    <3> HIDE DEF CutThen
    <3>4. pc' = "getline" /\ UNCHANGED <<package, packages, row, touched, unlisted>>
      BY <1>1, <1>4
    <3> QED  BY ONLY <3>1, <3>2, <3>3, <3>4 DEF FilesListed, Hashing
  <2>6. OutputKnown'
    BY <1>1, <1>2, <1>4 DEF OutputKnown
  <2> QED
    BY <1>1, <1>4, <2>4, <2>5, <2>6
    DEF OneName, RowInTable, PackagesKnown, MisreadKnown, FileHeld, RowsHeld, ReadOf,
        FilesHashed, ToldBehind
<1> QED  BY <1>3, <1>4 DEF getline

LEMMA PcloseInv ==
  ASSUME Inv, pclose  PROVE Inv'
<1> USE DEF worldVars, Inv, Hashing
<1>1. /\ pc = "getline" /\ output = <<>>
      /\ row_count = Len(packages) /\ Progress("popen", "listed")
      /\ UNCHANGED <<packages, output, files, row_count, st_size, fd, data, hashes, unlisted, misread,
                     worldVars>>
  BY DEF pclose, RowInTable
<1>2. /\ row \in Nat /\ row < Len(packages) /\ Len(packages) \in Nat
      /\ told' = [total |-> Len(packages), current |-> row + 1]
      /\ told'.current = row + 1
  BY <1>1 DEF Progress, Typed, RowInTable
<1>3. CASE row' = row + 1 /\ pc' = IF row + 1 < Len(packages) THEN "popen" ELSE "listed"
  <2>1. Typed'
    BY <1>1, <1>2, <1>3 DEF Typed
  <2>2. FilesListed'
    <3> SUFFICES ASSUME NEW j \in DOMAIN packages, j <= row + 1 \/ ~ row + 1 < Len(packages),
                        packages[j] \notin touched \union unlisted,
                        NEW k \in DOMAIN Listed[packages[j]]
                 PROVE  Cut(Listed[packages[j]][k])
      BY <1>1, <1>3 DEF FilesListed, Cut
    <3>1. j \in Nat /\ j <= row + 1
      BY <1>2 DEF Typed
    <3>2. CASE j <= row
      BY <1>1, <3>2 DEF FilesListed
    <3>3. CASE j = row + 1
      BY <1>1, <3>3 DEF FilesListed, package
    <3> QED  BY <1>2, <3>1, <3>2, <3>3
  <2> QED
    BY <1>1, <1>2, <1>3, <2>1, <2>2
    DEF OneName, RowInTable, PackagesKnown, OutputKnown, MisreadKnown, FileHeld, RowsHeld, ReadOf,
        FilesHashed, ToldBehind
<1>4. CASE row' = row /\ pc' = "cancelled"
  BY <1>1, <1>2, <1>4
  DEF Typed, OneName, RowInTable, PackagesKnown, OutputKnown, MisreadKnown, FileHeld, RowsHeld,
      ReadOf, FilesListed, FilesHashed, ToldBehind
<1> QED  BY <1>1, <1>3, <1>4 DEF Progress

LEMMA ListedInv ==
  ASSUME Inv, package_hash_files  PROVE Inv'
<1> USE DEF worldVars, Inv, Hashing
<1>1. /\ pc = "listed" /\ row' = 0 /\ row_count' = Len(files)
      /\ told' = [total |-> 0, current |-> 0] /\ told'.current = 0
      /\ pc' = IF files = <<>> THEN "done" ELSE "access"
      /\ UNCHANGED <<packages, output, files, st_size, fd, data, hashes, unlisted, misread,
                     worldVars>>
  BY DEF package_hash_files
<1>2. /\ Len(files) \in Nat /\ (files # <<>> => 0 < Len(files))
      /\ \A n \in DOMAIN files : ~ n <= 0
  BY DEF Typed
<1>3. FilesListed'
  BY <1>1 DEF FilesListed, Cut
<1> QED
  BY <1>1, <1>2, <1>3
  DEF Typed, OneName, RowInTable, PackagesKnown, OutputKnown, MisreadKnown, FileHeld, RowsHeld,
      ReadOf, FilesHashed, ToldBehind

-----------------------------------------------------------------------------
(* The third pass. *)
LEMMA SkipInv ==
  ASSUME Inv, pc \in {"access", "stat"}, inode[file_path] = NULL, Skip,
         UNCHANGED <<packages, output, files, row_count, st_size, fd, data, hashes, told, unlisted,
                     misread, worldVars>>
  PROVE  Inv'
<1> USE DEF worldVars, Inv, Hashing
<1>1. /\ row \in Nat /\ row < Len(files) /\ Len(files) \in Nat /\ row_count = Len(files)
      /\ row' = row + 1
      /\ pc' = IF row + 1 < Len(files) THEN "access" ELSE "done"
  BY DEF Typed, RowInTable, Skip
<1>2. ~ Regular(files[row + 1])
  BY NamesAssumption DEF Regular, file_path
<1>3. FilesHashed'
  <2> SUFFICES ASSUME NEW n \in DOMAIN files, n <= row + 1,
                      files[n] \notin touched, Regular(files[n])
               PROVE  HasRow(files[n])
    BY <1>1 DEF FilesHashed, HasRow, Regular
  <2>1. n <= row
    <3>1. n \in Nat /\ n # row + 1
      BY <1>2 DEF Typed
    <3> QED  BY <1>1, <3>1
  <2> QED  BY <2>1 DEF FilesHashed
<1>4. ToldBehind'
  <2> SUFFICES ASSUME NEW n \in told.current + 1 .. row + 1  PROVE Missed(n)
    BY <1>1 DEF ToldBehind, Missed, Typed
  <2>1. n \in told.current + 1 .. row \/ n = row + 1
    BY <1>1 DEF Typed
  <2> QED  BY <2>1 DEF ToldBehind, Missed, file_path
<1> QED
  BY <1>1, <1>3, <1>4
  DEF Typed, OneName, RowInTable, PackagesKnown, OutputKnown, MisreadKnown, FileHeld, RowsHeld, ReadOf, FilesListed,
      Cut

LEMMA AccessInv ==
  ASSUME Inv, access  PROVE Inv'
<1>1. CASE inode[file_path] = NULL
  BY <1>1, SkipInv DEF access
<1>2. CASE inode[file_path] # NULL
  BY <1>2
  DEF access, Inv, worldVars, Hashing, Typed, OneName, RowInTable, PackagesKnown, OutputKnown,
      MisreadKnown, FileHeld, RowsHeld, ReadOf, FilesListed, Cut, FilesHashed, HasRow, Regular, ToldBehind, Missed
<1> QED  BY <1>1, <1>2

LEMMA StatInv ==
  ASSUME Inv, stat  PROVE Inv'
<1> USE DEF worldVars, Inv, Hashing
<1>1. CASE inode[file_path] = NULL
  BY <1>1, SkipInv DEF stat
<1>2. CASE inode[file_path] # NULL /\ Regular(file_path)
  <2>1. /\ pc = "stat" /\ pc' = "open" /\ row' = row
        /\ st_size' = Len(content[inode[file_path]])
        /\ UNCHANGED <<packages, output, files, row_count, fd, data, hashes, told, unlisted, misread,
                       worldVars>>
    BY <1>2 DEF stat
  <2>2. content[inode[file_path]] \in Seq(Chunks)
    BY <1>2, ContentsAssumption DEF Typed, Regular
  <2>3. Typed'
    BY <2>1, <2>2 DEF Typed
  <2>4. FileHeld'
    BY <1>2, <2>1 DEF FileHeld, Regular, file_path
  <2> QED
    BY <2>1, <2>3, <2>4
    DEF OneName, RowInTable, PackagesKnown, OutputKnown, MisreadKnown, RowsHeld, ReadOf, FilesListed, Cut,
        FilesHashed, HasRow, Regular, ToldBehind, Missed
<1>3. CASE inode[file_path] # NULL /\ ~ Regular(file_path)
  <2>1. /\ pc = "stat" /\ pc' = "progress" /\ row' = row /\ st_size' = 0
        /\ UNCHANGED <<packages, output, files, row_count, fd, data, hashes, told, unlisted, misread,
                       worldVars>>
    BY <1>3 DEF stat
  <2>2. FilesHashed'
    BY <1>3, <2>1 DEF FilesHashed, HasRow, Regular, file_path
  <2> QED
    BY <2>1, <2>2
    DEF Typed, OneName, RowInTable, PackagesKnown, OutputKnown, MisreadKnown, FileHeld, RowsHeld, ReadOf, FilesListed,
        Cut, ToldBehind, Missed
<1> QED  BY <1>1, <1>2, <1>3

LEMMA OpenInv ==
  ASSUME Inv, open  PROVE Inv'
<1> USE DEF worldVars, Inv, Hashing
<1>1. /\ pc = "open" /\ data' = <<>>
      /\ UNCHANGED <<packages, output, files, row_count, row, st_size, hashes, told, unlisted, misread,
                     worldVars>>
      /\ file_path = files[row + 1]
  BY DEF open, file_path
<1>2. CASE inode[file_path] = NULL
  <2>1. file_path \in touched
    BY <1>1, <1>2, NamesAssumption DEF FileHeld, Regular
  <2> QED
    BY <1>1, <1>2, <2>1
    DEF open, Typed, OneName, RowInTable, PackagesKnown, OutputKnown, MisreadKnown, FileHeld, RowsHeld, ReadOf,
        FilesListed, FilesHashed, ToldBehind, Missed
<1>3. CASE inode[file_path] # NULL
  <2>1. pc' = "read" /\ fd' = inode[file_path]
    BY <1>3 DEF open
  <2>2. FileHeld'
    <3>1. file_path \notin touched =>
            /\ Regular(file_path) /\ st_size = Len(content[inode[file_path]])
            /\ content[inode[file_path]] \in Seq(Chunks)
      BY <1>1, ContentsAssumption DEF FileHeld, Regular, Typed
    <3>2. (Regular(files[row + 1]))' = Regular(file_path)
      BY <1>1 DEF Regular
    <3> QED  BY <1>1, <1>3, <2>1, <3>1, <3>2 DEF FileHeld
  <2> QED
    BY <1>1, <2>1, <2>2
    DEF Typed, OneName, RowInTable, PackagesKnown, OutputKnown, MisreadKnown, RowsHeld, ReadOf,
        FilesListed, Cut, FilesHashed, HasRow, Regular, ToldBehind, Missed
<1> QED  BY <1>2, <1>3

(* What has been read of a file that nobody touched. *)
LEMMA ReadOfUntouched ==
  ASSUME Inv, pc = "read", file_path \notin touched
  PROVE  /\ Readable = content[fd] /\ content[fd] \in Seq(Chunks) /\ data \in Seq(Chunks)
         /\ fd = inode[file_path] /\ Regular(file_path)
         /\ st_size = Len(content[inode[file_path]])
         /\ Len(data) <= Len(content[fd])
         /\ \A n \in 1..Len(data) : data[n] = content[fd][n]
BY ContentsAssumption DEF Inv, FileHeld, Regular, Readable, Typed, file_path

(* What agrees with a longer sequence as far as it goes begins it. *)
LEMMA StrictPrefix ==
  ASSUME NEW S, NEW s \in Seq(S), NEW t \in Seq(S), Len(s) < Len(t),
         \A n \in 1..Len(s) : s[n] = t[n]
  PROVE  IsStrictPrefix(s, t)
<1> DEFINE a == SubSeq(s, 1, Len(s))
           b == SubSeq(t, 1, Len(s))
<1>1. /\ a \in Seq(S) /\ Len(a) = Len(s)
      /\ \A n \in 1..Len(s) : a[n] = s[n]
  BY SubSeqProperties
<1>2. /\ b \in Seq(S) /\ Len(b) = Len(s)
      /\ \A n \in 1..Len(s) : b[n] = t[n]
  <2>1. Len(s) \in Nat /\ \A n \in 1..Len(s) : t[n] \in S
    OBVIOUS
  <2> QED  BY <2>1, SubSeqProperties
<1> HIDE DEF a, b
<1>3. a = b
  BY <1>1, <1>2, SeqEqual
<1> QED  BY <1>3 DEF a, b, IsStrictPrefix, IsPrefix

LEMMA ReadInv ==
  ASSUME Inv, read  PROVE Inv'
<1> USE DEF worldVars, Inv, Hashing
<1>1. /\ pc = "read" /\ file_path = files[row + 1]
      /\ UNCHANGED <<packages, output, files, row_count, row, st_size, fd, hashes, told, unlisted,
                     worldVars>>
  BY DEF read, file_path
<1>2. Readable \in Seq(Chunks) /\ data \in Seq(Chunks)
  BY ContentsAssumption DEF Readable, Typed
<1>3. Regular(file_path)' = Regular(file_path)
  BY <1>1 DEF Regular, file_path
<1>4. CASE ~ EndOfFile /\ pc' = pc /\ misread' = misread
           /\ data' = Append(data, Readable[Len(data) + 1])
  <2>1. Len(data) < Len(Readable) /\ Readable[Len(data) + 1] \in Chunks
    BY <1>2, <1>4 DEF EndOfFile
  <2>2. /\ data' \in Seq(Chunks) /\ Len(data') = Len(data) + 1
        /\ \A n \in 1..Len(data) : data'[n] = data[n]
        /\ data'[Len(data) + 1] = Readable[Len(data) + 1]
    BY <1>2, <1>4, <2>1, AppendProperties
  <2>3. FileHeld'
    <3>1. CASE file_path \in touched
      BY <1>1, <1>4, <3>1 DEF FileHeld
    <3>2. CASE file_path \notin touched
      <4>1. \A n \in 1..Len(data') : data'[n] = content[fd][n]
        BY <1>1, <1>2, <2>2, <3>2, ReadOfUntouched
      <4>2. Len(data') <= Len(content[fd])
        BY <1>1, <1>2, <2>1, <2>2, <3>2, ReadOfUntouched
      <4> QED  BY <1>1, <1>3, <1>4, <3>2, <4>1, <4>2, ReadOfUntouched DEF FileHeld, file_path
    <3> QED  BY <3>1, <3>2
  <2> QED
    BY <1>1, <1>4, <2>2, <2>3
    DEF Typed, OneName, RowInTable, PackagesKnown, OutputKnown, MisreadKnown, RowsHeld, ReadOf, FilesListed, Cut,
        FilesHashed, HasRow, Regular, ToldBehind, Missed
<1>5. CASE EndOfFile /\ pc' = "append" /\ data' = data /\ misread' = misread
  <2>1. FileHeld'
    <3>1. CASE file_path \in touched
      BY <1>1, <1>5, <3>1 DEF FileHeld
    <3>2. CASE file_path \notin touched
      <4>1. Len(data) = Len(content[fd])
        BY <1>1, <1>2, <1>5, <3>2, ReadOfUntouched DEF EndOfFile
      <4>2. data = content[fd]
        BY <1>1, <3>2, <4>1, ReadOfUntouched, SeqEqual
      <4>3. Len(hashes) + 1 \notin misread
        BY <1>1 DEF MisreadKnown
      <4> QED  BY <1>1, <1>3, <1>5, <3>2, <4>2, <4>3, ReadOfUntouched DEF FileHeld, file_path, ReadOf
    <3> QED  BY <3>1, <3>2
  <2> QED
    BY <1>1, <1>5, <2>1
    DEF Typed, OneName, RowInTable, PackagesKnown, OutputKnown, MisreadKnown, RowsHeld, ReadOf, FilesListed, Cut,
        FilesHashed, HasRow, Regular, ToldBehind, Missed
<1>6. CASE ~ EndOfFile /\ pc' = "append" /\ data' = data
           /\ misread' = misread \union {Len(hashes) + 1}
  <2>1. MisreadKnown'
    <3>1. hashes' = hashes /\ Len(hashes) \in Nat
      BY <1>1 DEF Typed
    <3>2. Len(hashes) + 1 \in 1..(Len(hashes) + 1)
      BY ONLY <3>1
    <3>3. misread \subseteq 1..(Len(hashes) + 1)
      BY DEF MisreadKnown
    <3> QED  BY ONLY <1>6, <3>1, <3>2, <3>3 DEF MisreadKnown
  <2>2. FileHeld'
    <3>1. CASE file_path \in touched
      BY <1>1, <1>6, <3>1 DEF FileHeld
    <3>2. CASE file_path \notin touched
      <4>1. /\ data \in Seq(Chunks) /\ content[fd] \in Seq(Chunks) /\ Len(data) < Len(content[fd])
            /\ \A n \in 1..Len(data) : data[n] = content[fd][n]
        BY <1>1, <1>2, <1>6, <3>2, ReadOfUntouched DEF EndOfFile
      <4>2. IsStrictPrefix(data, content[fd])
        BY <4>1, StrictPrefix
      <4> QED  BY <1>1, <1>3, <1>6, <3>2, <4>2, ReadOfUntouched DEF FileHeld, file_path, ReadOf
    <3> QED  BY <3>1, <3>2
  <2>3. RowsHeld'
    <3>1. \A k \in DOMAIN hashes : k # Len(hashes) + 1
      BY DEF Typed
    <3> QED  BY <1>1, <1>6, <3>1 DEF RowsHeld, ReadOf
  <2> QED
    BY <1>1, <1>6, <2>1, <2>2, <2>3
    DEF Typed, OneName, RowInTable, PackagesKnown, OutputKnown, FilesListed, Cut,
        FilesHashed, HasRow, Regular, ToldBehind, Missed
<1> QED  BY <1>4, <1>5, <1>6 DEF read

LEMMA AppendInv ==
  ASSUME Inv, table_append_row  PROVE Inv'
<1> USE DEF worldVars, Inv, Hashing
<1> DEFINE r == [path |-> file_path, size |-> st_size, sha256 |-> data]
<1>1. /\ pc = "append" /\ pc' = "progress" /\ hashes' = Append(hashes, r) /\ fd' = NULL
      /\ UNCHANGED <<packages, output, files, row_count, row, st_size, data, told, unlisted, misread,
                     worldVars>>
      /\ file_path = files[row + 1]
  BY DEF table_append_row, file_path
<1>2. file_path \in Paths
  BY <1>1 DEF Typed, RowInTable
<1>3. r \in Row /\ r.path = file_path /\ r.size = st_size /\ r.sha256 = data
  BY <1>2 DEF Typed, Row
<1> HIDE DEF r
<1>4. /\ hashes' \in Seq(Row) /\ Len(hashes') = Len(hashes) + 1
      /\ \A k \in DOMAIN hashes : k \in DOMAIN hashes' /\ hashes'[k] = hashes[k]
      /\ Len(hashes) + 1 \in DOMAIN hashes' /\ hashes'[Len(hashes) + 1] = r
      /\ \A k \in DOMAIN hashes' : k \in DOMAIN hashes \/ k = Len(hashes) + 1
  BY <1>1, <1>3, AppendProperties DEF Typed
<1>5. Typed'
  BY <1>1, <1>4 DEF Typed
<1>6. RowsHeld'
  <2>1. file_path \notin touched =>
          /\ inode[file_path] \in Inodes /\ st_size = Len(content[inode[file_path]])
          /\ ReadOf(Len(hashes) + 1, data, content[inode[file_path]])
    BY <1>1 DEF FileHeld, Regular
  <2> QED  BY <1>1, <1>3, <1>4, <2>1 DEF RowsHeld, ReadOf
<1>7. FilesHashed'
  <2> DEFINE HasThen(path) == \E m \in DOMAIN hashes' : hashes'[m].path = path
  <2>1. (\A path : HasRow(path) => HasThen(path)) /\ HasThen(file_path)
    BY <1>3, <1>4 DEF HasRow
  <2> QED  BY <1>1, <2>1 DEF FilesHashed, HasRow, Regular
<1>8. MisreadKnown'
  <2>1. Len(hashes) \in Nat /\ Len(hashes') = Len(hashes) + 1
    BY <1>4 DEF Typed
  <2> QED  BY <1>1, <2>1 DEF MisreadKnown
<1> QED
  BY <1>1, <1>5, <1>6, <1>7, <1>8
  DEF OneName, RowInTable, PackagesKnown, OutputKnown, FileHeld, FilesListed, Cut, ToldBehind, Missed

LEMMA ProgressInv ==
  ASSUME Inv, progress_callback  PROVE Inv'
<1> USE DEF worldVars, Inv, Hashing
<1>1. /\ pc = "progress" /\ Progress("access", "done")
      /\ UNCHANGED <<packages, output, files, row_count, st_size, fd, data, hashes, unlisted, misread,
                     worldVars>>
  BY DEF progress_callback
<1>2. /\ row \in Nat /\ row < Len(files) /\ Len(files) \in Nat /\ row_count = Len(files)
      /\ told' = [total |-> Len(files), current |-> row + 1] /\ told'.current = row + 1
  BY <1>1 DEF Progress, Typed, RowInTable
<1>3. CASE row' = row + 1 /\ pc' = IF row + 1 < Len(files) THEN "access" ELSE "done"
  <2>1. \A n \in DOMAIN files : n <= row + 1 => n <= row \/ n = row + 1
    BY <1>2 DEF Typed
  <2>2. FilesHashed'
    BY <1>1, <1>3, <2>1 DEF FilesHashed, HasRow, Regular
  <2> QED
    BY <1>1, <1>2, <1>3, <2>2
    DEF Typed, OneName, RowInTable, PackagesKnown, OutputKnown, MisreadKnown, FileHeld, RowsHeld, ReadOf, FilesListed,
        Cut, ToldBehind, Missed
<1>4. CASE row' = row /\ pc' = "cancelled"
  BY <1>1, <1>2, <1>4
  DEF Typed, OneName, RowInTable, PackagesKnown, OutputKnown, MisreadKnown, FileHeld, RowsHeld, ReadOf, FilesListed,
      FilesHashed, ToldBehind, Missed
<1> QED  BY <1>1, <1>2, <1>3, <1>4 DEF Progress

-----------------------------------------------------------------------------
LEMMA NextInv == Inv /\ [Next]_vars => Inv'
<1> SUFFICES ASSUME Inv, [Next]_vars  PROVE Inv'  OBVIOUS
<1>1. CASE Program
  BY <1>1, RpmInv, FilesInfoInv, PopenInv, GetlineInv, PcloseInv, ListedInv, AccessInv, StatInv, OpenInv,
     ReadInv, AppendInv, ProgressInv DEF Program
<1>2. CASE UNCHANGED vars
  BY <1>2
  DEF vars, dataVars, worldVars, Inv, Hashing, Typed, OneName, RowInTable, PackagesKnown, package,
      OutputKnown, MisreadKnown, FileHeld, RowsHeld, ReadOf, FilesListed, Cut, FilesHashed, HasRow, Regular, ToldBehind, Missed
<1> QED  BY <1>1, <1>2, OthersInv DEF Next

LEMMA Invariant == Spec => []Inv
BY InitInv, NextInv, PTL DEF Spec

(* A row of package_hash_files whose file nobody touched gives the size and  *)
(* the digest of one and the same content, that of the file, however the    *)
(* changes of others fall between access, stat, open and the reads; of a    *)
(* file that gave an error while it was read, the digest of a beginning.    *)
THEOREM RowsHold == Spec => []RowsAreOfOneFile
<1>1. Inv => RowsAreOfOneFile
  BY DEF Inv, RowsHeld, ReadOf, RowsAreOfOneFile
<1> QED  BY <1>1, Invariant, PTL

(* An audit that was not cancelled leaves out no file that is regular, not   *)
(* empty and untouched, whose path has no blank, whose package is there and *)
(* was listed by an rpm that did not break off.                             *)
THEOREM NothingLeftOut == Spec => []UntouchedFilesAreHashed
<1>1. Inv => UntouchedFilesAreHashed
  <2> SUFFICES ASSUME Inv, pc = "done", NEW p \in installed \ (touched \union unlisted),
                      NEW k \in DOMAIN Listed[p], Listed[p][k] \notin touched,
                      FirstWord[Listed[p][k]] = Listed[p][k], Regular(Listed[p][k])
               PROVE  HasRow(Listed[p][k])
    BY DEF UntouchedFilesAreHashed, HasRow
  <2>1. PICK j \in DOMAIN packages : packages[j] = p
    BY DEF Inv, PackagesKnown
  <2>2. PICK n \in DOMAIN files : files[n] = Listed[p][k]
    BY <2>1 DEF Inv, FilesListed, Cut
  <2>3. n <= row
    BY <2>2 DEF Inv, RowInTable, Typed
  <2> QED  BY <2>2, <2>3 DEF Inv, FilesHashed
<1> QED  BY <1>1, Invariant, PTL

(* The program ends in the middle of an audit, in sha256_file or on a line   *)
(* that is broken, only if others touched that file or that package, or rpm *)
(* broke off while it listed it.                                            *)
THEOREM StopsForAReason == Spec => []StopsOnlyWhenVanished
<1>1. Inv => StopsOnlyWhenVanished
  BY DEF Inv, FileHeld, OutputKnown, StopsOnlyWhenVanished, file_path
<1> QED  BY <1>1, Invariant, PTL

(* The callback is told the number of rows of the pass and ever later ones   *)
(* of them, of every package, and of every file but those that were missed. *)
THEOREM ProgressIsTold == Spec => ProgressTells
<1> DEFINE due == IF pc = "getline" THEN Len(packages) ELSE Len(files)
           Heard == told' # told /\ told'.current # 0 =>
                      /\ told'.total = due
                      /\ told.current < told'.current /\ told'.current <= due
                      /\ \A n \in told.current + 1 .. told'.current - 1 :
                           pc # "getline" /\ Missed(n)
           Listing == pc = "getline" /\ pc' = "listed" => told'.current = due
           Ending == pc # "done" /\ pc' = "done" =>
                       \A n \in told'.current + 1 .. Len(files) : Missed(n)
<1>1. ASSUME Inv, Next  PROVE Heard /\ Listing /\ Ending
  <2>1. CASE Others
    BY <1>1, <2>1, OthersTouch DEF Inv, dataVars
  <2>2. CASE pclose
    <3>1. /\ pc = "getline" /\ row_count = Len(packages) /\ row_count \in Nat /\ row \in Nat
          /\ row < row_count /\ told.current = row
          /\ pc' # "done"
      BY <1>1, <2>2 DEF pclose, Progress, Inv, ToldBehind, RowInTable, Typed
    <3>2. /\ told' = [total |-> row_count, current |-> row + 1]
          /\ pc' = "listed" => ~ row + 1 < row_count
      BY <2>2 DEF pclose, Progress
    <3>3. told'.total = row_count /\ told'.current = row + 1
      BY <3>2
    <3> QED  BY <3>1, <3>2, <3>3
  <2>3. CASE progress_callback
    <3>1. /\ pc = "progress" /\ row_count = Len(files) /\ row_count \in Nat /\ row \in Nat
          /\ row < row_count /\ told.current \in Nat /\ told.current <= row
          /\ \A n \in told.current + 1 .. row : Missed(n)
      BY <1>1, <2>3 DEF progress_callback, Inv, ToldBehind, RowInTable, Hashing, Typed
    <3>2. /\ told' = [total |-> row_count, current |-> row + 1]
          /\ pc' = "done" => ~ row + 1 < row_count
      BY <2>3 DEF progress_callback, Progress
    <3>3. told'.total = row_count /\ told'.current = row + 1
      BY <3>2
    <3> QED  BY <3>1, <3>2, <3>3
  <2>4. CASE access \/ stat
    <3>1. /\ pc \in {"access", "stat"} /\ told' = told
          /\ pc' = "done" => inode[file_path] = NULL /\ ~ row + 1 < row_count
      BY <2>4 DEF access, stat, Skip
    <3>2. /\ row_count = Len(files) /\ row_count \in Nat /\ row \in Nat
          /\ row < row_count /\ told.current \in Nat
          /\ \A n \in told.current + 1 .. row : Missed(n)
      BY <1>1, <3>1 DEF Inv, ToldBehind, RowInTable, Hashing, Typed
    <3>3. ASSUME pc' = "done", NEW n \in told.current + 1 .. Len(files)  PROVE Missed(n)
      <4>1. n \in told.current + 1 .. row \/ n = row + 1
        BY <3>1, <3>2, <3>3
      <4> QED  BY <3>1, <3>2, <3>3, <4>1 DEF Missed, file_path
    <3> QED  BY <3>1, <3>3
  <2>5. CASE package_hash_files
    <3>1. told'.current = 0 /\ pc = "listed" /\ (pc' = "done" => files = <<>>)
      BY <2>5 DEF package_hash_files
    <3> QED  BY <3>1
  <2>6. CASE package_get_rpm_info \/ package_get_rpm_files_info \/ popen \/ getline
             \/ open \/ read \/ table_append_row
    BY <2>6
    DEF package_get_rpm_info, package_get_rpm_files_info, popen, getline, open, read,
        table_append_row
  <2> QED  BY <1>1, <2>1, <2>2, <2>3, <2>4, <2>5, <2>6 DEF Next, Program
<1>2. Inv /\ [Next]_vars => [Heard /\ Listing /\ Ending]_vars
  BY <1>1
<1> QED  BY <1>2, Invariant, PTL DEF Spec, ProgressTells

-----------------------------------------------------------------------------
(* Digest. *)

(* What a byte of a block may be, and a context. *)
Octet == Bytes \union {None, 0, Marker} \union {LengthByte(b, k) : b \in Nat, k \in Nat}

Context == [data : [Places -> Octet], datalen : Places, bitlen : Nat,
            state : Seq([Places -> Octet])]

DigestTyped ==
  /\ created \in BOOLEAN
  /\ ctx \in Context
  /\ chunk \in Seq(Bytes)
  /\ message \in Seq(Bytes)
  /\ finals \in Nat
  /\ ~ created => chunk = <<>> /\ digest = None /\ message = <<>> /\ finals = 0

(* The state and the buffer of a context are the bytes it was given. *)
Gathers(c, m) ==
  /\ Len(m) = Len(c.state) * BlockSize + c.datalen
  /\ c.bitlen = ByteBits * (Len(c.state) * BlockSize)
  /\ \A k \in 1..Len(c.state), j \in Places :
       c.state[k][j] = m[(k - 1) * BlockSize + j + 1]
  /\ \A j \in 0..(c.datalen - 1) : c.data[j] = m[Len(c.state) * BlockSize + j + 1]

(* After a digest, the blocks of a context are ahead of its bytes by one. *)
Ahead(c, m) == Len(c.state) * BlockSize + c.datalen >= Len(m) + BlockSize

(* The inductive invariant: until its first digest a context holds its      *)
(* bytes, and from then on it is ahead of them.                             *)
DigestInv ==
  /\ DigestTyped
  /\ created /\ finals = 0 => Gathers(ctx, message)
  /\ created /\ finals > 0 => Ahead(ctx, message)
  /\ DigestIsOfTheMessage
  /\ SecondDigestIsWrong

-----------------------------------------------------------------------------
(* The sizes, as every proof below uses them. *)
LEMMA Sizes == /\ BlockSize \in Nat /\ LengthBytes \in Nat /\ ByteBits \in Nat
               /\ LengthPlace \in Places /\ LengthPlace = BlockSize - LengthBytes
               /\ 0 < LengthPlace /\ LengthPlace < BlockSize /\ 0 \in Places
BY SizesAssumption, SMT DEF LengthPlace, Places

(* Numbers of whole blocks. *)
LEMMA OneBlockMore ==
  ASSUME NEW n \in Nat, NEW width \in Nat
  PROVE  n * width \in Nat /\ (n + 1) * width = n * width + width
BY SMT

LEMMA BlockWithin ==
  ASSUME NEW k \in Nat, NEW n \in Nat, NEW width \in Nat, k < n
  PROVE  k * width + width <= n * width
<1>1. n - (k + 1) \in Nat
  BY SMT
<1>2. (n - (k + 1)) * width \in Nat
  BY <1>1, OneBlockMore
<1>3. (n - (k + 1)) * width = n * width - (k * width + width)
  BY SMT
<1>4. k * width \in Nat /\ n * width \in Nat
  BY OneBlockMore
<1> QED BY <1>2, <1>3, <1>4, SMT

LEMMA BitsOfTheNextBlock ==
  ASSUME NEW n \in Nat, NEW width \in Nat, NEW bits \in Nat
  PROVE  bits * (n + width) = bits * n + bits * width
BY SMT

(* A context has room for a byte. *)
LEMMA Room ==
  ASSUME NEW c \in Context
  PROVE  /\ c.datalen \in Nat /\ c.datalen < BlockSize /\ c.bitlen \in Nat
         /\ c.data \in [Places -> Octet] /\ c.state \in Seq([Places -> Octet])
         /\ Len(c.state) \in Nat
BY Sizes, SMT DEF Context, Places

(* A new context has gathered nothing. *)
LEMMA CreateGathers == sha256_create \in Context /\ Gathers(sha256_create, <<>>)
<1>1. sha256_create.data \in [Places -> Octet]
  BY DEF sha256_create, Octet
<1>2. sha256_create.state = <<>> /\ sha256_create.datalen = 0 /\ sha256_create.bitlen = 0
  BY DEF sha256_create
<1>3. sha256_create \in Context
  BY <1>1, Sizes DEF sha256_create, Context
<1>4. Gathers(sha256_create, <<>>)
  BY <1>2, Sizes, SMT DEF Gathers
<1> QED BY <1>3, <1>4

(* A byte more is gathered, or kept ahead of, by the loop of sha256_update. *)
LEMMA AbsorbIsTyped ==
  ASSUME NEW c \in Context, NEW byte \in Bytes
  PROVE  Absorb(c, byte) \in Context
<1> DEFINE bytes == [c.data EXCEPT ![c.datalen] = byte]
<1>1. bytes \in [Places -> Octet]
  BY DEF Context, Octet
<1>2. CASE c.datalen + 1 = BlockSize
  <2>1. Absorb(c, byte) = [data |-> bytes, datalen |-> 0,
                           bitlen |-> c.bitlen + ByteBits * BlockSize,
                           state |-> Append(c.state, bytes)]
    BY <1>2 DEF Absorb
  <2>2. c.bitlen + ByteBits * BlockSize \in Nat
    BY Sizes, SMT DEF Context
  <2>3. Append(c.state, bytes) \in Seq([Places -> Octet])
    BY <1>1 DEF Context
  <2> HIDE DEF bytes
  <2> QED BY <2>1, <2>2, <2>3, <1>1, Sizes DEF Context
<1>3. CASE c.datalen + 1 # BlockSize
  <2>1. Absorb(c, byte) = [c EXCEPT !.data = bytes, !.datalen = @ + 1]
    BY <1>3 DEF Absorb
  <2>2. c.datalen + 1 \in Places
    <3>1. c.datalen \in Nat /\ c.datalen < BlockSize /\ BlockSize \in Nat
      BY Room, Sizes
    <3> QED BY <3>1, <1>3, SMT DEF Places
  <2> HIDE DEF bytes
  <2> QED BY <2>1, <2>2, <1>1 DEF Context
<1> QED BY <1>2, <1>3

LEMMA AbsorbGathers ==
  ASSUME NEW c \in Context, NEW byte \in Bytes, NEW m \in Seq(Bytes), Gathers(c, m)
  PROVE  Gathers(Absorb(c, byte), Append(m, byte))
<1> DEFINE bytes == [c.data EXCEPT ![c.datalen] = byte]
           n == Len(c.state)
           m1 == Append(m, byte)
<1>1. /\ n \in Nat /\ c.datalen \in Nat /\ c.datalen < BlockSize /\ c.bitlen \in Nat
      /\ c.data \in [Places -> Octet] /\ c.state \in Seq([Places -> Octet])
  BY Room
<1>2. /\ Len(m) = n * BlockSize + c.datalen /\ c.bitlen = ByteBits * (n * BlockSize)
      /\ n * BlockSize \in Nat
  BY <1>1, Sizes, OneBlockMore DEF Gathers
<1>3. /\ Len(m1) = Len(m) + 1 /\ m1[Len(m) + 1] = byte
      /\ \A i \in 1..Len(m) : m1[i] = m[i]
  OBVIOUS
<1>4. \A j \in 0..c.datalen : bytes[j] = m1[n * BlockSize + j + 1]
  <2> TAKE j \in 0..c.datalen
  <2>1. CASE j = c.datalen
    <3>1. bytes[j] = byte
      BY <2>1, <1>1, Sizes, SMT DEF Places
    <3>2. n * BlockSize + j + 1 = Len(m) + 1
      BY <2>1, <1>1, <1>2, SMT
    <3> QED BY <3>1, <3>2, <1>3
  <2>2. CASE j # c.datalen
    <3>1. j \in 0..(c.datalen - 1) /\ bytes[j] = c.data[j]
      BY <2>2, <1>1, Sizes, SMT DEF Places
    <3>2. n * BlockSize + j + 1 \in 1..Len(m)
      BY <3>1, <1>1, <1>2, SMT
    <3>3. c.data[j] = m[n * BlockSize + j + 1]
      BY <3>1 DEF Gathers
    <3> QED BY <3>1, <3>2, <3>3, <1>3
  <2> QED BY <2>1, <2>2
<1>5. \A k \in 1..n, j \in Places : c.state[k][j] = m1[(k - 1) * BlockSize + j + 1]
  <2> TAKE k \in 1..n, j \in Places
  <2>1. (k - 1) * BlockSize + BlockSize <= n * BlockSize
    <3>1. k - 1 \in Nat /\ k - 1 < n
      BY <1>1, SMT
    <3> QED BY <3>1, <1>1, Sizes, BlockWithin
  <2>2. (k - 1) * BlockSize + j + 1 \in 1..Len(m)
    <3>1. k - 1 \in Nat /\ (k - 1) * BlockSize \in Nat
      BY <1>1, Sizes, OneBlockMore, SMT
    <3>2. j \in Nat /\ j < BlockSize
      BY Sizes, SMT DEF Places
    <3> DEFINE before == (k - 1) * BlockSize
               all == n * BlockSize
    <3>3. before \in Nat /\ all \in Nat /\ before + BlockSize <= all
          /\ Len(m) = all + c.datalen
      BY <2>1, <3>1, <1>2
    <3> HIDE DEF before, all
    <3>4. before + j + 1 \in 1..Len(m)
      BY <3>2, <3>3, <1>1, Sizes, SMT
    <3> QED BY <3>4 DEF before
  <2>3. c.state[k][j] = m[(k - 1) * BlockSize + j + 1]
    BY DEF Gathers
  <2> QED BY <2>2, <2>3, <1>3
<1>6. CASE c.datalen + 1 = BlockSize
  <2> DEFINE c1 == Absorb(c, byte)
  <2>1. /\ c1.state = Append(c.state, bytes) /\ c1.datalen = 0
        /\ c1.bitlen = c.bitlen + ByteBits * BlockSize
    BY <1>6 DEF Absorb
  <2>2. Len(c1.state) = n + 1 /\ c1.state[n + 1] = bytes
        /\ \A k \in 1..n : c1.state[k] = c.state[k]
    BY <2>1, <1>1
  <2>3. (n + 1) * BlockSize = n * BlockSize + BlockSize
    BY <1>1, Sizes, OneBlockMore
  <2>4. Len(m1) = Len(c1.state) * BlockSize + c1.datalen
    <3>1. Len(m1) = n * BlockSize + BlockSize
      <4> DEFINE all == n * BlockSize
                 now == c.datalen
                 length == Len(m1)
      <4>1. all \in Nat /\ now \in Nat /\ length = all + now + 1 /\ now + 1 = BlockSize
        BY <1>1, <1>2, <1>3, <1>6
      <4> HIDE DEF all, now, length
      <4>2. length = all + BlockSize
        BY ONLY <4>1, Sizes, SMT
      <4> QED BY <4>2 DEF all, length
    <3>2. Len(c1.state) * BlockSize + c1.datalen = (n + 1) * BlockSize
      BY <2>1, <2>2, <2>3, <1>2, Sizes
    <3> HIDE DEF m1, c1
    <3> QED BY <3>1, <3>2, <2>3
  <2>5. c1.bitlen = ByteBits * (Len(c1.state) * BlockSize)
    <3>1. ByteBits * (n * BlockSize + BlockSize)
             = ByteBits * (n * BlockSize) + ByteBits * BlockSize
      BY <1>2, Sizes, BitsOfTheNextBlock
    <3> QED BY <3>1, <2>1, <2>2, <2>3, <1>2
  <2>6. \A k \in 1..Len(c1.state), j \in Places :
          c1.state[k][j] = m1[(k - 1) * BlockSize + j + 1]
    <3> SUFFICES ASSUME NEW k \in 1..(n + 1), NEW j \in Places
                 PROVE  c1.state[k][j] = m1[(k - 1) * BlockSize + j + 1]
      BY <2>2
    <3>1. CASE k \in 1..n
      <4>1. c1.state[k] = c.state[k]
        BY <3>1, <2>2
      <4>2. c.state[k][j] = m1[(k - 1) * BlockSize + j + 1]
        BY <3>1, <1>5
      <4> HIDE DEF c1, m1
      <4> QED BY <4>1, <4>2
    <3>2. CASE k = n + 1
      <4>1. j \in 0..c.datalen
        BY <1>6, <1>1, Sizes, SMT DEF Places
      <4>2. k - 1 = n
        BY <3>2, <1>1, SMT
      <4>3. c1.state[k] = bytes
        BY <3>2, <2>2
      <4>4. bytes[j] = m1[n * BlockSize + j + 1]
        BY <4>1, <1>4
      <4> HIDE DEF bytes, m1, c1
      <4> QED BY <4>2, <4>3, <4>4
    <3>3. k \in 1..n \/ k = n + 1
      BY <1>1, SMT
    <3> QED BY <3>1, <3>2, <3>3
  <2>7. \A j \in 0..(c1.datalen - 1) :
          c1.data[j] = m1[Len(c1.state) * BlockSize + j + 1]
    BY <2>1, SMT
  <2> HIDE DEF c1, m1
  <2> QED BY <2>4, <2>5, <2>6, <2>7 DEF Gathers, c1, m1
<1>7. CASE c.datalen + 1 # BlockSize
  <2> DEFINE c1 == Absorb(c, byte)
  <2>1. c1.state = c.state /\ c1.datalen = c.datalen + 1 /\ c1.bitlen = c.bitlen
        /\ c1.data = bytes
    BY <1>7 DEF Absorb, Context
  <2>2. Len(m1) = n * BlockSize + c1.datalen
    BY <2>1, <1>1, <1>2, <1>3, SMT
  <2>3. \A j \in 0..(c1.datalen - 1) : c1.data[j] = m1[n * BlockSize + j + 1]
    <3>1. 0..(c1.datalen - 1) = 0..c.datalen
      BY <2>1, <1>1, SMT
    <3> HIDE DEF bytes, m1
    <3> QED BY <3>1, <2>1, <1>4
  <2>4. Len(c1.state) = n
    BY <2>1
  <2>5. \A k \in 1..Len(c1.state), j \in Places :
          c1.state[k][j] = m1[(k - 1) * BlockSize + j + 1]
    <3> SUFFICES ASSUME NEW k \in 1..n, NEW j \in Places
                 PROVE  c1.state[k][j] = m1[(k - 1) * BlockSize + j + 1]
      BY <2>4
    <3>1. c.state[k][j] = m1[(k - 1) * BlockSize + j + 1]
      BY <1>5
    <3> HIDE DEF c1, m1
    <3> QED BY <3>1, <2>1
  <2> HIDE DEF c1, m1, bytes, n
  <2> QED BY <2>1, <2>2, <2>3, <2>4, <2>5, <1>2 DEF Gathers, c1, m1
<1> QED BY <1>6, <1>7

LEMMA AbsorbStaysAhead ==
  ASSUME NEW c \in Context, NEW byte \in Bytes, NEW m \in Seq(Bytes), Ahead(c, m)
  PROVE  Ahead(Absorb(c, byte), Append(m, byte))
<1> DEFINE bytes == [c.data EXCEPT ![c.datalen] = byte]
           c1 == Absorb(c, byte)
<1>1. Len(c.state) \in Nat /\ c.datalen \in Nat /\ Len(m) \in Nat
      /\ Len(Append(m, byte)) = Len(m) + 1
  BY Sizes, SMT DEF Context, Places
<1>2. CASE c.datalen + 1 = BlockSize
  <2>1. c1.state = Append(c.state, bytes) /\ c1.datalen = 0
    BY <1>2 DEF Absorb
  <2>2. Len(c1.state) = Len(c.state) + 1
    BY <2>1 DEF Context
  <2> HIDE DEF c1
  <2> QED BY <2>1, <2>2, <1>1, <1>2, Sizes, SMT DEF Ahead, c1
<1>3. CASE c.datalen + 1 # BlockSize
  <2>1. c1.state = c.state /\ c1.datalen = c.datalen + 1
    BY <1>3 DEF Absorb, Context
  <2> HIDE DEF c1
  <2> QED BY <2>1, <1>1, Sizes, SMT DEF Ahead, c1
<1> QED BY <1>2, <1>3

-----------------------------------------------------------------------------
(* The parts of sha256_final: the bits counted, the block filled up after   *)
(* the marker, the block with the length, and the blocks mixed in.          *)
Bits(c) == c.bitlen + c.datalen * ByteBits
Fits(c) == c.datalen < LengthPlace
Marked(c) == [j \in Places |-> CASE j < c.datalen -> c.data[j]
                                 [] j = c.datalen -> Marker
                                 [] OTHER -> 0]
Closing(c) == [j \in Places |-> IF j >= LengthPlace
                                THEN LengthByte(Bits(c), BlockSize - 1 - j)
                                ELSE IF Fits(c) THEN Marked(c)[j] ELSE 0]
Blocks(c) == IF Fits(c) THEN Append(c.state, Closing(c))
             ELSE Append(Append(c.state, Marked(c)), Closing(c))
Finished(c, bytes, bits, blocks) ==
  [c EXCEPT !.data = bytes, !.bitlen = bits, !.state = blocks]

LEMMA FinalIs ==
  ASSUME NEW c
  PROVE  sha256_final(c) = Finished(c, Closing(c), Bits(c), Blocks(c))
BY DEF sha256_final, Finished, Closing, Bits, Blocks, Marked, Fits

LEMMA FinishedIs ==
  ASSUME NEW c \in Context, NEW bytes \in [Places -> Octet], NEW bits \in Nat,
         NEW blocks \in Seq([Places -> Octet])
  PROVE  /\ Finished(c, bytes, bits, blocks) \in Context
         /\ Finished(c, bytes, bits, blocks).datalen = c.datalen
         /\ Finished(c, bytes, bits, blocks).state = blocks
BY DEF Context, Finished

LEMMA BitsIsTyped ==
  ASSUME NEW c \in Context
  PROVE  Bits(c) \in Nat
BY Room, Sizes, OneBlockMore, SMT DEF Bits

LEMMA MarkedIsTyped ==
  ASSUME NEW c \in Context
  PROVE  /\ Marked(c) \in [Places -> Octet]
         /\ \A j \in Places : /\ j < c.datalen => Marked(c)[j] = c.data[j]
                              /\ j = c.datalen => Marked(c)[j] = Marker
                              /\ j > c.datalen => Marked(c)[j] = 0
<1>1. c.datalen \in Nat /\ c.data \in [Places -> Octet]
  BY Room
<1>2. Marker \in Octet /\ 0 \in Octet
  BY DEF Octet
<1>3. ASSUME NEW j \in Places
      PROVE  /\ Marked(c)[j] \in Octet
             /\ j < c.datalen => Marked(c)[j] = c.data[j]
             /\ j = c.datalen => Marked(c)[j] = Marker
             /\ j > c.datalen => Marked(c)[j] = 0
  <2>1. c.data[j] \in Octet /\ j \in Nat
    BY <1>1, Sizes, SMT DEF Places
  <2>2. CASE j < c.datalen
    BY <1>1, <2>1, <2>2 DEF Marked
  <2>3. CASE j = c.datalen
    BY <1>1, <1>2, <2>1, <2>3 DEF Marked
  <2>4. CASE j > c.datalen
    BY <1>1, <1>2, <2>1, <2>4 DEF Marked
  <2> QED BY <1>1, <2>1, <2>2, <2>3, <2>4
<1>4. Marked(c) = [j \in Places |-> Marked(c)[j]]
  BY DEF Marked
<1> QED BY <1>3, <1>4

LEMMA ClosingIsTyped ==
  ASSUME NEW c \in Context
  PROVE  /\ Closing(c) \in [Places -> Octet]
         /\ \A j \in Places :
              /\ j >= LengthPlace => Closing(c)[j] = LengthByte(Bits(c), BlockSize - 1 - j)
              /\ j < LengthPlace /\ Fits(c) => Closing(c)[j] = Marked(c)[j]
              /\ j < LengthPlace /\ ~ Fits(c) => Closing(c)[j] = 0
<1>1. ASSUME NEW j \in Places
      PROVE  /\ Closing(c)[j] \in Octet
             /\ j >= LengthPlace => Closing(c)[j] = LengthByte(Bits(c), BlockSize - 1 - j)
             /\ j < LengthPlace /\ Fits(c) => Closing(c)[j] = Marked(c)[j]
             /\ j < LengthPlace /\ ~ Fits(c) => Closing(c)[j] = 0
  <2>1. BlockSize - 1 - j \in Nat /\ j \in Int /\ LengthPlace \in Int
    BY Sizes, SMT DEF Places
  <2>2. LengthByte(Bits(c), BlockSize - 1 - j) \in Octet /\ 0 \in Octet
    BY <2>1, BitsIsTyped DEF Octet
  <2>3. Marked(c)[j] \in Octet
    BY MarkedIsTyped
  <2> QED BY <2>1, <2>2, <2>3 DEF Closing
<1>2. Closing(c) = [j \in Places |-> Closing(c)[j]]
  BY DEF Closing
<1> QED BY <1>1, <1>2

(* One more block, or the filled one and one more, after those there were. *)
LEMMA BlocksAreTyped ==
  ASSUME NEW c \in Context
  PROVE  /\ Blocks(c) \in Seq([Places -> Octet])
         /\ \A k \in 1..Len(c.state) : Blocks(c)[k] = c.state[k]
         /\ Fits(c) => /\ Len(Blocks(c)) = Len(c.state) + 1
                       /\ Blocks(c)[Len(c.state) + 1] = Closing(c)
         /\ ~ Fits(c) => /\ Len(Blocks(c)) = Len(c.state) + 2
                         /\ Blocks(c)[Len(c.state) + 1] = Marked(c)
                         /\ Blocks(c)[Len(c.state) + 2] = Closing(c)
<1>1. /\ c.state \in Seq([Places -> Octet]) /\ Len(c.state) \in Nat
      /\ Closing(c) \in [Places -> Octet] /\ Marked(c) \in [Places -> Octet]
  BY Room, ClosingIsTyped, MarkedIsTyped
<1> DEFINE s == c.state
           last == Closing(c)
           marked == Marked(c)
           full == Append(s, marked)
<1>2. /\ s \in Seq([Places -> Octet]) /\ Len(s) \in Nat
      /\ last \in [Places -> Octet] /\ marked \in [Places -> Octet]
      /\ Blocks(c) = IF Fits(c) THEN Append(s, last) ELSE Append(full, last)
  BY <1>1 DEF Blocks
<1> HIDE DEF s, last, marked
<1>3. /\ full \in Seq([Places -> Octet]) /\ Len(full) = Len(s) + 1
      /\ full[Len(s) + 1] = marked /\ \A k \in 1..Len(s) : full[k] = s[k]
  BY <1>2
<1> HIDE DEF full
<1>4. CASE Fits(c)
  BY <1>2, <1>4 DEF s, last
<1>5. CASE ~ Fits(c)
  BY <1>2, <1>3, <1>5 DEF s, last, marked
<1> QED BY <1>4, <1>5

LEMMA FinalIsTyped ==
  ASSUME NEW c \in Context
  PROVE  /\ sha256_final(c) \in Context
         /\ sha256_final(c).datalen = c.datalen
         /\ sha256_final(c).state = Blocks(c)
BY FinalIs, FinishedIs, ClosingIsTyped, BitsIsTyped, BlocksAreTyped

(* A final gets a whole block ahead of the bytes of a context. *)
LEMMA FinalGetsAhead ==
  ASSUME NEW c \in Context, NEW m \in Seq(Bytes), Gathers(c, m) \/ Ahead(c, m)
  PROVE  Ahead(sha256_final(c), m)
<1> DEFINE n == Len(c.state)
           n1 == Len(Blocks(c))
           d == c.datalen
           l == Len(m)
<1>1. n \in Nat /\ d \in Nat /\ l \in Nat /\ BlockSize \in Nat /\ (n1 = n + 1 \/ n1 = n + 2)
  BY Room, Sizes, BlocksAreTyped
<1>2. /\ (n + 1) * BlockSize = n * BlockSize + BlockSize
      /\ (n + 2) * BlockSize = n * BlockSize + BlockSize + BlockSize
      /\ n * BlockSize \in Nat
  BY <1>1, OneBlockMore, SMT
<1>3. n * BlockSize + d >= l
  BY <1>1, <1>2, SMT DEF Gathers, Ahead
<1>4. n1 * BlockSize + d >= l + BlockSize
  <2> HIDE DEF n, n1, d, l
  <2> DEFINE a == n * BlockSize
  <2>1. a \in Nat /\ a + d >= l /\ (n1 * BlockSize = a + BlockSize \/ n1 * BlockSize = a + BlockSize + BlockSize)
    BY <1>1, <1>2, <1>3
  <2> HIDE DEF a
  <2> QED BY ONLY <2>1, <1>1, SMT
<1> QED BY <1>4, FinalIsTyped DEF Ahead

(* A context that is ahead has too many blocks for the bytes it was given. *)
LEMMA AheadIsWrong ==
  ASSUME NEW c \in Context, NEW m \in Seq(Bytes), Ahead(c, m)
  PROVE  ~ IsDigestOf(Blocks(c), m)
<1> DEFINE n == Len(c.state)
           n1 == Len(Blocks(c))
           d == c.datalen
           l == Len(m)
           a == n * BlockSize
           b == (n1 - 1) * BlockSize
<1>1. /\ n \in Nat /\ d \in Nat /\ l \in Nat /\ BlockSize \in Nat /\ d < BlockSize
      /\ a \in Nat /\ a + d >= l + BlockSize
  BY Room, Sizes, OneBlockMore DEF Ahead
<1>2. (n + 1) * BlockSize = a + BlockSize
  BY <1>1, OneBlockMore
<1>3. \/ d < LengthPlace /\ b = a
      \/ ~ d < LengthPlace /\ b = a + BlockSize
  <2>1. CASE Fits(c)
    <3>1. n1 = n + 1  BY <2>1, BlocksAreTyped
    <3>2. n1 - 1 = n  BY <1>1, <3>1, SMT
    <3> QED BY <2>1, <3>2 DEF Fits
  <2>2. CASE ~ Fits(c)
    <3>1. n1 = n + 2  BY <2>2, BlocksAreTyped
    <3>2. n1 - 1 = n + 1  BY <1>1, <3>1, SMT
    <3> QED BY <2>2, <3>2, <1>2 DEF Fits
  <2> QED BY <2>1, <2>2
<1>4. ~ b < l + 1 + LengthBytes
  <2> HIDE DEF n, n1, d, l, a, b
  <2> QED BY <1>1, <1>3, Sizes, SMT
<1> QED BY <1>4 DEF IsDigestOf

(* The four parts of a padded message. *)
LEMMA PaddedParts ==
  ASSUME NEW m \in Seq(Bytes), NEW n \in Nat, NEW place \in Nat, n * BlockSize \in Nat
  PROVE  /\ place < Len(m) => PaddedByte(m, n, place) = m[place + 1]
         /\ place = Len(m) => PaddedByte(m, n, place) = Marker
         /\ place > Len(m) /\ place >= n * BlockSize - LengthBytes =>
              PaddedByte(m, n, place)
                = LengthByte(ByteBits * Len(m), n * BlockSize - 1 - place)
         /\ place > Len(m) /\ place < n * BlockSize - LengthBytes =>
              PaddedByte(m, n, place) = 0
<1> DEFINE end == n * BlockSize
           l == Len(m)
<1>1. end \in Nat /\ l \in Nat /\ place \in Nat /\ LengthBytes \in Nat
  BY Sizes
<1>2. PaddedByte(m, n, place)
        = CASE place < l -> m[place + 1]
            [] place = l -> Marker
            [] place > l /\ place >= end - LengthBytes ->
                 LengthByte(ByteBits * l, end - 1 - place)
            [] OTHER -> 0
  BY DEF PaddedByte
<1> HIDE DEF end, l
<1>3. CASE place < l
  BY <1>1, <1>2, <1>3 DEF l
<1>4. CASE place = l
  BY <1>1, <1>2, <1>4 DEF l
<1>5. CASE place > l /\ place >= end - LengthBytes
  BY <1>1, <1>2, <1>5 DEF l, end
<1>6. CASE place > l /\ place < end - LengthBytes
  BY <1>1, <1>2, <1>6 DEF l, end
<1>7. \/ place < l
      \/ place = l
      \/ place > l /\ place >= end - LengthBytes
      \/ place > l /\ place < end - LengthBytes
  BY <1>1, SMT
<1> QED BY <1>3, <1>4, <1>5, <1>6, <1>7

(* What a context that gathered its bytes mixes in is their padding. *)
LEMMA GatheredIsPadded ==
  ASSUME NEW c \in Context, NEW m \in Seq(Bytes), Gathers(c, m)
  PROVE  IsDigestOf(Blocks(c), m)
<1> DEFINE n == Len(c.state)
           n1 == Len(Blocks(c))
           d == c.datalen
           l == Len(m)
           a == n * BlockSize
           end == n1 * BlockSize
<1>1. /\ n \in Nat /\ d \in Nat /\ l \in Nat /\ BlockSize \in Nat /\ d < BlockSize
      /\ a \in Nat /\ l = a + d
  BY Room, Sizes, OneBlockMore DEF Gathers
<1>2. /\ Fits(c) => d < LengthPlace /\ n1 = n + 1 /\ end = a + BlockSize
      /\ ~ Fits(c) => d >= LengthPlace /\ n1 = n + 2 /\ end = a + BlockSize + BlockSize
  <2>1. (n + 1) * BlockSize = a + BlockSize
        /\ (n + 2) * BlockSize = a + BlockSize + BlockSize
    BY <1>1, OneBlockMore, SMT
  <2>2. Fits(c) => n1 = n + 1
    BY BlocksAreTyped
  <2>3. ~ Fits(c) => n1 = n + 2
    BY BlocksAreTyped
  <2>4. (Fits(c) <=> d < LengthPlace) /\ (~ d < LengthPlace => d >= LengthPlace)
    BY <1>1, Sizes, SMT DEF Fits
  <2> QED BY <2>1, <2>2, <2>3, <2>4
<1>3. n1 \in Nat /\ end \in Nat
  <2> HIDE DEF n, n1, d, l, a, end
  <2> QED BY <1>1, <1>2, Sizes, SMT
<1>4. end >= l + 1 + LengthBytes
  <2> HIDE DEF n, n1, d, l, a, end
  <2> QED BY <1>1, <1>2, Sizes, SMT
<1>5. (n1 - 1) * BlockSize < l + 1 + LengthBytes
  <2>1. (n + 1) * BlockSize = a + BlockSize
    BY <1>1, OneBlockMore
  <2>2. \/ Fits(c) /\ (n1 - 1) * BlockSize = a
        \/ ~ Fits(c) /\ (n1 - 1) * BlockSize = a + BlockSize
    <3>1. CASE Fits(c)
      <4>1. n1 - 1 = n  BY <1>1, <1>2, <3>1, SMT
      <4> QED BY <3>1, <4>1
    <3>2. CASE ~ Fits(c)
      <4>1. n1 - 1 = n + 1  BY <1>1, <1>2, <3>2, SMT
      <4> QED BY <3>2, <4>1, <2>1
    <3> QED BY <3>1, <3>2
  <2> DEFINE b == (n1 - 1) * BlockSize
  <2>3. (Fits(c) /\ b = a) \/ (~ Fits(c) /\ b = a + BlockSize)
    BY <2>2
  <2> HIDE DEF n, n1, d, l, a, end, b
  <2>4. b < l + 1 + LengthBytes
    BY <1>1, <1>2, <2>3, Sizes, SMT
  <2> QED BY <2>4 DEF b
<1>6. Bits(c) = ByteBits * l
  <2>1. ByteBits * (a + d) = ByteBits * a + ByteBits * d
    BY <1>1, Sizes, BitsOfTheNextBlock
  <2>2. d * ByteBits = ByteBits * d
    BY <1>1, Sizes, SMT
  <2>3. c.bitlen = ByteBits * a
    BY DEF Gathers
  <2> QED BY <1>1, <2>1, <2>2, <2>3 DEF Bits
<1>7. ASSUME NEW b \in 1..n1, NEW j \in Places
      PROVE  Blocks(c)[b][j] = PaddedByte(m, n1, (b - 1) * BlockSize + j)
  <2>1. j \in Nat /\ j < BlockSize
    BY Sizes, SMT DEF Places
  <2>2. CASE b \in 1..n
    <3> DEFINE before == (b - 1) * BlockSize
    <3>1. b - 1 \in Nat /\ b - 1 < n /\ before \in Nat
      BY <2>2, <1>1, OneBlockMore, SMT
    <3>2. before + BlockSize <= a
      BY <3>1, <1>1, BlockWithin
    <3> HIDE DEF before
    <3>3. before + j \in Nat /\ before + j < l
      <4> HIDE DEF n, n1, d, l, a, end
      <4> QED BY <3>1, <3>2, <2>1, <1>1, SMT
    <3>4. PaddedByte(m, n1, before + j) = m[before + j + 1]
      BY <3>3, <1>3, PaddedParts
    <3>5. Blocks(c)[b] = c.state[b]
      BY <2>2, BlocksAreTyped
    <3>6. c.state[b][j] = m[before + j + 1]
      BY <2>2 DEF Gathers, before
    <3> QED BY <3>4, <3>5, <3>6 DEF before
  <2>3. ASSUME NEW marked \in [Places -> Octet], marked = Marked(c),
               ~ (Fits(c) /\ j >= LengthPlace)
        PROVE  marked[j] = PaddedByte(m, n1, a + j)
    <3>1. a + j \in Nat
      BY <2>1, <1>1
    <3>2. CASE j < d
      <4>1. a + j < l /\ j \in 0..(d - 1)
        <5> HIDE DEF n, n1, l, a, end, d
        <5> QED BY <3>2, <2>1, <1>1, SMT
      <4>2. Marked(c)[j] = c.data[j]
        BY <3>2, MarkedIsTyped
      <4>3. c.data[j] = m[a + j + 1]
        BY <4>1 DEF Gathers
      <4>4. PaddedByte(m, n1, a + j) = m[a + j + 1]
        BY <3>1, <4>1, <1>3, PaddedParts
      <4> QED BY <2>3, <4>2, <4>3, <4>4
    <3>3. CASE j = d
      <4>1. Marked(c)[j] = Marker
        BY <3>3, MarkedIsTyped
      <4>2. a + j = l
        BY <3>3, <1>1
      <4>3. PaddedByte(m, n1, a + j) = Marker
        BY <3>1, <4>2, <1>3, PaddedParts
      <4> QED BY <2>3, <4>1, <4>3
    <3>4. CASE j > d
      <4>1. Marked(c)[j] = 0
        BY <3>4, MarkedIsTyped
      <4>2. a + j > l /\ a + j < end - LengthBytes
        <5> HIDE DEF n, n1, l, a, end, d
        <5> QED BY <3>4, <2>1, <2>3, <1>1, <1>2, Sizes, SMT
      <4>3. PaddedByte(m, n1, a + j) = 0
        BY <3>1, <4>2, <1>3, PaddedParts
      <4> QED BY <2>3, <4>1, <4>3
    <3> QED BY <3>2, <3>3, <3>4, <2>1, <1>1
  <2>4. ASSUME j >= LengthPlace, NEW place \in Nat, place + BlockSize = end + j, place > l
        PROVE  Closing(c)[j] = PaddedByte(m, n1, place)
    <3>1. Closing(c)[j] = LengthByte(Bits(c), BlockSize - 1 - j)
      BY <2>4, ClosingIsTyped
    <3>2. place >= end - LengthBytes /\ end - 1 - place = BlockSize - 1 - j
      <4> HIDE DEF n, n1, l, a, end, d
      <4> QED BY <2>4, <2>1, <1>1, <1>3, Sizes, SMT
    <3>3. PaddedByte(m, n1, place) = LengthByte(ByteBits * l, end - 1 - place)
      BY <2>4, <3>2, <1>3, PaddedParts
    <3> QED BY <3>1, <3>2, <3>3, <1>6
  <2>5. CASE b = n + 1 /\ Fits(c)
    <3>1. Blocks(c)[b] = Closing(c) /\ (b - 1) * BlockSize = a
      <4>1. b - 1 = n  BY <2>5, <1>1, SMT
      <4> QED BY <4>1, <2>5, BlocksAreTyped
    <3>2. CASE j >= LengthPlace
      <4>1. a + j \in Nat /\ a + j + BlockSize = end + j /\ a + j > l
        <5> HIDE DEF n, n1, l, a, end, d
        <5> QED BY <3>2, <2>5, <2>1, <1>1, <1>2, <1>3, Sizes, SMT
      <4>2. Closing(c)[j] = PaddedByte(m, n1, a + j)
        BY <4>1, <3>2, <2>4
      <4> QED BY <4>2, <3>1
    <3>3. CASE ~ j >= LengthPlace
      <4>1. j < LengthPlace
        BY <3>3, <2>1, Sizes, SMT
      <4>2. Closing(c)[j] = Marked(c)[j]
        BY <4>1, <2>5, ClosingIsTyped
      <4>3. Marked(c)[j] = PaddedByte(m, n1, a + j)
        BY <3>3, <2>3, MarkedIsTyped
      <4> QED BY <4>2, <4>3, <3>1
    <3> QED BY <3>2, <3>3
  <2>6. CASE b = n + 1 /\ ~ Fits(c)
    <3>1. Blocks(c)[b] = Marked(c) /\ (b - 1) * BlockSize = a
      <4>1. b - 1 = n  BY <2>6, <1>1, SMT
      <4> QED BY <4>1, <2>6, BlocksAreTyped
    <3>2. Marked(c)[j] = PaddedByte(m, n1, a + j)
      BY <2>6, <2>3, MarkedIsTyped
    <3> QED BY <3>1, <3>2
  <2>7. CASE b = n + 2 /\ ~ Fits(c)
    <3> DEFINE place == a + BlockSize + j
    <3>1. Blocks(c)[b] = Closing(c) /\ (b - 1) * BlockSize = a + BlockSize
      <4>1. b - 1 = n + 1  BY <2>7, <1>1, SMT
      <4>2. (n + 1) * BlockSize = a + BlockSize  BY <1>1, OneBlockMore
      <4> QED BY <4>1, <4>2, <2>7, BlocksAreTyped
    <3>2. place \in Nat /\ place + BlockSize = end + j /\ place > l
      <4> HIDE DEF n, n1, l, a, end, d
      <4> QED BY <2>7, <2>1, <1>1, <1>2, <1>3, Sizes, SMT
    <3> HIDE DEF place
    <3>3. CASE j >= LengthPlace
      BY <3>2, <3>3, <2>4, <3>1 DEF place
    <3>4. CASE ~ j >= LengthPlace
      <4>1. j < LengthPlace
        BY <3>4, <2>1, Sizes, SMT
      <4>2. Closing(c)[j] = 0
        BY <4>1, <2>7, ClosingIsTyped
      <4>3. place < end - LengthBytes
        <5> HIDE DEF n, n1, l, a, end, d
        <5> QED BY <3>2, <4>1, <2>1, <1>1, <1>3, Sizes, SMT
      <4>4. PaddedByte(m, n1, place) = 0
        BY <3>2, <4>3, <1>3, PaddedParts
      <4> QED BY <4>2, <4>4, <3>1 DEF place
    <3> QED BY <3>3, <3>4
  <2>8. b \in 1..n \/ (b = n + 1 /\ Fits(c)) \/ (b = n + 1 /\ ~ Fits(c))
        \/ (b = n + 2 /\ ~ Fits(c))
    <3> HIDE DEF n, n1, l, a, end, d
    <3> QED BY <1>1, <1>2, <1>3, SMT
  <2> QED BY <2>2, <2>5, <2>6, <2>7, <2>8
<1> QED BY <1>4, <1>5, <1>7 DEF IsDigestOf

-----------------------------------------------------------------------------
(* The digest last taken is as good as its blocks: of the bytes of the      *)
(* context if it was the first, and else of none.                           *)
LEMMA DigestInitInv == DigestInit => DigestInv
<1> SUFFICES ASSUME DigestInit  PROVE DigestInv  OBVIOUS
<1>1. /\ created = FALSE /\ ctx \in Context /\ chunk = <<>> /\ digest = None
      /\ message = <<>> /\ finals = 0
  BY CreateGathers DEF DigestInit
<1>2. DigestTyped
  <2>1. chunk \in Seq(Bytes) /\ message \in Seq(Bytes)
    <3>1. <<>> \in Seq(Bytes)  OBVIOUS
    <3> QED BY ONLY <1>1, <3>1
  <2> QED BY <1>1, <2>1 DEF DigestTyped
<1> QED BY <1>1, <1>2 DEF DigestInv, DigestIsOfTheMessage, SecondDigestIsWrong

LEMMA DigestNextInv == DigestInv /\ [DigestNext]_digestVars => DigestInv'
<1> SUFFICES ASSUME DigestInv, [DigestNext]_digestVars  PROVE DigestInv'  OBVIOUS
<1>1. CASE Create
  <2>1. /\ ~ created /\ created' = TRUE /\ ctx' = sha256_create /\ chunk' = chunk
        /\ digest' = digest /\ message' = message /\ finals' = finals
    BY <1>1 DEF Create
  <2>2. /\ chunk \in Seq(Bytes) /\ message = <<>> /\ finals = 0 /\ digest = None
        /\ chunk = <<>>
    BY <2>1 DEF DigestInv, DigestTyped
  <2> QED BY <2>1, <2>2, CreateGathers
          DEF DigestInv, DigestTyped, DigestIsOfTheMessage, SecondDigestIsWrong
<1>2. CASE StartUpdate
  <2>1. PICK n \in 1..(MaxMessage - Len(message)) : chunk' \in [1..n -> Bytes]
    BY <1>2 DEF StartUpdate
  <2>2. n \in Nat
    BY <2>1, BoundsAssumption DEF DigestInv, DigestTyped
  <2>3. chunk' \in Seq(Bytes)
    BY <2>1, <2>2
  <2> QED BY <1>2, <2>3
          DEF StartUpdate, DigestInv, DigestTyped, DigestIsOfTheMessage, SecondDigestIsWrong
<1>3. CASE UpdateByte
  <2>1. /\ ctx \in Context /\ created /\ chunk \in Seq(Bytes) /\ chunk # <<>>
        /\ message \in Seq(Bytes) /\ finals \in Nat
    BY <1>3 DEF UpdateByte, DigestInv, DigestTyped
  <2> DEFINE byte == Head(chunk)
  <2>2. byte \in Bytes /\ Tail(chunk) \in Seq(Bytes) /\ Append(message, byte) \in Seq(Bytes)
    BY <2>1
  <2>3. /\ ctx' = Absorb(ctx, byte) /\ chunk' = Tail(chunk)
        /\ message' = Append(message, byte) /\ digest' = digest /\ finals' = finals
    BY <1>3 DEF UpdateByte
  <2> HIDE DEF byte
  <2>4. ctx' \in Context
    BY <2>1, <2>2, <2>3, AbsorbIsTyped
  <2>5. created' = created
    BY <1>3 DEF UpdateByte
  <2>6. finals = 0 => Gathers(ctx', message')
    BY <2>1, <2>2, <2>3, AbsorbGathers DEF DigestInv
  <2>7. finals > 0 => Ahead(ctx', message')
    BY <2>1, <2>2, <2>3, AbsorbStaysAhead DEF DigestInv
  <2> QED BY <2>1, <2>2, <2>3, <2>4, <2>5, <2>6, <2>7
          DEF DigestInv, DigestTyped, DigestIsOfTheMessage, SecondDigestIsWrong
<1>4. CASE Final
  <2>1. /\ ctx \in Context /\ created /\ message \in Seq(Bytes) /\ finals \in Nat
        /\ chunk \in Seq(Bytes) /\ chunk = <<>>
    BY <1>4 DEF Final, DigestInv, DigestTyped
  <2>2. /\ ctx' = sha256_final(ctx) /\ chunk' = chunk /\ message' = message
        /\ finals' = finals + 1
        /\ digest' = [blocks |-> sha256_final(ctx).state, of |-> message]
    BY <1>4 DEF Final
  <2>3. ctx' \in Context /\ digest'.blocks = Blocks(ctx) /\ digest'.of = message
    BY <2>1, <2>2, FinalIsTyped
  <2>4. Gathers(ctx, message) \/ Ahead(ctx, message)
    BY <2>1 DEF DigestInv
  <2>5. Ahead(ctx', message')
    BY <2>1, <2>2, <2>4, FinalGetsAhead
  <2>6. DigestIsOfTheMessage'
    <3> SUFFICES ASSUME finals' = 1
                 PROVE  IsDigestOf(digest'.blocks, digest'.of)
      BY DEF DigestIsOfTheMessage
    <3>1. Gathers(ctx, message)
      BY <2>1, <2>2 DEF DigestInv
    <3> QED BY <2>1, <2>3, <3>1, GatheredIsPadded
  <2>7. SecondDigestIsWrong'
    <3> SUFFICES ASSUME finals' > 1
                 PROVE  ~ IsDigestOf(digest'.blocks, digest'.of)
      BY DEF SecondDigestIsWrong
    <3>1. Ahead(ctx, message)
      BY <2>1, <2>2 DEF DigestInv
    <3> QED BY <2>1, <2>3, <3>1, AheadIsWrong
  <2>8. finals' \in Nat /\ finals' > 0 /\ ~ finals' = 0
    BY <2>1, <2>2
  <2>9. created' = created
    BY <1>4 DEF Final
  <2> QED BY <2>1, <2>2, <2>3, <2>5, <2>6, <2>7, <2>8, <2>9 DEF DigestInv, DigestTyped
<1>5. CASE Destroy
  BY <1>5 DEF Destroy, DigestInv, DigestTyped, DigestIsOfTheMessage, SecondDigestIsWrong
<1>6. CASE UNCHANGED digestVars
  BY <1>6 DEF digestVars, DigestInv, DigestTyped, DigestIsOfTheMessage, SecondDigestIsWrong
<1> QED BY <1>1, <1>2, <1>3, <1>4, <1>5, <1>6 DEF DigestNext

(* The buffer of a context has room for a byte whenever one comes, for every *)
(* size of block and after any number of digests.                           *)
THEOREM DigestTypeCorrect == DigestSpec => []TypeOK
<1>1. DigestInv => TypeOK
  BY Room DEF DigestInv, DigestTyped, TypeOK, Context, Places
<1> QED BY <1>1, DigestInitInv, DigestNextInv, PTL DEF DigestSpec

(* sha256_final pads as the standard says: whatever the number of bytes is  *)
(* and wherever the calls of sha256_update cut them.                        *)
THEOREM FirstDigestIsRight == DigestSpec => []DigestIsOfTheMessage
<1>1. DigestInv => DigestIsOfTheMessage
  BY DEF DigestInv
<1> QED BY <1>1, DigestInitInv, DigestNextInv, PTL DEF DigestSpec

(* A digest taken again from the same context is never that of its bytes,   *)
(* with or without more bytes in between.                                   *)
THEOREM LaterDigestsAreWrong == DigestSpec => []SecondDigestIsWrong
<1>1. DigestInv => SecondDigestIsWrong
  BY DEF DigestInv
<1> QED BY <1>1, DigestInitInv, DigestNextInv, PTL DEF DigestSpec

-----------------------------------------------------------------------------
(***************************************************************************)
(* The inductive invariant.  A push asks for the place it is going to      *)
(* write, and as long as no block was given up capacity counts the cells.  *)
(***************************************************************************)
PushAsksForOneMore == call = "push" => asked = size + 1
CapacityCountsCells == ~ lost => List!Cells = 0..(capacity - 1)
HistoryHasSize == size = Len(list)
ListInv == /\ List!TypeOK /\ PushAsksForOneMore /\ CapacityCountsCells
       /\ HistoryHasSize /\ List!ListIsKept

LEMMA NoCellsHasNone == /\ List!NoCells \in [{} -> Values \union {NULL}]
                        /\ DOMAIN List!NoCells = {} /\ 0..(0 - 1) = {}
BY DEF List!NoCells

LEMMA ListInit == List!Init => ListInv
<1> SUFFICES ASSUME List!Init  PROVE ListInv  OBVIOUS
<1>1. List!TypeOK
  <2>1. (IF block THEN 0..(capacity - 1) ELSE {}) = {} /\ values = List!NoCells
        BY DEF List!Init
  <2>2. values \in [(IF block THEN 0..(capacity - 1) ELSE {}) -> Values \union {NULL}]
        BY ONLY <2>1, NoCellsHasNone
  <2>3. list \in Seq(Values)  BY DEF List!Init
  <2> QED  BY <2>2, <2>3 DEF List!Init, List!TypeOK
<1>2. PushAsksForOneMore /\ CapacityCountsCells /\ HistoryHasSize /\ List!ListIsKept
      BY NoCellsHasNone
      DEF List!Init, PushAsksForOneMore, CapacityCountsCells, HistoryHasSize,
          List!ListIsKept, List!Cells
<1> QED  BY <1>1, <1>2 DEF ListInv

(* What comes back with OK stores the value of a push in a cell of the      *)
(* block, and touches no other cell.                                        *)
LEMMA ReturnKeeps ==
  ASSUME ListInv, call # "idle", NEW b, block' \in BOOLEAN,
         capacity' \in Nat, capacity' >= asked, new_capacity' \in Nat,
         b \in [(IF block' THEN 0..(capacity' - 1) ELSE {}) -> Values \union {NULL}],
         ~ lost => /\ DOMAIN b = 0..(capacity' - 1)
                   /\ \A i \in List!Cells : i \in DOMAIN b /\ b[i] = values[i],
         List!Return(b), lost' = lost
  PROVE  ListInv'
<1>1. CASE call = "initialize"
  <2>1. /\ values' = b /\ size' = size /\ list' = list /\ fault' = fault
        /\ call' = "idle" /\ asked' = asked /\ value' = value
        BY <1>1 DEF List!Return
  <2>2. List!TypeOK' /\ PushAsksForOneMore' /\ CapacityCountsCells' /\ HistoryHasSize'
        BY <2>1
        DEF ListInv, List!TypeOK, PushAsksForOneMore, CapacityCountsCells,
            HistoryHasSize, List!Cells
  <2>3. List!ListIsKept'
        BY <2>1 DEF ListInv, List!TypeOK, List!ListIsKept, List!Cells
  <2> QED  BY <2>2, <2>3 DEF ListInv
<1>2. CASE call = "push"
  <2>1. asked = size + 1 /\ value \in Values /\ size \in Nat
        BY <1>2 DEF ListInv, List!TypeOK, PushAsksForOneMore
  <2>2. size' = size + 1 /\ list' = Append(list, value)
        /\ call' = "idle" /\ asked' = asked /\ value' = value
        BY <1>2 DEF List!Return
  <2>3. list \in Seq(Values) /\ list' \in Seq(Values) /\ Len(list') = Len(list) + 1
        BY <2>1, <2>2 DEF ListInv, List!TypeOK
  <2>4. /\ values' \in [(IF block' THEN 0..(capacity' - 1) ELSE {}) -> Values \union {NULL}]
        /\ fault' \in BOOLEAN
        /\ DOMAIN values' = DOMAIN b
        BY <1>2, <2>1 DEF List!Return, ListInv, List!TypeOK
  <2>5. List!TypeOK'
        BY <2>1, <2>2, <2>3, <2>4 DEF ListInv, List!TypeOK
  <2>6. ASSUME ~ lost
        PROVE  /\ fault' = fault
               /\ values' = [b EXCEPT ![size] = value]
               /\ size \in DOMAIN b
    <3>1. DOMAIN b = 0..(capacity' - 1)  BY <2>6
    <3>2. size \in DOMAIN b
      <4>1. asked = size + 1 /\ size \in Nat  BY <2>1
      <4>2. capacity' \in Nat /\ capacity' >= size + 1  BY <4>1, Zenon
      <4> DEFINE c == capacity'
      <4>3. c \in Nat /\ c >= size + 1  BY <4>2
      <4> HIDE DEF c
      <4>4. size \in 0..(c - 1)  BY ONLY <4>1, <4>3
      <4> QED  BY <3>1, <4>4 DEF c
    <3> QED  BY <1>2, <3>2 DEF List!Return
  <2>7. CapacityCountsCells' /\ PushAsksForOneMore' /\ HistoryHasSize'
        BY <2>2, <2>3, <2>4
        DEF CapacityCountsCells, PushAsksForOneMore, HistoryHasSize, ListInv,
            List!Cells
  <2>8. List!ListIsKept'
    <3> SUFFICES ASSUME ~ lost
                 PROVE  /\ ~ fault' /\ size' = Len(list')
                        /\ \A k \in 1..Len(list') :
                             k - 1 \in DOMAIN values' /\ values'[k - 1] = list'[k]
        BY DEF List!ListIsKept, List!Cells
    <3>1. ~ fault /\ size = Len(list)
          BY DEF ListInv, List!ListIsKept
    <3>2. ASSUME NEW k \in 1..Len(list)
          PROVE  k - 1 \in DOMAIN b /\ b[k - 1] = list[k]
          BY DEF ListInv, List!ListIsKept
    <3>3. ASSUME NEW k \in 1..Len(list')
          PROVE  k - 1 \in DOMAIN values' /\ values'[k - 1] = list'[k]
      <4>1. CASE k = Len(list) + 1
            BY <2>2, <2>3, <2>6, <3>1, <4>1
      <4>2. CASE k \in 1..Len(list)
        <5>1. list'[k] = list[k]
              BY <2>1, <2>2, <2>3, <4>2
        <5>2. k - 1 \in DOMAIN b /\ b[k - 1] = list[k]
              BY <3>2, <4>2
        <5>3. k - 1 # size
              BY <2>1, <3>1, <4>2
        <5> QED  BY <2>6, <5>1, <5>2, <5>3
      <4> QED  BY <2>3, <3>3, <4>1, <4>2
    <3> QED  BY <2>2, <2>3, <2>6, <3>1, <3>3
  <2> QED  BY <2>5, <2>7, <2>8 DEF ListInv
<1> QED  BY <1>1, <1>2 DEF ListInv, List!TypeOK

LEMMA ListStep == ListInv /\ [List!Next]_(List!vars) => ListInv'
<1> SUFFICES ASSUME ListInv, [List!Next]_(List!vars)  PROVE ListInv'  OBVIOUS
<1> USE DEF List!Idle
<1>1. ASSUME NEW caller \in {"initialize", "push"}, NEW n \in Nat,
             NEW v \in Values \union {NULL},
             caller = "push" => n = size + 1 /\ v \in Values,
             List!Initialize(caller, n, v)
      PROVE  ListInv'
  <2>1. capacity \in Nat  BY DEF ListInv, List!TypeOK
  <2>2. new_capacity' \in Nat
        BY <1>1, <2>1 DEF List!Initialize, List!ARRAY_LIST_DEFAULT_CAPACITY
  <2> QED
      BY <1>1, <2>2
      DEF List!Initialize, ListInv, List!TypeOK, PushAsksForOneMore,
          CapacityCountsCells, HistoryHasSize, List!ListIsKept, List!Cells
<1>2. CASE List!array_list_initialize
  <2>1. PICK n \in Nat : List!Initialize("initialize", n, value)
        BY <1>2 DEF List!array_list_initialize
  <2>2. value \in Values \union {NULL}  BY DEF ListInv, List!TypeOK
  <2> QED  BY <1>1, <2>1, <2>2
<1>3. CASE List!array_list_push
  <2>1. PICK v \in Values : List!Initialize("push", size + 1, v)  BY <1>3
    DEF List!array_list_push
  <2>2. size + 1 \in Nat  BY DEF ListInv, List!TypeOK
  <2> QED  BY <1>1, <2>1, <2>2
<1>4. CASE List!Double
  <2>1. new_capacity' \in Nat  BY <1>4 DEF List!Double, ListInv, List!TypeOK
  <2> QED
      BY <1>4, <2>1
      DEF List!Double, ListInv, List!TypeOK, PushAsksForOneMore, CapacityCountsCells,
          HistoryHasSize, List!ListIsKept, List!Cells
<1>5. CASE List!Enough
  <2>1. /\ List!Return(values) /\ call # "idle" /\ capacity >= asked
        /\ capacity' = capacity /\ block' = block
        /\ new_capacity' = new_capacity /\ lost' = lost
        BY <1>5 DEF List!Enough
  <2>2. /\ capacity \in Nat /\ new_capacity \in Nat /\ block \in BOOLEAN
        /\ values \in [(IF block THEN 0..(capacity - 1) ELSE {}) -> Values \union {NULL}]
        /\ ~ lost => List!Cells = 0..(capacity - 1)
        BY DEF ListInv, List!TypeOK, CapacityCountsCells
  <2> QED  BY <2>1, <2>2, ReturnKeeps DEF List!Cells
<1>6. CASE List!Reallocate
  <2>1. /\ List!Return(List!Grown) /\ call # "idle" /\ capacity < asked /\ new_capacity >= asked
        /\ capacity' = new_capacity /\ block' = TRUE
        /\ new_capacity' = new_capacity /\ lost' = lost
        BY <1>6 DEF List!Reallocate
  <2>2. /\ asked \in Nat /\ capacity \in Nat /\ new_capacity \in Nat
        /\ ~ lost => List!Cells = 0..(capacity - 1)
        BY <2>1 DEF ListInv, List!TypeOK, CapacityCountsCells
  <2>3. /\ List!Grown \in [0..(new_capacity - 1) -> Values \union {NULL}]
        /\ \A i \in List!Cells : i \in DOMAIN List!Grown => List!Grown[i] = values[i]
        BY DEF List!Grown, ListInv, List!TypeOK, List!Cells
  <2>4. ~ lost => \A i \in List!Cells : i \in DOMAIN List!Grown
        BY <2>1, <2>2 DEF List!Grown
  <2> QED  BY <2>1, <2>2, <2>3, <2>4, ReturnKeeps
<1>7. CASE List!ReallocFails
  <2>1. lost \/ (~ lost /\ capacity = 0 /\ ~ block)  \/ lost'
        BY <1>7
        DEF List!ReallocFails, ListInv, List!TypeOK, CapacityCountsCells, List!Cells
  <2> QED
      BY <1>7, <2>1
      DEF List!ReallocFails, List!NoCells, ListInv, List!TypeOK, PushAsksForOneMore,
          CapacityCountsCells,
          HistoryHasSize, List!ListIsKept, List!Cells
<1>8. CASE List!array_list_get
      BY <1>8
      DEF List!array_list_get, ListInv, List!TypeOK, PushAsksForOneMore,
          CapacityCountsCells, HistoryHasSize, List!ListIsKept, List!Cells
<1>9. CASE List!array_list_set
  <2>1. PICK index \in 0..(size - 1), v \in Values :
               List!Write(index, v) /\ list' = [list EXCEPT ![index + 1] = v]
        BY <1>9 DEF List!array_list_set
  <2>2. /\ size' = size /\ capacity' = capacity /\ block' = block /\ lost' = lost
        /\ call' = call /\ asked' = asked /\ value' = value
        /\ new_capacity' = new_capacity
        BY <1>9 DEF List!array_list_set
  <2>3. size \in Nat /\ list \in Seq(Values)
        BY DEF ListInv, List!TypeOK
  <2>4. list' \in Seq(Values) /\ Len(list') = Len(list)
    <3>1. list' = [list EXCEPT ![index + 1] = v] /\ v \in Values  BY <2>1
    <3>2. list \in [1..Len(list) -> Values] /\ Len(list) \in Nat  BY <2>3
    <3>3. list' \in [1..Len(list) -> Values]  BY <3>1, <3>2
    <3> QED  BY <3>2, <3>3
  <2>5. /\ values' \in [(IF block THEN 0..(capacity - 1) ELSE {}) -> Values \union {NULL}]
        /\ DOMAIN values' = DOMAIN values
        /\ fault' \in BOOLEAN
        BY <2>1 DEF List!Write, ListInv, List!TypeOK
  <2>6. List!TypeOK' /\ PushAsksForOneMore' /\ CapacityCountsCells' /\ HistoryHasSize'
        BY <2>2, <2>4, <2>5
        DEF ListInv, List!TypeOK, PushAsksForOneMore, CapacityCountsCells,
            HistoryHasSize, List!Cells
  <2>7. ASSUME ~ lost
        PROVE  /\ ~ fault' /\ size = Len(list)
               /\ values' = [values EXCEPT ![index] = v]
    <3>1. ~ fault /\ size = Len(list) /\ \A k \in 1..Len(list) : k - 1 \in List!Cells
          BY <2>7 DEF ListInv, List!ListIsKept
    <3>2. index + 1 \in 1..Len(list) /\ (index + 1) - 1 = index
          BY <2>3, <3>1
    <3>3. index \in List!Cells  BY <3>1, <3>2
    <3> QED  BY <2>1, <3>1, <3>3 DEF List!Write
  <2>8. ASSUME ~ lost, NEW k \in 1..Len(list)
        PROVE  k - 1 \in DOMAIN values' /\ values'[k - 1] = list'[k]
    <3>1. k - 1 \in DOMAIN values /\ values[k - 1] = list[k]
          BY <2>8 DEF ListInv, List!ListIsKept, List!Cells
    <3>2. k \in DOMAIN list  BY <2>3
    <3>3. CASE k = index + 1
          BY <2>1, <2>7, <2>8, <3>1, <3>2, <3>3
    <3>4. CASE k # index + 1
          BY <2>1, <2>7, <2>8, <3>1, <3>2, <3>4
    <3> QED  BY <3>3, <3>4
  <2>9. List!ListIsKept'
        BY <2>2, <2>4, <2>7, <2>8 DEF List!ListIsKept, List!Cells
  <2> QED  BY <2>6, <2>9 DEF ListInv
<1>10. CASE List!array_list_pop
  <2>1. /\ call = "idle" /\ ~ fault /\ size > 0 /\ size' = size - 1
        /\ fault' = (size - 1 \notin List!Cells) /\ list' = SubSeq(list, 1, Len(list) - 1)
        /\ capacity' = capacity /\ values' = values /\ block' = block /\ call' = call
        /\ asked' = asked /\ value' = value /\ new_capacity' = new_capacity /\ lost' = lost
        BY <1>10 DEF List!array_list_pop, List!Idle
  <2>2. size \in Nat /\ list \in Seq(Values) /\ Len(list) \in Nat
        BY DEF ListInv, List!TypeOK
  <2>3. /\ list' \in Seq(Values) /\ Len(list') = Len(list) - 1
        /\ \A k \in 1..Len(list') : list'[k] = list[k]
    <3>1. Len(list) > 0  BY <2>1 DEF ListInv, HistoryHasSize
    <3>2. /\ 1 \in 1..(Len(list) + 1) /\ Len(list) - 1 \in (1 - 1)..Len(list)
          /\ Len(list) - 1 - 1 + 1 = Len(list) - 1
          BY <2>2, <3>1
    <3>3. /\ list' \in Seq(Values) /\ Len(list') = Len(list) - 1
          /\ \A i \in 1..(Len(list) - 1) : list'[i] = list[1 + i - 1]
          BY <2>1, <2>2, <3>2, SubSeqProperties
    <3> QED  BY <2>2, <3>3
  <2>4. size' \in Nat /\ fault' \in BOOLEAN
        BY <2>1, <2>2
  <2>5. List!TypeOK' /\ PushAsksForOneMore' /\ CapacityCountsCells' /\ HistoryHasSize'
        BY <2>1, <2>3, <2>4
        DEF ListInv, List!TypeOK, PushAsksForOneMore, CapacityCountsCells,
            HistoryHasSize, List!Cells
  <2>6. List!ListIsKept'
    <3> SUFFICES ASSUME ~ lost
                 PROVE  /\ ~ fault' /\ size' = Len(list')
                        /\ \A k \in 1..Len(list') :
                             k - 1 \in List!Cells /\ values[k - 1] = list'[k]
        BY <2>1 DEF List!ListIsKept, List!Cells
    <3>1. /\ size = Len(list)
          /\ \A k \in 1..Len(list) : k - 1 \in List!Cells /\ values[k - 1] = list[k]
          BY DEF ListInv, List!ListIsKept
    <3>2. Len(list) \in 1..Len(list) /\ 1..Len(list') \subseteq 1..Len(list)
          BY <2>1, <2>2, <2>3, <3>1
    <3>3. Len(list) - 1 \in List!Cells  BY <3>1, <3>2
    <3> QED  BY <2>1, <2>2, <2>3, <3>1, <3>2, <3>3
  <2> QED  BY <2>5, <2>6 DEF ListInv
<1>11. CASE List!array_list_clear
      BY <1>11
      DEF List!array_list_clear, ListInv, List!TypeOK, PushAsksForOneMore,
          CapacityCountsCells, HistoryHasSize, List!ListIsKept,
          List!Cells
<1>12. CASE List!array_list_destroy
  <2>1. /\ size' = 0 /\ capacity' = 0 /\ new_capacity' = 0 /\ values' = List!NoCells
        /\ block' = FALSE /\ list' = <<>> /\ lost' = FALSE /\ fault' = fault
        /\ ~ fault
        /\ call' = "idle" /\ asked' = asked /\ value' = value
        BY <1>12 DEF List!array_list_destroy
  <2>2. value \in Values \union {NULL} /\ asked \in Nat /\ fault \in BOOLEAN
        BY DEF ListInv, List!TypeOK
  <2>4. List!TypeOK'
    <3>1. (IF block' THEN 0..(capacity' - 1) ELSE {}) = {} /\ values' = List!NoCells
          BY <2>1
    <3>2. values' \in [(IF block' THEN 0..(capacity' - 1) ELSE {}) -> Values \union {NULL}]
          BY ONLY <3>1, NoCellsHasNone
    <3>3. list' \in Seq(Values)  BY <2>1
    <3> QED  BY <2>1, <2>2, <3>2, <3>3 DEF List!TypeOK
  <2>5. PushAsksForOneMore' /\ CapacityCountsCells' /\ HistoryHasSize' /\ List!ListIsKept'
        BY <2>1, NoCellsHasNone
        DEF PushAsksForOneMore, CapacityCountsCells, HistoryHasSize, List!ListIsKept,
            List!Cells
  <2> QED  BY <2>4, <2>5 DEF ListInv
<1>13. CASE UNCHANGED List!vars
      BY <1>13
      DEF List!vars, ListInv, List!TypeOK, PushAsksForOneMore, CapacityCountsCells,
          HistoryHasSize, List!ListIsKept, List!Cells
<1> QED
    BY <1>2, <1>3, <1>4, <1>5, <1>6, <1>7, <1>8, <1>9, <1>10, <1>11, <1>12, <1>13
    DEF List!Next

(* array_list.c keeps what was pushed and set, in cells of its block, until *)
(* a growing list runs out of memory, however long it gets.                 *)
THEOREM KeepsTheList == List!Spec => []List!ListIsKept
<1>1. ListInv => List!ListIsKept  BY DEF ListInv
<1> QED  BY <1>1, ListInit, ListStep, PTL DEF List!Spec
=============================================================================
