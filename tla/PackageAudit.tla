---------------------------- MODULE PackageAudit ----------------------------
(***************************************************************************)
(* rpm.c: the three passes of an audit.  package_get_rpm_info lists the    *)
(* packages, package_get_rpm_files_info the files of each, and             *)
(* package_hash_files hashes the files with sha256_file, while others      *)
(* erase packages and remove, replace and rewrite files.  A client runs    *)
(* the passes one after the other, each over what the one before gave it,  *)
(* and may cancel the last two when progress is reported.                  *)
(*                                                                         *)
(* A digest is named by the data that was read for it.                     *)
(***************************************************************************)
EXTENDS Integers, Sequences, SequencesExt

CONSTANTS Packages,
          Paths,           \* what may be the name of a file
          Listed,          \* [Packages -> Seq(Paths)]: what rpm -ql prints of each
          FirstWord,       \* [Paths -> Paths]: a path up to its first blank
          Inodes,          \* BOUND: files that exist at a time
          Chunks,          \* what one read gets
          Contents,        \* BOUND: what is in a file, sequences of chunks
          MaxChanges,      \* BOUND: what others change during an audit
          NULL, Dir

(* What rpm prints of a package that it does not know, or of a file when it *)
(* breaks off: a line without the ten blanks it is cut at.                  *)
BrokenLine == "a line of fewer blanks"

ASSUME NamesAssumption == /\ NULL \notin Inodes /\ Dir \notin Inodes /\ NULL # Dir
                          /\ BrokenLine \notin Paths
ASSUME PackagesAssumption == IsFiniteSet(Packages)
ASSUME ContentsAssumption == Contents \subseteq Seq(Chunks)
ASSUME ListedAssumption == Listed \in [Packages -> Seq(Paths)]
ASSUME FirstWordAssumption == FirstWord \in [Paths -> Paths]

VARIABLES installed,       \* the packages of the database
          inode,           \* of each path: a file, Dir, or NULL if it cannot be read
          content,         \* of each file
          pc,              \* where the program is
          packages,        \* the table of the first pass
          output,          \* what rpm -ql has still to print
          files,           \* the table of the second pass: paths as they were cut
          row_count,       \* how many rows that table had when the pass began
          row,             \* the row it is at
          st_size,         \* what stat found
          fd,              \* the file sha256_file has open
          data,            \* what it has read
          hashes,          \* the table of the third pass: [path, size, sha256]
          told,            \* what the callback was told last: of how many, which row
          unlisted,        \* history: the packages of which rpm did not tell all
          misread,         \* history: the rows of hashes whose file gave an error
          changes,         \* how often others changed something
          touched          \* history: the paths and packages they changed

dataVars == <<packages, output, files, row_count, row, st_size, fd, data, hashes, told,
              unlisted, misread>>
worldVars == <<installed, inode, content, changes, touched>>
vars == <<pc, dataVars, worldVars>>

InitialInodes == {f \in [Paths -> Inodes \union {Dir, NULL}] :
                    \A p, q \in Paths : p # q /\ f[p] \in Inodes => f[p] # f[q]}

Init ==
  /\ installed \in SUBSET Packages
  /\ inode \in InitialInodes
  /\ content \in [Inodes -> Contents]
  /\ \A i \in Inodes : (\A p \in Paths : inode[p] # i) => content[i] = <<>>
  /\ pc = "start"
  /\ packages = <<>> /\ output = <<>> /\ files = <<>> /\ row_count = 0 /\ row = 0
  /\ st_size = 0 /\ fd = NULL /\ data = <<>> /\ hashes = <<>>
  /\ told = [total |-> 0, current |-> 0]
  /\ unlisted = {} /\ misread = {}
  /\ changes = 0 /\ touched = {}

-----------------------------------------------------------------------------
(* The first pass: one run of rpm, which may fail to start.  One that fails *)
(* later has listed some packages and may leave a line without its tabs,    *)
(* where a null pointer is written to; the status that pclose returns would *)
(* tell, and is not looked at.                                              *)
package_get_rpm_info ==
  /\ pc = "start"
  /\ \/ \E n \in 0 .. Len(SetToSeq(installed)) :
          /\ packages' = SubSeq(SetToSeq(installed), 1, n)
          /\ unlisted' = installed \ Range(packages')
          /\ \/ pc' = "packages"
             \/ unlisted' # {} /\ pc' = "null"
     \/ /\ pc' = "no table"
        /\ UNCHANGED <<packages, unlisted>>
  /\ UNCHANGED <<output, files, row_count, row, st_size, fd, data, hashes, told, misread,
                 worldVars>>

(* The second pass asks rpm for the files of each package. *)
package_get_rpm_files_info ==
  /\ pc = "packages"
  /\ row_count' = Len(packages)
  /\ pc' = IF packages = <<>> THEN "listed" ELSE "popen"
  /\ UNCHANGED <<packages, output, files, row, st_size, fd, data, hashes, told, unlisted,
                 misread, worldVars>>

package == packages[row + 1]

Printed == IF package \in installed THEN Listed[package] ELSE <<BrokenLine>>

(* What an rpm that fails has printed of it. *)
BrokenOff ==
  LET Before(n) == SubSeq(Printed, 1, n - 1)
  IN {Before(n) : n \in DOMAIN Printed} \union {Append(Before(n), BrokenLine) : n \in DOMAIN Printed}

(* Without a pipe the program aborts. *)
popen ==
  /\ pc = "popen"
  /\ \/ /\ output' = Printed
        /\ pc' = "getline"
        /\ UNCHANGED unlisted
     \/ /\ output' \in BrokenOff
        /\ pc' = "getline"
        /\ unlisted' = unlisted \union {package}
     \/ /\ pc' = "abort"
        /\ UNCHANGED <<output, unlisted>>
  /\ UNCHANGED <<packages, files, row_count, row, st_size, fd, data, hashes, told, misread,
                 worldVars>>

(* A line is cut at its blanks, of which it must have ten. *)
getline ==
  /\ pc = "getline" /\ output # <<>>
  /\ output' = Tail(output)
  /\ IF Head(output) = BrokenLine
     THEN /\ pc' = "null"
          /\ UNCHANGED files
     ELSE /\ files' = Append(files, FirstWord[Head(output)])
          /\ UNCHANGED pc
  /\ UNCHANGED <<packages, row_count, row, st_size, fd, data, hashes, told, unlisted, misread,
                 worldVars>>

(* Mutant of Progress: the last row is not gone to. *)
ProgressShort(again, end) ==
  /\ told' = [total |-> row_count, current |-> row + 1]
  /\ \/ row' = row + 1 /\ pc' = IF row + 2 < row_count THEN again ELSE end
     \/ row' = row /\ pc' = "cancelled"

(* The callback hears of the row, and may end the pass. *)
Progress(again, end) ==
  /\ told' = [total |-> row_count, current |-> row + 1]
  /\ \/ row' = row + 1 /\ pc' = IF row + 1 < row_count THEN again ELSE end
     \/ row' = row /\ pc' = "cancelled"

pclose ==
  /\ pc = "getline" /\ output = <<>>
  /\ Progress("popen", "listed")
  /\ UNCHANGED <<packages, output, files, row_count, st_size, fd, data, hashes, unlisted, misread,
                 worldVars>>

package_hash_files ==
  /\ pc = "listed"
  /\ row_count' = Len(files) /\ row' = 0
  /\ told' = [total |-> 0, current |-> 0]
  /\ pc' = IF files = <<>> THEN "done" ELSE "access"
  /\ UNCHANGED <<packages, output, files, st_size, fd, data, hashes, unlisted, misread, worldVars>>

-----------------------------------------------------------------------------
(* The third pass, for each file. *)
file_path == files[row + 1]

(* Mutant of Skip: the loop's counter is not moved on. *)
SkipStays ==
  /\ pc' = "access"
  /\ UNCHANGED row

(* A file that cannot be read is left out, and the callback is not called. *)
Skip ==
  /\ row' = row + 1
  /\ pc' = IF row + 1 < row_count THEN "access" ELSE "done"

access ==
  /\ pc = "access"
  /\ IF inode[file_path] = NULL THEN Skip ELSE pc' = "stat" /\ UNCHANGED row
  /\ UNCHANGED <<packages, output, files, row_count, st_size, fd, data, hashes, told, unlisted,
                 misread, worldVars>>

Regular(path) == inode[path] \in Inodes /\ content[inode[path]] # <<>>

(* Mutant of stat: what is not a regular file is passed over as well. *)
statOfRegular ==
  /\ pc = "stat"
  /\ IF ~ Regular(file_path)
     THEN Skip /\ UNCHANGED st_size
     ELSE /\ UNCHANGED row
          /\ pc' = "open"
          /\ st_size' = Len(content[inode[file_path]])
  /\ UNCHANGED <<packages, output, files, row_count, fd, data, hashes, told, unlisted, misread,
                 worldVars>>

stat ==
  /\ pc = "stat"
  /\ IF inode[file_path] = NULL
     THEN Skip /\ UNCHANGED st_size
     ELSE /\ UNCHANGED row
          /\ pc' = IF Regular(file_path) THEN "open" ELSE "progress"
          /\ st_size' = IF Regular(file_path) THEN Len(content[inode[file_path]]) ELSE 0
  /\ UNCHANGED <<packages, output, files, row_count, fd, data, hashes, told, unlisted, misread,
                 worldVars>>

(* Mutant of open: whether it failed is not looked at. *)
OpenUnchecked ==
  /\ pc = "open"
  /\ data' = <<>>
  /\ pc' = "read" /\ fd' = inode[file_path]
  /\ UNCHANGED <<packages, output, files, row_count, row, st_size, hashes, told, unlisted, misread,
                 worldVars>>

(* sha256_file ends the program if the file cannot be opened.  From a       *)
(* directory, which can be opened, nothing can be read.                     *)
open ==
  /\ pc = "open"
  /\ data' = <<>>
  /\ IF inode[file_path] = NULL
     THEN pc' = "exit" /\ UNCHANGED fd
     ELSE pc' = "read" /\ fd' = inode[file_path]
  /\ UNCHANGED <<packages, output, files, row_count, row, st_size, hashes, told, unlisted, misread,
                 worldVars>>

(* What read finds in an open file. *)
Readable == IF fd \in Inodes THEN content[fd] ELSE <<>>

(* Mutant of EndOfFile: a read that is not full is taken for the last. *)
EndOfFileEarly == Len(data) + 1 >= Len(Readable)

EndOfFile == Len(data) >= Len(Readable)

(* An error ends the file like its end does. *)
read ==
  /\ pc = "read"
  /\ \/ /\ ~ EndOfFile
        /\ data' = Append(data, Readable[Len(data) + 1])
        /\ UNCHANGED <<pc, misread>>
     \/ /\ EndOfFile
        /\ pc' = "append"
        /\ UNCHANGED <<data, misread>>
     \/ /\ ~ EndOfFile
        /\ misread' = misread \union {Len(hashes) + 1}
        /\ pc' = "append"
        /\ UNCHANGED data
  /\ UNCHANGED <<packages, output, files, row_count, row, st_size, fd, hashes, told, unlisted,
                 worldVars>>

table_append_row ==
  /\ pc = "append"
  /\ hashes' = Append(hashes, [path |-> file_path, size |-> st_size, sha256 |-> data])
  /\ fd' = NULL
  /\ pc' = "progress"
  /\ UNCHANGED <<packages, output, files, row_count, row, st_size, data, told, unlisted, misread,
                 worldVars>>

progress_callback ==
  /\ pc = "progress"
  /\ Progress("access", "done")
  /\ UNCHANGED <<packages, output, files, row_count, st_size, fd, data, hashes, unlisted, misread,
                 worldVars>>

-----------------------------------------------------------------------------
(* The others. *)
Change(what) ==
  /\ changes < MaxChanges /\ pc # "start"
  /\ changes' = changes + 1
  /\ touched' = touched \union {what}
  /\ UNCHANGED <<pc, dataVars>>

ErasePackage(p) ==
  /\ p \in installed
  /\ installed' = installed \ {p}
  /\ Change(p)
  /\ UNCHANGED <<inode, content>>

RemoveFile(path) ==
  /\ inode[path] # NULL
  /\ inode' = [inode EXCEPT ![path] = NULL]
  /\ Change(path)
  /\ UNCHANGED <<installed, content>>

Replace(path, i) ==
  /\ i = Dir \/ (i # fd /\ \A p \in Paths : inode[p] # i)
  /\ inode' = [inode EXCEPT ![path] = i]
  /\ IF i = Dir THEN UNCHANGED content
     ELSE content' \in {[content EXCEPT ![i] = c] : c \in Contents}
  /\ Change(path)
  /\ UNCHANGED installed

Rewrite(path) ==
  /\ inode[path] \in Inodes
  /\ content' \in {[content EXCEPT ![inode[path]] = c] : c \in Contents}
  /\ Change(path)
  /\ UNCHANGED <<installed, inode>>

Program ==
  \/ package_get_rpm_info
  \/ package_get_rpm_files_info \/ popen \/ getline \/ pclose
  \/ package_hash_files
  \/ access \/ stat \/ open \/ read \/ table_append_row \/ progress_callback

Others ==
  \/ \E p \in Packages : ErasePackage(p)
  \/ \E path \in Paths : \/ RemoveFile(path) \/ Rewrite(path)
                         \/ \E i \in Inodes \union {Dir} : Replace(path, i)

Next == Program \/ Others

(* The program is scheduled; nobody has to change anything. *)
Spec == Init /\ [][Next]_vars /\ WF_vars(Program)

-----------------------------------------------------------------------------
(* A row whose file nobody touched is of one and the same content, that of   *)
(* the file: its size, and its digest unless reading failed in the middle;   *)
(* such a row has the digest of a beginning that is shorter than the size.   *)
RowsAreOfOneFile ==
  \A k \in DOMAIN hashes :
    LET r == hashes[k]
        whole == content[inode[r.path]]
    IN r.path \notin touched =>
         /\ r.size = Len(whole)
         /\ IF k \in misread THEN IsStrictPrefix(r.sha256, whole) ELSE r.sha256 = whole

(* An audit that was not cancelled has a row for every regular file that is *)
(* not empty, that nobody touched, whose path has no blank, and that is     *)
(* listed by a package nobody erased and of which rpm told all.             *)
UntouchedFilesAreHashed ==
  pc = "done" =>
    \A p \in installed \ (touched \union unlisted) : \A k \in DOMAIN Listed[p] :
      LET path == Listed[p][k]
      IN path \notin touched /\ FirstWord[path] = path /\ Regular(path)
           => \E n \in DOMAIN hashes : hashes[n].path = path

(* The program ends in the middle of an audit only if a file vanished or a  *)
(* package was erased under it, rpm broke off in what it said of just that  *)
(* package (or of some, in the first pass), or no process could be started. *)
StopsOnlyWhenVanished ==
  /\ pc = "exit" => file_path \in touched
  /\ pc = "null" => IF row_count = 0 THEN unlisted # {} ELSE package \in touched \union unlisted
  /\ pc = "append" => fd # NULL

(* A file that was not there to be read, or others were at it. *)
Missed(n) == inode[files[n]] = NULL \/ files[n] \in touched

(* Each call of the callback tells how many rows the pass has, the same     *)
(* number every time, and a later one of them than the call before.  It     *)
(* hears of every package; the files it does not hear of, between two calls *)
(* or after the last, were missed, so that a client which waits for the last*)
(* row waits in vain only for those.                                        *)
ProgressTells ==
  [][LET due == IF pc = "getline" THEN Len(packages) ELSE Len(files)
     IN /\ told' # told /\ told'.current # 0 =>
             /\ told'.total = due
             /\ told.current < told'.current /\ told'.current <= due
             /\ \A n \in told.current + 1 .. told'.current - 1 : pc # "getline" /\ Missed(n)
        /\ pc = "getline" /\ pc' = "listed" => told'.current = due
        /\ pc # "done" /\ pc' = "done" =>
             \A n \in told'.current + 1 .. Len(files) : Missed(n)]_vars

(* An audit comes to an end once the files stop changing. *)
AuditEnds == <>(pc \in {"done", "cancelled", "no table", "abort", "null", "exit"})
=============================================================================
