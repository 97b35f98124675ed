----------------------------- MODULE FileSystem -----------------------------
(***************************************************************************)
(* The model repository as the server sees it through src/core/            *)
(* filesystem.cc: on a local disk, in Google Cloud Storage, in S3 or in    *)
(* Azure Storage.  A user edits the model's directory at any time; the     *)
(* repository poll lists the models, asks when this one was last modified  *)
(* and reads its configuration if it was; loading the model copies a       *)
(* remote directory to a temporary one, request by request, and unloading  *)
(* it deletes the copy.                                                    *)
(*                                                                         *)
(* A path is the sequence of its names below the repository.  An object    *)
(* store keeps no directories: dirs holds the marker objects (keys that    *)
(* end with a slash) some tools make for empty ones.  A listing is one     *)
(* page: S3 returns at most 1000 keys and the code asks for no more.       *)
(***************************************************************************)
EXTENDS FilePaths, FiniteSets, FiniteSetsExt

CONSTANTS
    Kinds,      \* of file systems: "local", "gcs", "s3", "as"
    Files,      \* the paths at which the user writes files
    Markers,    \* the paths at which the user makes empty directories
    NamePrefix, \* pairs of different names, the first a prefix of the second
    Model,      \* the path of the model's directory
    Config,     \* the path of its configuration
    Probes,     \* path names to take apart
    MaxEdits    \* bound: edits of the user

ASSUME FileSystemAssumption ==
    /\ Kinds \subseteq {"local", "gcs", "s3", "as"}
    /\ MaxEdits \in Nat
    /\ \A p \in Files \cup Markers, q \in Files : ~IsStrictPrefix(q, p) /\ p # << >>

VARIABLES
    kind,
    files,      \* path |-> when it was written
    dirs,       \* path |-> when it was made or, locally, an entry made or removed
    clock,
    up,         \* requests to the store succeed
    info,       \* the ModelInfo in infos_, a sequence of at most one: mtime is
                \* mtime_nsec_; found when its times were asked for, at clock at,
                \* with the store up or not
    poll,       \* the poll of the model: "idle", "listed", or "timed" with the
                \* info it will have
    handle,     \* LocalizedDirectory: "none", "copying", "held"
    contents,   \* [path, dir]: what LocalizeDirectory has still to copy
    item,       \* the entry it is working at, a sequence of at most one
    temp,       \* the temporary directory: the paths it has, relative to Model
    kept, seen  \* files there all the time, at some time, since the copy began

store == <<kind, files, dirs, clock, up>>
copy == <<handle, contents, item, temp, kept, seen>>
repo == <<info, poll>>
vars == <<store, repo, copy>>

NoFunction == [x \in {} |-> 0]
Error == << >>
Ok(v) == <<v>>
Put(f, S, t) == [p \in DOMAIN f \cup S |-> IF p \in S THEN t ELSE f[p]]
Drop(f, S) == [p \in DOMAIN f \ S |-> f[p]]
Parents(p) == {SubSeq(p, 1, n) : n \in 0 .. Len(p) - 1}
Below(p, q) == IsStrictPrefix(p, q)
Child(p, q) == q[Len(p) + 1]
Join(p, name) == Append(p, name)

(***************************************************************************)
(* LocalFileSystem.                                                        *)
(***************************************************************************)
LocalFileExists(p) == Ok(p \in DOMAIN files \cup DOMAIN dirs)

LocalIsDirectory(p) ==
    IF p \in DOMAIN files \cup DOMAIN dirs THEN Ok(p \in DOMAIN dirs) ELSE Error

LocalFileModificationTime(p) ==
    CASE p \in DOMAIN files -> Ok(files[p])
      [] p \in DOMAIN dirs -> Ok(dirs[p])
      [] OTHER -> Error

LocalGetDirectoryContents(p) ==
    IF p \in DOMAIN dirs
    THEN Ok({Child(p, q) : q \in {r \in DOMAIN files \cup DOMAIN dirs : Below(p, r)}})
    ELSE Error

LocalGetDirectorySubdirs(p) ==
    IF p \in DOMAIN dirs
    THEN Ok({n \in LocalGetDirectoryContents(p)[1] : LocalIsDirectory(Join(p, n))[1]})
    ELSE Error

LocalGetDirectoryFiles(p) ==
    IF p \in DOMAIN dirs
    THEN Ok({n \in LocalGetDirectoryContents(p)[1] : ~LocalIsDirectory(Join(p, n))[1]})
    ELSE Error

LocalReadTextFile(p) == IF p \in DOMAIN files THEN Ok(files[p]) ELSE Error

\* The temporary directory, its entries first, then the directory itself.
LocalDeleteDirectory(tree, p) == {q \in tree : ~IsPrefix(p, q)}

(***************************************************************************)
(* GCSFileSystem and S3FileSystem: every object whose key starts with the  *)
(* prefix, the marker of the directory itself included.                    *)
(***************************************************************************)
\* The objects whose key starts with the path, without a slash at its end.
BarePrefix(p) ==
    {q \in DOMAIN files \cup DOMAIN dirs :
        \/ IsPrefix(p, q)
        \/ /\ p # << >> /\ Len(q) >= Len(p)
           /\ SubSeq(q, 1, Len(p) - 1) = Front(p)
           /\ <<Last(p), q[Len(p)]>> \in NamePrefix}

\* Those whose key starts with the path and a slash.
AppendSlash(p) == {q \in DOMAIN files : Below(p, q)} \cup {d \in DOMAIN dirs : IsPrefix(p, d)}

GcsIsDirectory(p) == IF up THEN Ok(p = << >> \/ AppendSlash(p) # {}) ELSE Error

GcsFileExists(p) ==
    IF up THEN Ok(p \in DOMAIN files \/ GcsIsDirectory(p)[1]) ELSE Error

GcsFileModificationTime(p) ==
    CASE ~up -> Error
      [] up /\ GcsIsDirectory(p)[1] -> Ok(0)
      [] up /\ ~GcsIsDirectory(p)[1] /\ p \in DOMAIN files -> Ok(files[p])
      [] OTHER -> Error

GcsGetDirectoryContents(p) ==
    IF up THEN Ok({Child(p, q) : q \in AppendSlash(p) \ {p}}) ELSE Error

GcsGetDirectorySubdirs(p) ==
    IF up THEN Ok({n \in GcsGetDirectoryContents(p)[1] : GcsIsDirectory(Join(p, n))[1]})
    ELSE Error

GcsGetDirectoryFiles(p) ==
    IF up THEN Ok({n \in GcsGetDirectoryContents(p)[1] : ~GcsIsDirectory(Join(p, n))[1]})
    ELSE Error

GcsReadTextFile(p) == IF up /\ p \in DOMAIN files THEN Ok(files[p]) ELSE Error

S3IsDirectory(p) == IF up THEN Ok(p = << >> \/ AppendSlash(p) # {}) ELSE Error

\* An object that is not there is an error, as is every failed HeadObject.
S3FileExists(p) ==
    IF up /\ (S3IsDirectory(p)[1] \/ p \in DOMAIN files) THEN Ok(TRUE) ELSE Error

S3FileModificationTime(p) ==
    CASE ~up -> Error
      [] up /\ S3IsDirectory(p)[1] -> Ok(0)
      [] up /\ ~S3IsDirectory(p)[1] /\ p \in DOMAIN files -> Ok(files[p])
      [] OTHER -> Error

S3GetDirectoryContents(p) ==
    IF up THEN Ok({Child(p, q) : q \in AppendSlash(p) \ {p}}) ELSE Error

S3GetDirectorySubdirs(p) ==
    IF up THEN Ok({n \in S3GetDirectoryContents(p)[1] : S3IsDirectory(Join(p, n))[1]})
    ELSE Error

S3GetDirectoryFiles(p) ==
    IF up THEN Ok({n \in S3GetDirectoryContents(p)[1] : ~S3IsDirectory(Join(p, n))[1]})
    ELSE Error

S3ReadTextFile(p) == IF up /\ p \in DOMAIN files THEN Ok(files[p]) ELSE Error

(***************************************************************************)
(* ASFileSystem: listings are delimited by the slash and say which entries *)
(* are directories; the tests list the bare prefix.                        *)
(***************************************************************************)
AsIsDirectory(p) == IF up THEN Ok(BarePrefix(p) # {}) ELSE Error
AsFileExists(p) == IF up THEN Ok(BarePrefix(p) # {}) ELSE Error

AsFileModificationTime(p) == IF up /\ p \in DOMAIN files THEN Ok(files[p]) ELSE Error

ListDirectory(p) ==
    IF up THEN Ok({[path |-> Join(p, Child(p, q)), dir |-> Len(q) > Len(p) + 1] :
                     q \in {r \in DOMAIN files : Below(p, r)}})
    ELSE Error

AsGetDirectoryContents(p) ==
    IF up THEN Ok({Last(e.path) : e \in ListDirectory(p)[1]}) ELSE Error

AsGetDirectorySubdirs(p) ==
    IF up THEN Ok({Last(e.path) : e \in {f \in ListDirectory(p)[1] : f.dir}}) ELSE Error

AsGetDirectoryFiles(p) ==
    IF up THEN Ok({Last(e.path) : e \in {f \in ListDirectory(p)[1] : ~f.dir}}) ELSE Error

AsReadTextFile(p) == IF up /\ p \in DOMAIN files THEN Ok(files[p]) ELSE Error

(***************************************************************************)
(* GetFileSystem chooses by the scheme of the path.                        *)
(***************************************************************************)
GetFileSystem(local, gcs, s3, as) ==
    CASE kind = "gcs" -> gcs [] kind = "s3" -> s3 [] kind = "as" -> as [] OTHER -> local

FileExists(p) ==
    GetFileSystem(LocalFileExists(p), GcsFileExists(p), S3FileExists(p), AsFileExists(p))
IsDirectory(p) ==
    GetFileSystem(LocalIsDirectory(p), GcsIsDirectory(p), S3IsDirectory(p), AsIsDirectory(p))
FileModificationTime(p) ==
    GetFileSystem(LocalFileModificationTime(p), GcsFileModificationTime(p),
                  S3FileModificationTime(p), AsFileModificationTime(p))
GetDirectoryContents(p) ==
    GetFileSystem(LocalGetDirectoryContents(p), GcsGetDirectoryContents(p),
                  S3GetDirectoryContents(p), AsGetDirectoryContents(p))
GetDirectorySubdirs(p) ==
    GetFileSystem(LocalGetDirectorySubdirs(p), GcsGetDirectorySubdirs(p),
                  S3GetDirectorySubdirs(p), AsGetDirectorySubdirs(p))
GetDirectoryFiles(p) ==
    GetFileSystem(LocalGetDirectoryFiles(p), GcsGetDirectoryFiles(p),
                  S3GetDirectoryFiles(p), AsGetDirectoryFiles(p))
ReadTextFile(p) ==
    GetFileSystem(LocalReadTextFile(p), GcsReadTextFile(p), S3ReadTextFile(p), AsReadTextFile(p))

(***************************************************************************)
(* The repository poll (model_repository_manager.cc), which the user and   *)
(* the store do not wait for.                                              *)
(***************************************************************************)
Idle == [at |-> "idle", info |-> << >>]

\* Any error makes the time of that path 0.
RECURSIVE GetModifiedTime(_)
GetModifiedTime(p) ==
    IF IsDirectory(p) = Error \/ FileModificationTime(p) = Error THEN 0
    ELSE IF ~IsDirectory(p)[1] THEN FileModificationTime(p)[1]
    ELSE IF GetDirectoryContents(p) = Error THEN 0
    ELSE Max({FileModificationTime(p)[1]} \cup
             {GetModifiedTime(Join(p, n)) : n \in GetDirectoryContents(p)[1]})

\* What it may return: while the store is in trouble any of its requests may
\* fail, and the times that are left are those of some of the files.
ModifiedTimes(p) ==
    IF up THEN {GetModifiedTime(p)}
    ELSE {0} \cup IF kind = "as" THEN {} ELSE {files[q] : q \in {r \in DOMAIN files : Below(p, r)}}

\* Slip: a model is modified when its time differs.
IsDifferent(repo_ns, last_ns) == repo_ns # last_ns

IsModified(repo_ns, last_ns) == repo_ns > last_ns

\* The models are the subdirectories of the repository.  When they cannot be
\* listed, or one of them is not among them, it is deleted from infos_ and
\* unloaded.  A load belongs to the poll that decides on it, which keeps
\* poll_mu_ until it has ended.
PollLists ==
    LET subdirs == GetDirectorySubdirs(Front(Model))
        listed == subdirs # Error /\ Last(Model) \in subdirs[1]
    IN  /\ poll.at = "idle" /\ handle # "copying"
        /\ poll' = IF listed THEN [poll EXCEPT !.at = "listed"] ELSE poll
        /\ info' = IF listed THEN info ELSE << >>
        /\ UNCHANGED <<store, copy>>

\* A model that is new, or modified since its times were last taken, is to be
\* (re)loaded.  One that is not modified keeps the time that it has.
PollTimes ==
    /\ poll.at = "listed"
    /\ \E repo_ns \in ModifiedTimes(Model) :
         poll' = IF info = << >> \/ IsModified(repo_ns, info[1].mtime)
                 THEN [at |-> "timed", info |-> <<[mtime |-> repo_ns, at |-> clock, sure |-> up]>>]
                 ELSE Idle
    /\ UNCHANGED <<store, info, copy>>

\* Its configuration is read, normalized and validated.  If that fails a new
\* model is not taken and a known one stays as it is.
PollReads(valid) ==
    /\ poll.at = "timed"
    /\ valid => ReadTextFile(Config) # Error
    /\ info' = IF valid THEN poll.info ELSE info
    /\ poll' = Idle
    /\ UNCHANGED <<store, copy>>

(***************************************************************************)
(* The user and the store.                                                 *)
(***************************************************************************)
Init ==
    /\ kind \in Kinds
    /\ files = NoFunction
    /\ dirs = IF kind = "local" THEN [p \in {<< >>} |-> 0] ELSE NoFunction
    /\ clock = 0 /\ up = TRUE /\ info = << >> /\ poll = Idle
    /\ handle = "none" /\ contents = {} /\ item = << >> /\ temp = {}
    /\ kept = {} /\ seen = {}

\* Local directories made or changed by an entry p that appears.
Touched(p) == (Parents(p) \ DOMAIN dirs) \cup {Front(p)}
                \cup {d \in Parents(p) : \E e \in Parents(p) \ DOMAIN dirs : d = Front(e)}

Edit == /\ clock < MaxEdits
        /\ clock' = clock + 1
        /\ UNCHANGED <<kind, up, repo, handle, contents, item, temp>>

WriteFile(p) ==
    /\ Edit
    /\ files' = Put(files, {p}, clock + 1)
    /\ dirs' = IF kind # "local" \/ p \in DOMAIN files THEN dirs
               ELSE Put(dirs, Touched(p), clock + 1)
    /\ seen' = IF handle = "copying" THEN seen \cup {p} ELSE seen
    /\ UNCHANGED kept

RemoveFile(p) ==
    /\ p \in DOMAIN files
    /\ Edit
    /\ files' = Drop(files, {p})
    /\ dirs' = IF kind = "local" THEN Put(dirs, {Front(p)}, clock + 1) ELSE dirs
    /\ kept' = kept \ {p}
    /\ UNCHANGED seen

MakeDirectory(p) ==
    /\ kind # "as" /\ p \notin DOMAIN dirs
    /\ Edit
    /\ dirs' = IF kind = "local" THEN Put(dirs, Touched(p) \cup {p}, clock + 1)
               ELSE Put(dirs, {p}, clock + 1)
    /\ UNCHANGED <<files, kept, seen>>

Outage == /\ kind # "local"
          /\ up' = ~up
          /\ UNCHANGED <<kind, files, dirs, clock, repo, copy>>

(***************************************************************************)
(* LocalizeDirectory, called when a model is loaded.                       *)
(***************************************************************************)
\* GCS and S3 ask again for every entry whether it is a directory; Azure
\* uses what the listing said.
Entries(p) ==
    CASE kind = "as" -> ListDirectory(p)
      [] kind # "as" /\ up -> Ok({[path |-> Join(p, n), dir |-> FALSE] : n \in GetDirectoryContents(p)[1]})
      [] OTHER -> Error

Localizable == FileExists(Model) = Ok(TRUE) /\ IsDirectory(Model) = Ok(TRUE)

LocalizeInPlace ==
    /\ poll.at = "idle" /\ handle = "none" /\ kind = "local"
    /\ handle' = "held"
    /\ UNCHANGED <<store, repo, contents, item, temp, kept, seen>>

LocalizeDirectory ==
    /\ poll.at = "idle" /\ handle = "none" /\ kind # "local" /\ Localizable
    /\ Entries(Model) # Error
    /\ handle' = "copying"
    /\ contents' = Entries(Model)[1]
    /\ temp' = {<< >>}
    /\ kept' = {p \in DOMAIN files : Below(Model, p)}
    /\ seen' = {p \in DOMAIN files : Below(Model, p)}
    /\ UNCHANGED <<store, repo, item>>

\* ~LocalizedDirectory: what is used in place has no local path to delete.
Destroyed == IF kind = "local" THEN temp ELSE LocalDeleteDirectory(temp, << >>)

\* Any failed request ends the copy; the caller drops the handle.
Fail == /\ handle = "copying"
        /\ handle' = "none"
        /\ contents' = {} /\ item' = << >> /\ temp' = Destroyed
        /\ kept' = {} /\ seen' = {}
        /\ UNCHANGED <<store, repo>>

\* The next entry: is it a directory?
Classify(e) ==
    /\ handle = "copying" /\ item = << >> /\ e \in contents
    /\ kind = "as" \/ IsDirectory(e.path) # Error
    /\ contents' = contents \ {e}
    /\ item' = <<[path |-> e.path,
                  dir |-> IF kind = "as" THEN e.dir ELSE IsDirectory(e.path)[1]]>>
    /\ UNCHANGED <<store, repo, handle, temp, kept, seen>>

\* The bucket of GCS answered and the listing broke, which is not noticed: it
\* is no directory.
Misjudge(e) ==
    /\ handle = "copying" /\ item = << >> /\ e \in contents
    /\ kind = "gcs" /\ ~up
    /\ contents' = contents \ {e}
    /\ item' = <<[path |-> e.path, dir |-> FALSE]>>
    /\ UNCHANGED <<store, repo, handle, temp, kept, seen>>

Relative(p) == SubSeq(p, Len(Model) + 1, Len(p))

\* Slip: the directory is made and what it contains is not.
MakeFolder ==
    /\ handle = "copying" /\ item # << >> /\ item[1].dir
    /\ Entries(item[1].path) # Error
    /\ temp' = temp \cup {Relative(item[1].path)}
    /\ item' = << >>
    /\ UNCHANGED <<store, repo, handle, contents, kept, seen>>

\* A directory is made locally and what it contains is added.
DownloadFolder ==
    /\ handle = "copying" /\ item # << >> /\ item[1].dir
    /\ Entries(item[1].path) # Error
    /\ temp' = temp \cup {Relative(item[1].path)}
    /\ contents' = contents \cup Entries(item[1].path)[1]
    /\ item' = << >>
    /\ UNCHANGED <<store, repo, handle, kept, seen>>

Download ==
    /\ handle = "copying" /\ item # << >> /\ ~item[1].dir
    /\ ReadTextFile(item[1].path) # Error
    /\ temp' = temp \cup {Relative(item[1].path)}
    /\ item' = << >>
    /\ UNCHANGED <<store, repo, handle, contents, kept, seen>>

FailRequest ==
    /\ \/ ~up
       \/ item # << >> /\ ~item[1].dir /\ ReadTextFile(item[1].path) = Error
    /\ Fail

Localized ==
    /\ handle = "copying" /\ contents = {} /\ item = << >>
    /\ handle' = "held"
    /\ UNCHANGED <<store, repo, contents, item, temp, kept, seen>>

\* The model is unloaded.
Release ==
    /\ handle = "held"
    /\ handle' = "none"
    /\ temp' = Destroyed
    /\ kept' = {} /\ seen' = {}
    /\ UNCHANGED <<store, repo, contents, item>>

Next ==
    \/ PollLists \/ PollTimes \/ \E valid \in BOOLEAN : PollReads(valid)
    \/ Outage
    \/ \E p \in Files : WriteFile(p) \/ RemoveFile(p)
    \/ \E p \in Markers : MakeDirectory(p)
    \/ LocalizeInPlace \/ LocalizeDirectory
    \/ \E e \in contents : Classify(e) \/ Misjudge(e)
    \/ DownloadFolder \/ Download \/ FailRequest \/ Localized \/ Release

Spec == Init /\ [][Next]_vars

(***************************************************************************)
(* Properties.                                                             *)
(***************************************************************************)
Everything == Files \cup Markers \cup UNION {Parents(p) : p \in Files \cup Markers}

\* What the repository is: a file is there or not, a directory is there when
\* it was made or something is below it.
IsFile(p) == p \in DOMAIN files
IsDir(p) == p = << >> \/ p \in DOMAIN dirs \/ \E q \in DOMAIN files \cup DOMAIN dirs : Below(p, q)
ChildrenOf(p, Is(_)) == {Last(q) : q \in {r \in Everything : r # << >> /\ Front(r) = p /\ Is(r)}}

\* The four implementations of the FileSystem interface give the same answers
\* for the same repository, with or without marker objects (in Azure Storage
\* without) and with names that are prefixes of others: which entries of a
\* directory are files and which are directories, what is a directory, what
\* exists and what it holds (filesystem.cc, the overrides of FileSystem).  Two
\* exceptions are in the code: S3's FileExists fails where the others say no,
\* and Azure's FileExists and IsDirectory also say yes to a file and to a prefix
\* of another name.
StoresAgree ==
    /\ clock = 0 => \A path \in Probes : PathsRoundTrip(path, "n")
    /\ up => \A p \in Everything :
         /\ IsDir(p) => /\ GetDirectorySubdirs(p) = Ok(ChildrenOf(p, IsDir))
                        /\ GetDirectoryFiles(p) = Ok(ChildrenOf(p, IsFile))
                        /\ IsDirectory(p) = Ok(TRUE) \/ p = << >>
                        /\ FileExists(p) = Ok(TRUE) \/ p = << >>
         /\ ReadTextFile(p) = IF IsFile(p) THEN Ok(files[p]) ELSE Error
         /\ IsFile(p) => FileExists(p) = Ok(TRUE)
         /\ kind # "as" /\ IsFile(p) => IsDirectory(p) = Ok(FALSE)
         /\ kind # "as" /\ ~IsDir(p) /\ ~IsFile(p) =>
               FileExists(p) = IF kind = "s3" THEN Error ELSE Ok(FALSE)

\* A loaded model has every file that was in the repository for as long as it
\* was copied, and none that never was, whatever the user edits meanwhile; a
\* copy that fails half way and a model that is unloaded leave nothing behind
\* (LocalizeDirectory, ~LocalizedDirectory).
CopyIsFaithful ==
    /\ handle = "held" /\ kind # "local" =>
         /\ {Relative(p) : p \in kept} \subseteq temp
         /\ \A q \in temp \ {<< >>} : \E p \in seen \cup DOMAIN dirs : IsPrefix(Model \o q, p)
    /\ \A q \in temp : Parents(q) \subseteq temp
    /\ handle = "none" => temp = {}

\* Whether a file of the model was written, or on a disk an entry made or
\* removed, after the given time.
Written(since) ==
    \/ \E p \in DOMAIN files : Below(Model, p) /\ files[p] > since
    \/ kind = "local" /\ \E p \in DOMAIN dirs : IsPrefix(Model, p) /\ dirs[p] > since

\* What polling does with a model it knows, whatever the user and the store do
\* between and during the polls (Poll, IsModified, GetModifiedTime): it forgets
\* and unloads it only when its directory has gone or the store cannot be
\* listed; it reloads it only when it was written after the times that the
\* poll compares with were taken, unless those were taken in an outage and are
\* too old; and when it finds it unmodified with the store up, nothing that was
\* written since has been missed, also if an earlier poll saw it and could not
\* read the configuration.  Azure Storage is the exception to the last: it has
\* no modification time for a directory.  What was removed from a store is not
\* looked for.
ReloadsWhenWritten ==
    [][/\ info # << >> /\ info' = << >> => ~up \/ ~IsDir(Model)
       /\ poll.at = "listed" /\ info # << >> =>
            /\ poll'.at = "timed" => Written(info[1].at) \/ ~info[1].sure
            /\ poll'.at = "idle" /\ up /\ kind # "as" => ~Written(info[1].at)]_vars
============================================================================
