---------------------------- MODULE WorkspaceFiles ----------------------------
(***************************************************************************)
(* The file routes of routes/terminal_files.py over a workspace that the   *)
(* agent changes while they run, with the quota of workspace_quota.py.     *)
(*                                                                         *)
(* The workspace has a few directory names (Names); under a name is a      *)
(* directory, nothing, a link to another name or a link out of the         *)
(* workspace.  A directory has one entry.  A request first resolves and    *)
(* checks its paths, then opens each directory from the pinned root one    *)
(* component at a time without following links, then acts on what it       *)
(* opened.                                                                 *)
(*                                                                         *)
(* POST /files/write_if (routes/terminal_files.py): a file is replaced     *)
(* only while it still holds the body the client started from, in a        *)
(* directory that the agent and the terminal write as they like.           *)
(*                                                                         *)
(* The files are inodes of one directory: path is the inode under the      *)
(* target's name, claim[w] the one under w's hidden claim name, copies the *)
(* ones under visible conflict names, 0 stands for none.  Every write      *)
(* makes a version of its own, and a digest is that version.               *)
(***************************************************************************)
EXTENDS Naturals, FiniteSets

CONSTANTS
    Requests,
    Names,          \* directory names in the workspace root
    Limit,          \* WORKSPACE_QUOTA_MB, in files
    MaxAgent,       \* bound on the agent's steps
    Writers,        \* conditional writes
    MaxInode,       \* bound on the files made
    MaxVersion      \* bound on the versions written

VARIABLES
    at,             \* what each name leads to: a directory, a link, nothing
    ent,            \* entry of each directory: none, file, dir, link or fifo
    steps,          \* steps of the agent so far
    req,            \* each request: op, paths, flags, what it resolved and opened
    lock,           \* holder of the user's quota lock
    harm,           \* what a request did wrong
    path,           \* inode at the target, 0 when there is none
    claim,          \* inode under each writer's claim name
    copies,         \* inodes under conflict names
    body,           \* version each inode holds, 0 before it is written
    made,           \* inodes made so far
    last,           \* last version written
    open,           \* inodes an outside writer has a descriptor of
    flock,          \* holder of the path's flock
    pc,             \* step of each conditional write
    expected,       \* version it started from
    gone,           \* versions an outside writer overwrote or removed itself
    late            \* versions written into a file after the last look at it

filesVars == <<at, ent, steps, req, lock, harm>>

Dirs  == {<<"dir", n>> : n \in Names}         \* the directories themselves
Out   == <<"dir", "outside">>
NoDir == <<"none">>
Away  == <<"out">>
Links == {<<"link", n>> : n \in Names}
Ops   == {"read", "list", "upload", "mkdir", "delete", "move", "copy"}
Files(e) == Cardinality({d \in Dirs : e[d] = "file"})

\* same: the source is still the entry that was copied; fresh: since its
\* quota check only uploads, copies and deletions changed the files.
NoReq == [op |-> "none", src |-> "none", dst |-> "none", keep |-> FALSE, pc |-> "new",
          fd |-> NoDir, to |-> NoDir, same |-> FALSE, fresh |-> FALSE]

FilesInit ==
    /\ at = [n \in Names |-> <<"dir", n>>]
    /\ ent \in {e \in [Dirs \cup {Out} -> {"none", "file"}] : e[Out] = "file"}
    /\ steps = 0 /\ req = [r \in Requests |-> NoReq] /\ lock = {} /\ harm = {}

\* _resolve_in_root: links are followed once, at the check; out of the root
\* is a 403.  "none" stands for every refusal.
Real(n) == IF at[n] \in Links THEN IF at[at[n][2]] \in Dirs THEN at[n][2] ELSE "none"
           ELSE IF at[n] \in Dirs THEN n ELSE "none"

\* Mutant: opened by its full path.
OpenDirByPath(n) == IF at[n] = Away THEN Out ELSE IF at[n] \in Dirs THEN at[n] ELSE NoDir

\* _open_dir_beneath: O_NOFOLLOW on every component
OpenDir(n) == IF at[n] \in Dirs THEN at[n] ELSE NoDir

Grows(r)   == req[r].op \in {"upload", "copy"}
TwoEnds(r) == req[r].op \in {"move", "copy"}

\* The response is sent and the quota lock given back.
Done(r) == /\ req' = [req EXCEPT ![r] = [NoReq EXCEPT !.pc = "done"]]
           /\ lock' = lock \ {r}

-----------------------------------------------------------------------------
(* The requests.                                                           *)

\* The checks by path: containment, existence, a destination that is there.
Check(r, op, s, d, keep) ==
    /\ req[r].pc = "new"
    /\ keep => op \in {"upload", "move"}
    /\ op \notin {"move", "copy"} => d = s
    /\ LET src == Real(s)
           dst == Real(d)
       IN  /\ src # "none" /\ dst # "none"
           /\ op \in {"read", "delete", "move", "copy"} => ent[at[src]] \notin {"none", "link"}
           /\ op \in {"read", "copy"} => ent[at[src]] \in {"file", "dir"}
           /\ op = "copy" => ent[at[dst]] = "none"
           /\ req' = [req EXCEPT ![r] = [NoReq EXCEPT !.op = op, !.src = src, !.dst = dst,
                         !.keep = keep, !.pc = IF op \in {"upload", "copy"} THEN "lock" ELSE "open"]]
    /\ UNCHANGED <<at, ent, steps, lock, harm>>

\* Mutant: each request has a lock of its own.
TakeLockAlone(r) ==
    /\ req[r].pc = "lock"
    /\ lock' = lock /\ req' = [req EXCEPT ![r].pc = "fits"]
    /\ UNCHANGED <<at, ent, steps, harm>>

\* _quota_lock, shared by the user's requests
TakeLock(r) ==
    /\ req[r].pc = "lock" /\ lock = {}
    /\ lock' = {r} /\ req' = [req EXCEPT ![r].pc = "fits"]
    /\ UNCHANGED <<at, ent, steps, harm>>

\* What has the destination's name when the quota is looked at.
Found(r) == IF at[req[r].dst] \in Dirs THEN ent[at[req[r].dst]] ELSE "none"

\* ensure_growth_fits: an upload that may replace gets back what it replaces;
\* before it the fast path of no_clobber.
Fits(r) ==
    /\ req[r].pc = "fits"
    /\ LET replaces == req[r].op = "upload" /\ ~req[r].keep /\ Found(r) = "file"
       IN  IF \/ Files(ent) + 1 > Limit + (IF replaces THEN 1 ELSE 0)
              \/ req[r].op = "upload" /\ req[r].keep /\ Found(r) # "none"
           THEN Done(r)
           ELSE req' = [req EXCEPT ![r].pc = "open", ![r].fresh = TRUE] /\ lock' = lock
    /\ UNCHANGED <<at, ent, steps, harm>>

\* _parent_beneath of the source, then of the destination; a swap is a 409.
Open(r) ==
    /\ req[r].pc \in {"open", "open2"}
    /\ LET first == req[r].pc = "open"
           d == OpenDir(IF first THEN req[r].src ELSE req[r].dst)
       IN  IF d = NoDir THEN Done(r)
           ELSE /\ lock' = lock
                /\ req' = IF first
                          THEN [req EXCEPT ![r].fd = d, ![r].to = d,
                                           ![r].pc = IF TwoEnds(r) THEN "open2" ELSE "act"]
                          ELSE [req EXCEPT ![r].to = d, ![r].pc = "act"]
    /\ UNCHANGED <<at, ent, steps, harm>>

\* What is wrong with request r making the entries new by writing to d.
Judge(r, new, d) ==
    (IF Out \in {req[r].fd, req[r].to} THEN {"outside"} ELSE {})
    \cup (IF (req[r].keep \/ req[r].op = "copy") /\ ent[d] # "none" THEN {"clobbered"} ELSE {})
    \cup (IF Grows(r) /\ req[r].fresh /\ Files(new) > Limit /\ Files(new) > Files(ent)
          THEN {"over quota"} ELSE {})

Become(r, new, d) == ent' = new /\ harm' = harm \cup Judge(r, new, d)

\* A step that may add a file outside the quota lock.
Unchecked == [q \in Requests |-> [req[q] EXCEPT !.fresh = FALSE, !.same = FALSE]]

\* _open_file_beneath: never through a link, and a fifo is refused
Readable(r) == ent[req[r].fd] = "file"

\* read, digest, view and serve, from the descriptor
ActRead(r) ==
    /\ req[r].pc = "act" /\ req[r].op = "read" /\ Readable(r)
    /\ harm' = harm \cup (IF req[r].fd = Out THEN {"outside"} ELSE {})
    /\ Done(r) /\ UNCHANGED <<at, ent, steps>>

\* list_files scans the directory it opened.
ActList(r) ==
    /\ req[r].pc = "act" /\ req[r].op = "list"
    /\ harm' = harm \cup (IF req[r].fd = Out THEN {"outside"} ELSE {})
    /\ Done(r) /\ UNCHANGED <<at, ent, steps>>

\* Mutant: O_EXCL is forgotten.
UploadOverAny(r) == {"none", "file"}

\* _write_uploaded_file: created, exclusively with no_clobber, or truncated
UploadOver(r) == IF req[r].keep THEN {"none"} ELSE {"none", "file"}

ActUpload(r) ==
    /\ req[r].pc = "act" /\ req[r].op = "upload"
    /\ ent[req[r].fd] \in UploadOver(r)
    /\ Become(r, [ent EXCEPT ![req[r].fd] = "file"], req[r].fd)
    /\ Done(r) /\ UNCHANGED <<at, steps>>

\* make_dir: an existing entry is left alone, and opened as a directory
ActMkdir(r) ==
    /\ req[r].pc = "act" /\ req[r].op = "mkdir"
    /\ Become(r, [ent EXCEPT ![req[r].fd] = IF @ = "none" THEN "dir" ELSE @], req[r].fd)
    /\ Done(r) /\ UNCHANGED <<at, steps>>

\* delete_entry: rmtree or unlink of whatever has the name, never through it
ActDelete(r) ==
    /\ req[r].pc = "act" /\ req[r].op = "delete" /\ ent[req[r].fd] # "none"
    /\ Become(r, [ent EXCEPT ![req[r].fd] = "none"], req[r].fd)
    /\ Done(r) /\ UNCHANGED <<at, steps>>

\* rename, or renameat2(RENAME_NOREPLACE); a directory at the destination
\* takes the source in.
ActMove(r) ==
    /\ req[r].pc = "act" /\ req[r].op = "move" /\ req[r].fd # req[r].to
    /\ ent[req[r].fd] # "none"
    /\ req[r].keep => ent[req[r].to] = "none"
    /\ Become(r, [ent EXCEPT ![req[r].to] = IF @ = "dir" THEN @ ELSE ent[req[r].fd],
                             ![req[r].fd] = "none"], req[r].to)
    /\ req' = [Unchecked EXCEPT ![r] = [NoReq EXCEPT !.pc = "done"]]
    /\ UNCHANGED <<at, steps, lock>>

\* Across a mount: a copy beside the destination, renamed into place, and
\* only then the source is removed.
MoveCopies(r) ==
    /\ req[r].pc = "act" /\ req[r].op = "move" /\ ~req[r].keep /\ req[r].fd # req[r].to
    /\ ent[req[r].fd] \in {"file", "link", "dir"}
    /\ req' = [req EXCEPT ![r].pc = "copied", ![r].same = TRUE]
    /\ UNCHANGED <<at, ent, steps, lock, harm>>

MovePlaces(r) ==
    /\ req[r].pc = "copied" /\ req[r].same /\ ent[req[r].to] # "dir"
    /\ Become(r, [ent EXCEPT ![req[r].to] = ent[req[r].fd]], req[r].to)
    /\ req' = [Unchecked EXCEPT ![r] = [req[r] EXCEPT !.pc = "placed"]]
    /\ UNCHANGED <<at, steps, lock>>

\* _remove_at: whatever has the source's name by now
MoveRemoves(r) ==
    /\ req[r].pc = "placed"
    /\ ent' = [ent EXCEPT ![req[r].fd] = "none"]
    /\ harm' = harm \cup (IF req[r].same THEN {} ELSE {"removed unseen"})
    /\ Done(r) /\ UNCHANGED <<at, steps>>

\* _copy_file_at and _copytree_at: the destination is made exclusively
ActCopy(r) ==
    /\ req[r].pc = "act" /\ req[r].op = "copy"
    /\ ent[req[r].fd] \in {"file", "dir"} /\ ent[req[r].to] = "none"
    /\ Become(r, [ent EXCEPT ![req[r].to] = ent[req[r].fd]], req[r].to)
    /\ Done(r) /\ UNCHANGED <<at, steps>>

\* Every other outcome is an error response and leaves the files alone.
Fails(r) ==
    /\ req[r].pc \in {"fits", "open", "open2", "act", "copied"}
    /\ Done(r) /\ UNCHANGED <<at, ent, steps, harm>>

-----------------------------------------------------------------------------
(* The agent.                                                              *)

\* Moves a directory away, or puts a directory or a link in its place.
Swap(n, what) ==
    /\ steps < MaxAgent /\ at[n] # what
    /\ what \in Dirs => \A m \in Names : at[m] # what
    /\ at' = [at EXCEPT ![n] = what] /\ steps' = steps + 1
    /\ req' = [q \in Requests |-> [req[q] EXCEPT !.fresh = FALSE]]
    /\ UNCHANGED <<ent, lock, harm>>

\* Makes, replaces or removes an entry.
Touch(d, kind) ==
    /\ steps < MaxAgent
    /\ ent' = [ent EXCEPT ![d] = kind] /\ steps' = steps + 1
    /\ req' = Unchecked
    /\ UNCHANGED <<at, lock, harm>>

FilesNext ==
    \/ \E r \in Requests :
        \/ \E op \in Ops, s, d \in Names, keep \in BOOLEAN : Check(r, op, s, d, keep)
        \/ TakeLock(r) \/ Fits(r) \/ Open(r) \/ ActRead(r) \/ ActList(r) \/ ActUpload(r) \/ ActMkdir(r)
        \/ ActDelete(r) \/ ActMove(r) \/ MoveCopies(r) \/ MovePlaces(r) \/ MoveRemoves(r)
        \/ ActCopy(r) \/ Fails(r)
    \/ \E n \in Names, what \in Dirs \cup Links \cup {NoDir, Away} : Swap(n, what)
    \/ \E d \in Dirs, kind \in {"none", "file", "dir", "link", "fifo"} : Touch(d, kind)

FilesSpec == FilesInit /\ [][FilesNext]_filesVars

-----------------------------------------------------------------------------
\* However the agent swaps directories and entries for links while the
\* requests run: none reads, writes or removes anything out of the workspace,
\* an exclusive upload, move or copy replaces nothing, and no upload or copy
\* takes the user over the quota when only the API wrote since its check.
RequestsAreConfined == harm \subseteq {"removed unseen"}

-----------------------------------------------------------------------------
(* The conditional save of one file.                                       *)

names == <<path, claim, copies>>
outer == <<open, gone, late>>
saveVars  == <<names, body, made, last, outer, flock, pc, expected>>

SaveInit ==
    /\ path = 1 /\ claim = [w \in Writers |-> 0] /\ copies = {}
    /\ body = [i \in 1..MaxInode |-> IF i = 1 THEN 1 ELSE 0]
    /\ made = 1 /\ last = 1 /\ open = {} /\ flock = {}
    /\ pc = [w \in Writers |-> "new"] /\ expected = [w \in Writers |-> 0]
    /\ gone = {} /\ late = {}

\* _sha256_at: None (0) of a name that is not there
Digest(i) == IF i = 0 THEN 0 ELSE body[i]

-----------------------------------------------------------------------------
(* The conditional write.                                                  *)

\* The client read a body, edits it and sends it with that body's digest.
Request(w) ==
    /\ pc[w] = "new" /\ path # 0
    /\ expected' = [expected EXCEPT ![w] = body[path]]
    /\ pc' = [pc EXCEPT ![w] = "sent"]
    /\ UNCHANGED <<names, body, made, last, outer, flock>>

\* _cas_write: the flock; the directory is opened beneath the root, or the
\* request ends with a 409.
Lock(w) ==
    /\ pc[w] = "sent" /\ flock = {}
    /\ \/ flock' = {w} /\ pc' = [pc EXCEPT ![w] = "compare"]
       \/ flock' = {} /\ pc' = [pc EXCEPT ![w] = "refused"]
    /\ UNCHANGED <<names, body, made, last, outer, expected>>

\* The finally of _cas_write_locked: a claim with nothing at the path is put
\* back; one beside a new file stays.
Leave(w, p, c, how) ==
    /\ path' = IF p = 0 THEN c ELSE p
    /\ claim' = [claim EXCEPT ![w] = IF p = 0 THEN 0 ELSE c]
    /\ flock' = {} /\ pc' = [pc EXCEPT ![w] = how]

\* The new body is in a hidden file before the target is compared.
Compare(w) ==
    /\ pc[w] = "compare"
    /\ IF Digest(path) = expected[w]
       THEN pc' = [pc EXCEPT ![w] = "claim"] /\ flock' = flock
       ELSE pc' = [pc EXCEPT ![w] = "conflict"] /\ flock' = {}
    /\ UNCHANGED <<names, body, made, last, outer, expected>>

\* rename(target, claim)
Claim(w) ==
    /\ pc[w] = "claim"
    /\ IF path = 0
       THEN pc' = [pc EXCEPT ![w] = "conflict"] /\ flock' = {} /\ UNCHANGED names
       ELSE /\ path' = 0 /\ claim' = [claim EXCEPT ![w] = path]
            /\ pc' = [pc EXCEPT ![w] = "recheck"] /\ UNCHANGED <<copies, flock>>
    /\ UNCHANGED <<body, made, last, outer, expected>>

\* What was claimed is not what was compared: it goes back to the path, or
\* beside it when the path is taken again.
GiveBack(w, how) ==
    IF path = 0
    THEN Leave(w, claim[w], 0, how) /\ UNCHANGED copies
    ELSE Leave(w, path, 0, how) /\ copies' = copies \cup {claim[w]}

Recheck(w) ==
    /\ pc[w] = "recheck"
    /\ IF Digest(claim[w]) = expected[w]
       THEN pc' = [pc EXCEPT ![w] = "install"] /\ UNCHANGED <<names, flock>>
       ELSE GiveBack(w, "conflict")
    /\ UNCHANGED <<body, made, last, outer, expected>>

\* Mutant: the new body is renamed over the target.
InstallOver(w) ==
    /\ pc[w] = "install" /\ made < MaxInode /\ last < MaxVersion
    /\ path' = made + 1 /\ made' = made + 1 /\ last' = last + 1
    /\ body' = [body EXCEPT ![made + 1] = last + 1]
    /\ pc' = [pc EXCEPT ![w] = "installed"]
    /\ UNCHANGED <<claim, copies, outer, flock, expected>>

\* link(tmp, target), which replaces nothing
Install(w) ==
    /\ pc[w] = "install" /\ made < MaxInode /\ last < MaxVersion
    /\ IF path = 0
       THEN /\ path' = made + 1 /\ made' = made + 1 /\ last' = last + 1
            /\ body' = [body EXCEPT ![made + 1] = last + 1]
            /\ pc' = [pc EXCEPT ![w] = "installed"]
       ELSE pc' = [pc EXCEPT ![w] = "beaten"] /\ UNCHANGED <<path, made, last, body>>
    /\ UNCHANGED <<claim, copies, outer, flock, expected>>

\* The last look at the claimed file, after the install or after another
\* writer's file was found there: written to meanwhile, it is kept.
Verify(w) ==
    /\ pc[w] \in {"installed", "beaten"}
    /\ LET how == IF pc[w] = "installed" THEN "saved" ELSE "conflict"
       IN  IF Digest(claim[w]) = expected[w]
           THEN pc' = [pc EXCEPT ![w] = IF how = "saved" THEN "drop" ELSE "give"]
                /\ UNCHANGED <<names, flock>>
           ELSE /\ copies' = copies \cup {claim[w]}
                /\ Leave(w, path, 0, how)
    /\ UNCHANGED <<body, made, last, outer, expected>>

\* The claimed file goes: it is the version the client started from.
Drop(w) ==
    /\ pc[w] \in {"drop", "give"}
    /\ claim' = [claim EXCEPT ![w] = 0]
    /\ flock' = {} /\ pc' = [pc EXCEPT ![w] = IF @ = "drop" THEN "saved" ELSE "conflict"]
    /\ UNCHANGED <<path, copies, body, made, last, outer, expected>>

\* Any other error (no space, no free conflict name): only the finally runs.
Error(w) ==
    /\ pc[w] \in {"compare", "claim", "recheck", "install", "installed", "beaten"}
    /\ Leave(w, path, claim[w], "error")
    /\ UNCHANGED <<copies, body, made, last, outer, expected>>

\* The gateway process dies; the kernel drops its flock and nothing else.
Crash(w) ==
    /\ w \in flock
    /\ flock' = {} /\ pc' = [pc EXCEPT ![w] = "error"]
    /\ UNCHANGED <<names, body, made, last, outer, expected>>

-----------------------------------------------------------------------------
(* The agent's tools and the terminal, which know of no lock.              *)

\* A file is renamed over the target, or made where there was none.
Replace ==
    /\ made < MaxInode /\ last < MaxVersion
    /\ path' = made + 1 /\ made' = made + 1 /\ last' = last + 1
    /\ body' = [body EXCEPT ![made + 1] = last + 1]
    /\ gone' = IF path = 0 THEN gone ELSE gone \cup {body[path]}
    /\ UNCHANGED <<claim, copies, open, late, flock, pc, expected>>

Delete ==
    /\ path # 0
    /\ gone' = gone \cup {body[path]} /\ path' = 0
    /\ UNCHANGED <<claim, copies, body, made, last, open, late, flock, pc, expected>>

OpensFile ==
    /\ path # 0 /\ open' = open \cup {path}
    /\ UNCHANGED <<names, body, made, last, gone, late, flock, pc, expected>>

\* Written through a descriptor that may be older than the claim.
WriteThrough(i) ==
    /\ i \in open /\ last < MaxVersion
    /\ last' = last + 1 /\ body' = [body EXCEPT ![i] = last + 1]
    /\ LET named == i \in {path} \cup copies \cup {claim[w] : w \in Writers}
           dropping == \E w \in Writers : claim[w] = i /\ pc[w] \in {"drop", "give"}
           removed == ~named /\ body[i] \in gone     \* by an outside writer
       IN  /\ gone' = gone \cup {body[i]} \cup (IF removed THEN {last + 1} ELSE {})
           /\ late' = IF dropping \/ ~(named \/ removed) THEN late \cup {last + 1} ELSE late
    /\ UNCHANGED <<names, made, open, flock, pc, expected>>

Close(i) ==
    /\ i \in open /\ open' = open \ {i}
    /\ UNCHANGED <<names, body, made, last, gone, late, flock, pc, expected>>

SaveNext ==
    \/ \E w \in Writers : \/ Request(w) \/ Lock(w) \/ Compare(w) \/ Claim(w) \/ Recheck(w)
                          \/ Install(w) \/ Verify(w) \/ Drop(w) \/ Error(w) \/ Crash(w)
    \/ Replace \/ Delete \/ OpensFile
    \/ \E i \in 1..MaxInode : WriteThrough(i) \/ Close(i)

SaveSpec == SaveInit /\ [][SaveNext]_saveVars

-----------------------------------------------------------------------------
\* Versions some name still leads to, hidden claim names included.
Kept == {body[i] : i \in ({path} \cup copies \cup {claim[w] : w \in Writers}) \ {0}}

\* Versions a client edited further: the save it got through replaces them.
Superseded == {expected[w] : w \in {u \in Writers : pc[u] \in {"saved", "conflict"}}}

\* However the agent renames, deletes and writes through old descriptors
\* between the steps of a save, no version is discarded that its own writer
\* did not overwrite and the client of the save had not read; versions
\* written after the last look at the claimed file excepted.
NothingIsLost == \A v \in 1..last : v \in Kept \cup gone \cup Superseded \cup late

-----------------------------------------------------------------------------
\* The two parts share no state.
FilesStep == FilesNext /\ UNCHANGED saveVars
SaveStep == SaveNext /\ UNCHANGED filesVars
=============================================================================
