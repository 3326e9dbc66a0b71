---------------------------- MODULE PromptLibrary ----------------------------
(***************************************************************************)
(* The prompt library (prompt_library.py, system_prompt.py): prompts are   *)
(* files of immutable versions, and the live system prompt is an override  *)
(* that names the version it came from.  Several admins open, commit,      *)
(* deploy, import and delete; one re-entrant lock serialises what they do. *)
(* The live override is persisted and read again after a restart.          *)
(***************************************************************************)
EXTENDS Integers, Sequences

CONSTANTS Admins, Names, MaxText, MaxFault, None

\* A text is a number, in the order they were written; 0 is no override.
Default == [name |-> None, ver |-> 0, text |-> 0]
Torn == [Default EXCEPT !.ver = -1]

VARIABLES lib,       \* of each name, its versions: their text and the text their author saw
          live,      \* the override in memory
          disk,      \* the override on disk, or Torn
          seen,      \* of each admin, the version its editor was opened on
          deleting,  \* the name a legacy delete has unlinked and not yet reset
          cut,       \* the names whose legacy delete was cut off there
          texts, faults

vars == <<lib, live, disk, seen, deleting, cut, texts, faults>>

NotSeen == [name |-> None, ver |-> 0, text |-> 0]

TypeOK ==
  /\ \A n \in Names : \A i \in DOMAIN lib[n] : lib[n][i].text \in 1..MaxText /\ lib[n][i].saw \in 0..MaxText
  /\ live.name \in Names \cup {None} /\ live.text \in 0..MaxText
  /\ deleting \in Names \cup {None} /\ cut \subseteq Names /\ texts \in 0..MaxText /\ faults \in 0..MaxFault

Init ==
  /\ lib = [n \in Names |-> <<>>] /\ live = Default /\ disk = Default
  /\ seen = [a \in Admins |-> NotSeen] /\ deleting = None /\ cut = {} /\ texts = 0 /\ faults = 0

Free == deleting = None
Fresh == texts < MaxText /\ texts' = texts + 1
Latest(n) == lib[n][Len(lib[n])]

\* _publish: the file is written, then memory changes.
Publish(l) == live' = l /\ disk' = l

(* The library. *)

\* get_prompt, opened in an editor.
Open(a, n) ==
  /\ lib[n] # <<>>
  /\ seen' = [seen EXCEPT ![a] = [name |-> n, ver |-> Len(lib[n]), text |-> Latest(n).text]]
  /\ UNCHANGED <<lib, live, disk, deleting, cut, texts, faults>>

\* create_prompt: the complete file is linked into place, never over another.
Create(n) ==
  /\ Free /\ lib[n] = <<>> /\ Fresh
  /\ lib' = [lib EXCEPT ![n] = <<[text |-> texts', saw |-> 0]>>]
  /\ UNCHANGED <<live, disk, seen, deleting, cut, faults>>

\* Mutant: the last version is overwritten.
CommitInPlace(a, based) ==
  /\ Free /\ seen[a].name # None /\ lib[seen[a].name] # <<>> /\ Fresh
  /\ lib' = [lib EXCEPT ![seen[a].name][Len(lib[seen[a].name])] = [text |-> texts', saw |-> 0]]
  /\ UNCHANGED <<live, disk, seen, deleting, cut, faults>>

\* commit_version: with a base version, refused if it is not the latest;
\* save_named_prompt commits without one.
Commit(a, based) ==
  /\ Free /\ seen[a].name # None /\ lib[seen[a].name] # <<>>
  /\ based => seen[a].ver = Len(lib[seen[a].name])
  /\ Fresh
  /\ lib' = [lib EXCEPT ![seen[a].name] =
               Append(@, [text |-> texts', saw |-> IF based THEN seen[a].text ELSE 0])]
  /\ UNCHANGED <<live, disk, seen, deleting, cut, faults>>

\* Mutant: a live prompt is deleted.
DeleteAny(n) ==
  /\ Free /\ lib[n] # <<>>
  /\ lib' = [lib EXCEPT ![n] = <<>>]
  /\ UNCHANGED <<live, disk, seen, deleting, cut, texts, faults>>

\* delete_prompt: refused while one of its versions is live.
Delete(n) ==
  /\ Free /\ lib[n] # <<>> /\ live.name # n
  /\ lib' = [lib EXCEPT ![n] = <<>>]
  /\ UNCHANGED <<live, disk, seen, deleting, cut, texts, faults>>

\* delete_named_prompt: the file is unlinked first, and the live prompt reset
\* if it was this one, under the lock throughout.
Unlink(n) ==
  /\ Free /\ lib[n] # <<>>
  /\ lib' = [lib EXCEPT ![n] = <<>>]
  /\ deleting' = IF live.name = n THEN n ELSE None
  /\ UNCHANGED <<live, disk, seen, cut, texts, faults>>

ResetDeleted ==
  /\ deleting # None
  /\ Publish(Default) /\ deleting' = None
  /\ UNCHANGED <<lib, seen, cut, texts, faults>>

\* The reset fails: the live override stays, and names a prompt that is gone.
ResetDeletedFails ==
  /\ deleting # None /\ faults < MaxFault
  /\ cut' = cut \cup {deleting} /\ deleting' = None /\ faults' = faults + 1
  /\ UNCHANGED <<lib, live, disk, seen, texts>>

(* The live prompt. *)

\* deploy, rollback and activate_named_prompt, after the comparison with the
\* live revision the admin saw.
Deploy(n, i) ==
  /\ Free /\ i \in DOMAIN lib[n]
  /\ Publish([name |-> n, ver |-> i, text |-> lib[n][i].text])
  /\ UNCHANGED <<lib, seen, deleting, cut, texts, faults>>

Reset ==
  /\ Free /\ live # Default
  /\ Publish(Default)
  /\ UNCHANGED <<lib, seen, deleting, cut, texts, faults>>

\* set_system_prompt from a direct edit: no version backs it.
DirectEdit ==
  /\ Free /\ Fresh
  /\ Publish([Default EXCEPT !.text = texts'])
  /\ UNCHANGED <<lib, seen, deleting, cut, faults>>

\* import_live: an override without a version becomes version 1 of a new
\* prompt; when the second step fails it only becomes a prompt.
ImportLive(n, ok) ==
  /\ Free /\ live.text # 0 /\ live.ver = 0 /\ lib[n] = <<>>
  /\ lib' = [lib EXCEPT ![n] = <<[text |-> live.text, saw |-> 0]>>]
  /\ IF ok THEN Publish([name |-> n, ver |-> 1, text |-> live.text]) /\ UNCHANGED faults
     ELSE faults < MaxFault /\ faults' = faults + 1 /\ UNCHANGED <<live, disk>>
  /\ UNCHANGED <<seen, deleting, cut, texts>>

\* The file's write fails or is cut off: it was truncated first.
PublishFails(dies) ==
  /\ Free /\ faults < MaxFault /\ faults' = faults + 1
  /\ disk' = Torn /\ live' = IF dies THEN Default ELSE live
  /\ seen' = IF dies THEN [a \in Admins |-> NotSeen] ELSE seen
  /\ UNCHANGED <<lib, deleting, cut, texts>>

\* The gateway restarts: _load_persisted.
Restart ==
  /\ faults < MaxFault /\ faults' = faults + 1
  /\ live' = IF disk = Torn THEN Default ELSE disk
  /\ cut' = IF deleting = None THEN cut ELSE cut \cup {deleting}
  /\ deleting' = None
  /\ UNCHANGED <<lib, disk, seen, texts>>

Next ==
  \/ \E n \in Names : \/ Create(n) \/ Delete(n) \/ Unlink(n)
                      \/ \E a \in Admins : Open(a, n)
                      \/ \E i \in 1..MaxText : Deploy(n, i)
                      \/ \E ok \in BOOLEAN : ImportLive(n, ok)
  \/ \E a \in Admins, b \in BOOLEAN : Commit(a, b)
  \/ ResetDeleted \/ ResetDeletedFails \/ Reset \/ DirectEdit \/ Restart
  \/ \E dies \in BOOLEAN : PublishFails(dies)

Spec == Init /\ [][Next]_vars

\* The live prompt is the version it names: a session that is told
\* name@version runs that text, through commits, rollbacks, deletes, imports
\* and restarts.
LiveIsItsVersion ==
  live.name # None /\ live.name \notin cut /\ deleting # live.name
    => live.ver \in DOMAIN lib[live.name] /\ lib[live.name][live.ver].text = live.text

\* A version is never changed: the history of a prompt grows, until the
\* prompt is deleted.
AppendsOnly ==
  \A n \in Names :
    lib'[n] = <<>> \/ \A i \in DOMAIN lib[n] : i \in DOMAIN lib'[n] /\ lib'[n][i] = lib[n][i]
=============================================================================
