----------------------------- MODULE SkillInstall -----------------------------
(***************************************************************************)
(* Drafts of skills become skills.  An upload is written to a draft, whose *)
(* package root is taken off its paths; the draft is analyzed, generated   *)
(* and installed: its files are copied to the directory of the skill, the  *)
(* configuration and the owner's settings are told, and the runtime        *)
(* discovers its skills anew.                                              *)
(*                                                                         *)
(* A path is a sequence of names.  A configuration is the set of skills it *)
(* adds to the one work mode, and with them Root when skills are enabled   *)
(* and the directory of the installed ones is among the roots, which the   *)
(* defaults do not have; rough says that the file is not yet in the form a *)
(* read would give it.  One step is what runs between two awaits.   *)
(* KeepsWhatIsThere is a way to get the next definition wrong.             *)
(***************************************************************************)
EXTENDS Naturals, Sequences, SequencesExt, FiniteSets, Functions

CONSTANTS
  Slot,         \* requests at work at once
  Draft,
  Uploads,      \* the paths each draft was uploaded with, in order
  AskedMode,    \* the mode its form asked for
  IdOf,         \* the id it is generated with
  Request,      \* the requests there are: [op, draft, owner, body]
  MaxRequests   \* bound: requests

None == "none"
NoDirectory == <<>>
Root == "root"

VARIABLES
  draft,        \* draft.json, and the files: where each upload is
  skills,       \* what is in the directory of each skill
  disk,         \* the file of the configuration
  current,      \* the configuration in memory
  saved,        \* the skills in the settings of the owners that have some
  host,         \* SkillPluginHost: its configuration and its plugins
  job,          \* each slot
  started,      \* how many requests were taken
  past          \* history: what was told to be installed, and what got in the way

skillVars == <<draft, skills, disk, current, saved, host, job, started, past>>

Id == {IdOf[d] : d \in Draft}
Put(f, x, y) == [z \in DOMAIN f \cup {x} |-> IF z = x THEN y ELSE f[z]]
-----------------------------------------------------------------------------
(***************************************************************************)
(* Uploads.                                                                *)
(***************************************************************************)
isSkillPackageMarker(path) == Last(path) \in {"SKILL.md", "skill.json"}

commonPackageRootPrefix(paths) ==
  IF /\ \A p \in ToSet(paths) : Len(p) >= 2 /\ Head(p) = Head(paths[1])
     /\ \E p \in ToSet(paths) : isSkillPackageMarker(p)
  THEN Head(paths[1]) ELSE None

\* writeDraftFile, for each upload: a later one of the same path is written over it.
Written(paths) == [p \in ToSet(paths) |-> Max({i \in DOMAIN paths : paths[i] = p})]

Moved(files, from, to) == Put(Restrict(files, DOMAIN files \ {from}), to, files[from])

\* normalizeDraftPackageRoot: each file is renamed, and then the root is removed with all
\* that is in it.
WithoutRoot(paths, files, root) ==
  LET renamed == FoldLeft(LAMBDA sofar, p : Moved(sofar, p, Tail(p)), files, paths)
  IN  Restrict(renamed, {p \in DOMAIN renamed : Head(p) # root})

Created(d) ==
  LET paths  == Uploads[d]
      marked == \E p \in ToSet(paths) : isSkillPackageMarker(p)
      mode   == IF marked THEN "package" ELSE AskedMode[d]
      root   == IF mode = "package" THEN commonPackageRootPrefix(paths) ELSE None
  IN  IF root = None
      THEN [mode |-> mode, listed |-> paths, files |-> Written(paths), generated |-> FALSE]
      ELSE [mode |-> mode, listed |-> [i \in DOMAIN paths |-> Tail(paths[i])],
            files |-> WithoutRoot(paths, Written(paths), root), generated |-> FALSE]
-----------------------------------------------------------------------------
NoJob == [pc |-> "idle", request |-> None, draft |-> None, rest |-> <<>>, seen |-> {}, rough |-> FALSE,
          base |-> {}, found |-> <<>>]

Init ==
  /\ draft = [d \in Draft |-> Created(d)]
  /\ skills = [i \in Id |-> NoDirectory]
  /\ \E rough \in BOOLEAN, config \in {{}, {Root}} :
       /\ disk = [skills |-> config, rough |-> rough]
       /\ current = config /\ host = [config |-> config, plugins |-> <<>>]
  /\ saved = <<>>
  /\ job = [s \in Slot |-> NoJob] /\ started = 0
  /\ past = [installed |-> {}, mixed |-> {}, broken |-> {}, goal |-> <<>>, stale |-> FALSE,
             behind |-> FALSE, foreign |-> FALSE, crossed |-> FALSE, generated |-> {}, raced |-> {}]

Op(s) == job[s].request.op
DraftOf(s) == job[s].request.draft
IdIn(s) == IdOf[DraftOf(s)]
At(s, pc) == job[s].pc = pc
Goes(s, pc) == job' = [job EXCEPT ![s].pc = pc]
Ends(s) == job' = [job EXCEPT ![s] = NoJob]
Others(s) == Slot \ {s}

\* An install is at work on the files of a skill.
Copies(s, id) == job[s].pc \in {"copy", "entry", "manifest"} /\ IdIn(s) = id

Take(s, r) ==
  /\ At(s, "idle") /\ started < MaxRequests /\ started' = started + 1
  /\ job' = [job EXCEPT ![s] = [NoJob EXCEPT !.request = r, !.draft = IF r.draft = None THEN None
                                                                       ELSE draft[r.draft],
               !.pc = IF r.op = "config" THEN "read" ELSE IF r.op = "install" THEN "clear" ELSE "save"]]
  \* Without a draft in the body the one that was generated is installed.
  /\ r.op = "install" /\ r.body = None => draft[r.draft].generated
  \* generatePackageDraft reads SKILL.md.
  /\ r.op = "generate" /\ draft[r.draft].mode = "package" =>
       <<"SKILL.md">> \in DOMAIN draft[r.draft].files
  /\ past' = [past EXCEPT !.raced = @ \cup {DraftOf(t) : t \in {u \in Slot : At(u, "save")}}]
  /\ UNCHANGED <<draft, skills, disk, current, saved, host>>

\* saveDraft writes what was loaded, and what analyze or generate has made of it.
Save(s) ==
  LET d == DraftOf(s)
      generated == job[s].draft.generated \/ Op(s) = "generate" IN
  /\ At(s, "save")
  /\ draft' = [draft EXCEPT ![d].generated = generated]
  /\ past' = [past EXCEPT !.generated = IF Op(s) = "generate" THEN @ \cup {d} ELSE @]
  /\ Ends(s)
  /\ UNCHANGED <<skills, disk, current, saved, host, started>>
-----------------------------------------------------------------------------
(***************************************************************************)
(* The files of a skill.                                                   *)
(***************************************************************************)
Target(mode, path) == IF mode = "package" THEN path ELSE <<"scripts", Last(path)>>

Upload(d, i) == <<d, i>>
Entry(d) == <<d, "entry">>
Manifest(d) == <<d, "manifest">>

\* What an install of the draft should leave: the uploads, of those of the same name the
\* last, and what was generated.
Whole(d, dr) ==
  LET copied == FoldLeft(LAMBDA sofar, i : Put(sofar, Target(dr.mode, dr.listed[i]), Upload(d, i)),
                         <<>>, [i \in DOMAIN dr.listed |-> i])
  IN  Put(Put(copied, <<"SKILL.md">>, Entry(d)), <<"skill.json">>, Manifest(d))

KeepsWhatIsThere(id) == skills

Cleared(id) == [skills EXCEPT ![id] = NoDirectory]

Clear(s) ==
  LET id == IdIn(s) IN
  /\ At(s, "clear")
  /\ skills' = Cleared(id)
  /\ job' = [job EXCEPT ![s].pc = "copy", ![s].rest = job[s].draft.listed]
  /\ past' = [past EXCEPT
                !.goal = Put(@, id, Whole(DraftOf(s), job[s].draft)),
                !.broken = @ \ {id},
                !.mixed = IF \E t \in Others(s) : Copies(t, id) THEN @ \cup {id} ELSE @ \ {id}]
  /\ UNCHANGED <<draft, disk, current, saved, host, started>>

Fails(s) == Ends(s) /\ past' = [past EXCEPT !.broken = @ \cup {IdIn(s)}]

\* cp makes the directories it needs, and fails on a file that is not there.
Copy(s) ==
  /\ At(s, "copy") /\ job[s].rest # <<>>
  /\ LET path  == Head(job[s].rest)
         files == job[s].draft.files IN
       IF path \in DOMAIN files
       THEN /\ skills' = [skills EXCEPT ![IdIn(s)] = Put(@, Target(job[s].draft.mode, path),
                                                      Upload(DraftOf(s), files[path]))]
            /\ job' = [job EXCEPT ![s].rest = Tail(@),
                                  ![s].pc = IF Len(job[s].rest) = 1 THEN "entry" ELSE @]
            /\ UNCHANGED past
       ELSE Fails(s) /\ UNCHANGED skills
  /\ UNCHANGED <<draft, disk, current, saved, host, started>>

\* The directory may have been removed by another install.
WriteEntry(s) ==
  /\ At(s, "entry")
  /\ IF skills[IdIn(s)] # NoDirectory
     THEN /\ skills' = [skills EXCEPT ![IdIn(s)] = Put(@, <<"SKILL.md">>, Entry(DraftOf(s)))]
          /\ Goes(s, "manifest") /\ UNCHANGED past
     ELSE Fails(s) /\ UNCHANGED skills
  /\ UNCHANGED <<draft, disk, current, saved, host, started>>

\* skillManifestForDraft throws on a manifest the schema does not allow.
WriteManifest(s) ==
  /\ At(s, "manifest")
  /\ IF skills[IdIn(s)] # NoDirectory /\ job[s].request.body # "bad"
     THEN /\ skills' = [skills EXCEPT ![IdIn(s)] = Put(@, <<"skill.json">>, Manifest(DraftOf(s)))]
          /\ Goes(s, "read") /\ UNCHANGED past
     ELSE Fails(s) /\ UNCHANGED skills
  /\ UNCHANGED <<draft, disk, current, saved, host, started>>
-----------------------------------------------------------------------------
(***************************************************************************)
(* The configuration.                                                      *)
(***************************************************************************)
\* FileQiongqiConfigStore.read.
ReadFile(s) ==
  /\ At(s, "read")
  /\ job' = [job EXCEPT ![s].pc = "taken", ![s].seen = disk.skills, ![s].rough = disk.rough]
  /\ UNCHANGED <<draft, skills, disk, current, saved, host, started, past>>

HasRead(s) ==
  IF Op(s) = "config" THEN Ends(s)
  ELSE job' = [job EXCEPT ![s].pc = IF job[s].request.owner = None THEN "write" ELSE "settings",
                          ![s].base = job[s].seen]

TakeIn(s) ==
  /\ At(s, "taken")
  /\ current' = job[s].seen
  /\ past' = [past EXCEPT !.behind = @ \/ job[s].seen # disk.skills]
  /\ IF job[s].rough THEN Goes(s, "tidy") ELSE HasRead(s)
  /\ UNCHANGED <<draft, skills, disk, saved, host, started>>

\* normalizeBuiltInCapabilitiesForDisk: a read writes what it has read in its own form.
Tidy(s) ==
  /\ At(s, "tidy")
  /\ disk' = [skills |-> job[s].seen, rough |-> FALSE]
  /\ past' = [past EXCEPT !.stale = @ \/ job[s].seen # disk.skills]
  /\ HasRead(s)
  /\ UNCHANGED <<draft, skills, current, saved, host, started>>

\* readEffectiveConfig: an owner who has saved settings has them in place of the file's.
ReadSettings(s) ==
  LET owner == job[s].request.owner IN
  /\ At(s, "settings")
  /\ job' = [job EXCEPT ![s].pc = "write",
                        ![s].base = IF owner \in DOMAIN saved THEN saved[owner] ELSE @]
  /\ UNCHANGED <<draft, skills, disk, current, saved, host, started, past>>

Enabled(s) == job[s].base \cup {IdIn(s), Root}

WriteConfig(s) ==
  /\ At(s, "write")
  /\ disk' = [skills |-> Enabled(s), rough |-> FALSE]
  /\ past' = [past EXCEPT !.stale = @ \/ job[s].seen # disk.skills,
                          !.foreign = @ \/ job[s].base # job[s].seen]
  /\ Goes(s, "written")
  /\ UNCHANGED <<draft, skills, current, saved, host, started>>

TakeOwn(s) ==
  /\ At(s, "written")
  /\ current' = Enabled(s)
  /\ past' = [past EXCEPT !.behind = @ \/ Enabled(s) # disk.skills]
  /\ Goes(s, IF job[s].request.owner = None THEN "refresh" ELSE "own")
  /\ UNCHANGED <<draft, skills, disk, saved, host, started>>

SaveSettings(s) ==
  /\ At(s, "own")
  /\ saved' = Put(saved, job[s].request.owner, Enabled(s))
  /\ Goes(s, "refresh")
  /\ UNCHANGED <<draft, skills, disk, current, host, started, past>>
-----------------------------------------------------------------------------
(***************************************************************************)
(* The skills the runtime has.                                             *)
(***************************************************************************)
Snapshot(s) ==
  /\ At(s, "refresh")
  /\ job' = [job EXCEPT ![s].pc = "discover", ![s].seen = current, ![s].found = <<>>]
  /\ past' = [past EXCEPT !.crossed = @ \/ \E t \in Others(s) : job[t].pc \in {"discover", "load"}]
  /\ UNCHANGED <<draft, skills, disk, current, saved, host, started>>

\* loadPlugin: a directory with a manifest, or only an entry, and with its entry.
Loadable(id) == <<"SKILL.md">> \in DOMAIN skills[id]

\* Nothing is discovered when skills are disabled, or outside the roots.
Discoverable(config) == IF Root \in config THEN {i \in Id : Loadable(i)} ELSE {}

Discover(s) ==
  /\ At(s, "discover")
  /\ job' = [job EXCEPT ![s].pc = "load",
                        ![s].found = [i \in Discoverable(job[s].seen) |-> skills[i][<<"SKILL.md">>]]]
  /\ UNCHANGED <<draft, skills, disk, current, saved, host, started, past>>

\* reload takes what was discovered, and the install is answered.
Load(s) ==
  /\ At(s, "load")
  /\ host' = [config |-> job[s].seen, plugins |-> job[s].found]
  /\ past' = [past EXCEPT !.installed = @ \cup {IdIn(s)}]
  /\ Ends(s)
  /\ UNCHANGED <<draft, skills, disk, current, saved, started>>

Next ==
  \E s \in Slot :
    \/ \E r \in Request : Take(s, r)
    \/ Save(s) \/ Clear(s) \/ Copy(s) \/ WriteEntry(s) \/ WriteManifest(s)
    \/ ReadFile(s) \/ TakeIn(s) \/ Tidy(s) \/ ReadSettings(s) \/ WriteConfig(s) \/ TakeOwn(s)
    \/ SaveSettings(s) \/ Snapshot(s) \/ Discover(s) \/ Load(s)

Spec == Init /\ [][Next]_skillVars
-----------------------------------------------------------------------------
Ready(id) == id \notin past.broken /\ \A s \in Slot : ~Copies(s, id)
Quiet == \A s \in Slot : At(s, "idle")

\* The files of a skill are those its last install was told to make, the last upload of
\* each name among them, unless that install failed or two of the skill overlapped.
SkillsAreWhole ==
  \A id \in DOMAIN past.goal : Ready(id) /\ id \notin past.mixed => skills[id] = past.goal[id]

\* The files a draft lists are there, but for those that were in a directory with the
\* name of the root of their package.
UploadsAreKept ==
  \A d \in Draft : \A i \in DOMAIN draft[d].listed :
    LET path == draft[d].listed[i] IN
    \/ path \in DOMAIN draft[d].files /\ Uploads[d][draft[d].files[path]] = Uploads[d][i]
    \/ path # Uploads[d][i] /\ Head(path) = Head(Uploads[d][i])

\* A generated draft stays one, unless a request that had loaded it before saves it after.
GeneratedIsKept == \A d \in past.generated \ past.raced : draft[d].generated

\* A skill that was told to be installed is in the configuration, if no write of it was made
\* from an older one or from the settings of an owner; it is in that of the plugin host, if
\* no read put an older one into memory and no two refreshes overlapped; and the host has
\* its entry, if the last install of it did not fail and the configuration it has been
\* given looks for skills at all, as it does unless an older one was written or read.
InstalledIsKnown ==
  Quiet =>
    /\ ~past.stale /\ ~past.foreign =>
         /\ past.installed \subseteq disk.skills
         /\ ~past.behind => past.installed \subseteq current
         /\ ~past.behind /\ ~past.crossed => past.installed \subseteq host.config
    /\ ~past.stale /\ ~past.behind /\ ~past.crossed /\ past.installed # {} => Root \in host.config
    /\ ~past.crossed /\ Root \in host.config =>
         \A id \in past.installed \ past.broken :
           id \in DOMAIN host.plugins /\ host.plugins[id] = skills[id][<<"SKILL.md">>]

\* What an answer says of a draft or a skill is so.
SkillsAreAsTold == SkillsAreWhole /\ UploadsAreKept /\ GeneratedIsKept /\ InstalledIsKnown
=============================================================================
