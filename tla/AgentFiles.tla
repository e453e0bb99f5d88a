----------------------------- MODULE AgentFiles -----------------------------
(***************************************************************************)
(* The files mgit writes into somebody else's tree so that an agent finds  *)
(* its instructions: the pointer lines of `mgit init` (agent_entry.go), the*)
(* routing configuration of `mgit work --sandbox` (internal/agentadapter)  *)
(* and the block that every launch regenerates in CLAUDE.md and AGENTS.md; *)
(* the list of files so generated (.mgit/generated); and the staging and   *)
(* the commit that have to keep mgit's own text out of the task's history. *)
(*                                                                         *)
(* A text is the sequence of its lines as a split at line ends gives them: *)
(* the last line is "" when the text ends in a newline, and <<>> stands    *)
(* for a file that is not there.  A block is "begin", one line that tells  *)
(* its posture, "end".  A hook configuration (JSON) is the sequence of its *)
(* entries, <<"bad">> when it does not parse.                              *)
(***************************************************************************)
EXTENDS Naturals, SequencesExt

CONSTANTS MaxRuns,      \* bound on the launches
          MaxEdits,     \* bound on what the user changes by hand
          MaxCommits,   \* bound on the commits
          MaxFaults,    \* bound on crashes and failing writes
          Named,        \* the files the user edits and stages by name
          MarkerEdits   \* whether the user may delete a marker line

VARIABLES phase,      \* "project" | "repo" | "worktree"
          disk,       \* the files on disk: of the project, then of the worktree
          head,       \* the files of the commit HEAD names
          staged,     \* the staged paths
          generated,  \* .mgit/generated
          pend,       \* what a command has written and is about to record
          wrote,      \* history: the files mgit wrote in this worktree
          listed,     \* history: the files ever recorded as generated
          edited,     \* history: the files the user changed since their commit
          rewrite,    \* the document a launch has read and is about to write back
          spoilt,     \* history: the documents a write cut short, or wrote back over an
                      \* edit made since its read
          runs, edits, commits, faults

vars == <<phase, disk, head, staged, generated, pend, wrote, listed, edited,
          rewrite, spoilt, runs, edits, commits, faults>>

Absent == <<>>
Empty == <<"">>
Bad == <<"bad">>

Claude == "CLAUDE.md"
Agents == "AGENTS.md"
Settings == ".claude/settings.json"
Codex == ".codex/hooks.json"
Cursor == ".cursor/hooks.json"
Rule == ".cursor/rules/mgit-sandbox.mdc"
Envrc == ".envrc"

Marked == {Claude, Agents, Envrc}
Hooks == {Settings, Codex, Cursor}
Files == Marked \cup Hooks \cup {Rule}

-----------------------------------------------------------------------------
(* Texts and blocks.                                                        *)

RenderSection(posture) == <<"begin", posture, "end">>

Where(l, m) == {i \in 1..Len(l) : l[i] = m}

First(l, m) == IF Where(l, m) = {} THEN 0 ELSE Min(Where(l, m))

Blank(l) == \A i \in 1..Len(l) : l[i] = ""

TrimNewlines(l) ==
  SubSeq(l, 1, CHOOSE n \in 0..Len(l) : /\ n = 0 \/ l[n] # ""
                                        /\ \A i \in (n + 1)..Len(l) : l[i] = "")

\* A replaceMarked that takes the block to reach to the end of the text.
replaceMarkedToEnd(l, section) ==
  LET start == First(l, "begin") IN
  IF start > 0 THEN SubSeq(l, 1, start - 1) \o section \o <<"">>
  ELSE IF Blank(l) THEN section \o <<"">>
  ELSE TrimNewlines(l) \o <<"">> \o section \o <<"">>

\* The first begin and the first end, wherever they are; a text without such
\* a pair gets the block at its end, set apart by a blank line.
replaceMarked(l, section) ==
  LET start == First(l, "begin")
      stop  == First(l, "end")
  IN  IF start > 0 /\ stop > start
      THEN SubSeq(l, 1, start - 1) \o section \o SubSeq(l, stop + 1, Len(l))
      ELSE IF Blank(l) THEN section \o <<"">>
      ELSE TrimNewlines(l) \o <<"">> \o section \o <<"">>

markerAfter(line) == line \in {"begin", "end"}

\* The complete spans: an end, and the last begin before it.
spans(l) ==
  {<<b, e>> \in Where(l, "begin") \X Where(l, "end") :
     /\ b < e
     /\ \A i \in (b + 1)..(e - 1) : ~markerAfter(l[i])}

trimOneBlankLine(l) ==
  IF Len(l) >= 3 /\ l[Len(l)] = "" /\ l[Len(l) - 1] = "" THEN Front(l) ELSE l

\* The text without its complete spans.  The line end of an end marker goes
\* with it; a span that is the last thing takes the blank line above it too.
StripGeneratedBlock(l) ==
  LET inSpan(i) == \E s \in spans(l) : s[1] <= i /\ i <= s[2]
      kept      == SelectSeq([i \in 1..Len(l) |-> IF inSpan(i) THEN "cut" ELSE l[i]],
                             LAMBDA x : x # "cut")
      n         == Len(l)
  IN  IF spans(l) = {} THEN l
      ELSE IF inSpan(n) THEN trimOneBlankLine(kept \o <<"">>)
      ELSE IF l[n] = "" /\ inSpan(n - 1) THEN trimOneBlankLine(kept)
      ELSE kept

\* A hook configuration keeps every entry it has and gets each of mgit's once.
With(doc, entry) == IF entry \in Range(doc) THEN doc ELSE Append(doc, entry)
MergeClaudeSettings(doc) == With(With(doc, "hook"), "allow")
MergeCodexHooks(doc) == With(doc, "hook")
MergeCursorHooks(doc) == With(With(doc, "version"), "hook")

\* What a writer of mgit leaves in f.
Rendered(f, posture) ==
  CASE f \in Marked  -> replaceMarked(disk[f], RenderSection(posture))
    [] f = Settings   -> MergeClaudeSettings(disk[f])
    [] f = Codex      -> MergeCodexHooks(disk[f])
    [] f = Cursor     -> MergeCursorHooks(disk[f])
    [] OTHER          -> <<"rule">>

-----------------------------------------------------------------------------
(* `mgit init`: the pointer lines are written ahead of the base.            *)

addPointerLine(l) ==
  IF "pointer" \in Range(l) THEN l
  ELSE IF l \in {Absent, <<"">>} THEN <<"pointer", "">>
  ELSE IF Last(l) = "" THEN Front(l) \o <<"pointer", "">>
  ELSE Append(l, "pointer")

\* CLAUDE.md first; n of the two files are reached, none when the project
\* has a HYPERSWE.md.
writeAgentEntry(n) ==
  [f \in Files |-> IF (f = Claude /\ n >= 1) \/ (f = Agents /\ n >= 2)
                   THEN addPointerLine(disk[f]) ELSE disk[f]]

\* What is put back when init fails after that: every agent file as it was.
snapshotAgentFiles == disk

\* Init records what is on disk as the base.
initCmd ==
  /\ phase = "project"
  /\ \/ /\ \E n \in 0..2 : disk' = writeAgentEntry(n)
        /\ head' = disk' /\ phase' = "repo"
        /\ UNCHANGED faults
     \/ /\ faults < MaxFaults /\ faults' = faults + 1
        /\ disk' = snapshotAgentFiles
        /\ UNCHANGED <<head, phase>>
  /\ UNCHANGED <<staged, generated, pend, wrote, listed, edited, rewrite, spoilt, runs, edits, commits>>

\* Killed between the files and the base: the next init finds its own lines.
initKilled ==
  /\ phase = "project"
  /\ faults < MaxFaults /\ faults' = faults + 1
  /\ \E n \in 1..2 : disk' = writeAgentEntry(n)
  /\ UNCHANGED <<phase, head, staged, generated, pend, wrote, listed, edited, rewrite, spoilt, runs, edits, commits>>

-----------------------------------------------------------------------------
(* `mgit work`: the worktree, its wiring, the record of it.                 *)

WriteCodexAdapter == <<Codex, Agents>>
WriteCursorAdapter == <<Cursor, Rule>>
WriteGenericAdapter == <<Envrc>>
InstallCooperativeAdapters ==
  WriteCodexAdapter \o WriteCursorAdapter \o WriteGenericAdapter

\* A configuration that does not parse is never overwritten.
Refused(f, fails) == f \in fails \/ (f \in Hooks /\ head[f] = Bad)

\* The settings on their own; the cooperative adapters up to the first error.
injectAgentAdapters(contained, fails) ==
  IF ~contained THEN {}
  ELSE {f \in {Settings} : ~Refused(f, fails)} \cup
       {InstallCooperativeAdapters[i] : i \in
          {k \in 1..Len(InstallCooperativeAdapters) :
             \A j \in 1..k : ~Refused(InstallCooperativeAdapters[j], fails)}}

upsertWorktreeEnvDoc(fails) == {Claude} \ fails

GeneratedWorktreeFiles(contained) == IF contained THEN Files ELSE {Claude}

ExistingGeneratedFiles(contained, d) ==
  {f \in GeneratedWorktreeFiles(contained) : d[f] # Absent}

WriteOrder == <<Settings>> \o InstallCooperativeAdapters \o <<Claude>>

\* os.WriteFile truncates before it writes: what it may leave when it fails.  A
\* document is cut at its start, after its first line or inside its last block.
Torn(f, l) ==
  CASE f \in Hooks  -> {Bad}
    [] f \in Marked -> {Empty, SubSeq(l, 1, 1), SubSeq(l, 1, Len(l) - 2)}
    [] OTHER        -> {Empty}

\* The worktree starts as the base.  A crash in the writes leaves the first of
\* them behind, the last of these perhaps cut short, and records nothing.
workSetup(contained, fails, crash) ==
  LET posture == IF contained THEN "pending" ELSE "open"
      all     == injectAgentAdapters(contained, fails) \cup upsertWorktreeEnvDoc(fails)
      upTo(n) == {WriteOrder[i] : i \in 1..n} \cap all
  IN  /\ phase = "repo" /\ phase' = "worktree"
      /\ faults + Cardinality(fails) + (IF crash THEN 1 ELSE 0) <= MaxFaults
      /\ faults' = faults + Cardinality(fails) + (IF crash THEN 1 ELSE 0)
      /\ \E n \in (IF crash THEN 0..Len(WriteOrder) ELSE {Len(WriteOrder)}) :
           LET written == [f \in Files |-> IF f \in upTo(n) THEN Rendered(f, posture) ELSE disk[f]]
           IN  /\ wrote' = upTo(n)
               /\ \/ disk' = written /\ UNCHANGED spoilt
                  \/ /\ crash /\ n > 0 /\ WriteOrder[n] \in all
                     /\ \E l \in Torn(WriteOrder[n], written[WriteOrder[n]]) :
                          disk' = [written EXCEPT ![WriteOrder[n]] = l]
                     /\ spoilt' = spoilt \cup {WriteOrder[n]}
               /\ pend' = IF crash THEN {} ELSE ExistingGeneratedFiles(contained, disk')
      /\ UNCHANGED <<head, staged, generated, listed, edited, rewrite, runs, edits, commits>>

workCmd == \E contained \in BOOLEAN, fails \in SUBSET {Settings, Agents, Claude}, crash \in BOOLEAN :
             workSetup(contained, fails, crash)

\* `mgit worktree add` writes no agent file.
worktreeAdd ==
  /\ phase = "repo" /\ phase' = "worktree"
  /\ UNCHANGED <<disk, head, staged, generated, pend, wrote, listed, edited, rewrite, spoilt, runs, edits, commits, faults>>

\* A launch regenerates the block of both documents, one after the other.
Read(f) == [file |-> f, text |-> Rendered(f, "active"), late |-> FALSE]
NoRewrite == [file |-> "none", text |-> Absent, late |-> FALSE]

sandboxLaunch(readable) ==
  /\ phase = "worktree" /\ pend = {} /\ rewrite = NoRewrite
  /\ runs < MaxRuns /\ runs' = runs + 1
  /\ faults + (IF readable THEN 0 ELSE 1) <= MaxFaults
  /\ faults' = faults + (IF readable THEN 0 ELSE 1)
  /\ rewrite' = IF readable THEN Read(Claude) ELSE NoRewrite
  /\ UNCHANGED <<phase, disk, head, staged, generated, pend, wrote, listed, edited, spoilt, edits, commits>>

\* upsertMarkedFile writes back what it made of the text it read, whatever is
\* in the file by now; a write that fails has left it alone or cut it short.
upsertMarkedFile(ok) ==
  LET f == rewrite.file IN
  /\ rewrite # NoRewrite
  /\ \/ /\ ok /\ UNCHANGED faults
        /\ disk' = [disk EXCEPT ![f] = rewrite.text] /\ wrote' = wrote \cup {f}
        /\ spoilt' = IF rewrite.late THEN spoilt \cup {f} ELSE spoilt
     \/ /\ ~ok /\ faults < MaxFaults /\ faults' = faults + 1
        /\ \/ UNCHANGED <<disk, wrote, spoilt>>
           \/ /\ \E l \in Torn(f, rewrite.text) : disk' = [disk EXCEPT ![f] = l]
              /\ wrote' = wrote \cup {f} /\ spoilt' = spoilt \cup {f}
  /\ UNCHANGED <<phase, head, staged, generated, listed, edited, runs, edits, commits>>

\* CLAUDE.md, whose failure ends it without a record, and AGENTS.md, whose
\* failure does not unless the command was killed.
writeSandboxEnvDoc(ok) ==
  /\ upsertMarkedFile(ok)
  /\ IF rewrite.file = Claude /\ ok THEN rewrite' = Read(Agents) /\ UNCHANGED pend
     ELSE /\ rewrite' = NoRewrite
          /\ \/ pend' = IF rewrite.file = Claude THEN {} ELSE {Claude, Agents}
             \/ ~ok /\ pend' = {}

\* The list only grows, and is replaced by a rename.
RecordGeneratedPaths ==
  /\ pend # {}
  /\ generated' = generated \cup pend /\ pend' = {} /\ listed' = listed \cup pend
  /\ UNCHANGED <<phase, disk, head, staged, wrote, edited, rewrite, spoilt, runs, edits, commits, faults>>

\* The command ends without the record: killed, or warned that it may not.
recordGeneratedScaffolding ==
  /\ pend # {} /\ faults < MaxFaults
  /\ pend' = {} /\ faults' = faults + 1
  /\ UNCHANGED <<phase, disk, head, staged, generated, wrote, listed, edited, rewrite, spoilt, runs, edits, commits>>

-----------------------------------------------------------------------------
(* Staging and committing in the worktree.                                  *)

\* A list that is missing reads as empty.
ReadGeneratedPaths == generated
generatedSet == ReadGeneratedPaths

\* `add -A`, `add <directory>`, `commit -a`.
addChanged ==
  LET ps == {f \in Files : disk[f] # head[f] /\ f \notin generatedSet} IN
  /\ phase = "worktree" /\ ps # {} /\ staged' = staged \cup ps
  /\ UNCHANGED <<phase, disk, head, generated, pend, wrote, listed, edited, rewrite, spoilt, runs, edits, commits, faults>>

\* `add <path>`: on disk, or tracked (a deletion).
Add(f) ==
  /\ phase = "worktree"
  /\ disk[f] # Absent \/ head[f] # Absent
  /\ staged' = staged \cup {f}
  /\ UNCHANGED <<phase, disk, head, generated, pend, wrote, listed, edited, rewrite, spoilt, runs, edits, commits, faults>>

\* What a commit records for a staged path: a generated file without mgit's
\* block, unless nothing else would be left of it.
committed(f) ==
  LET stripped == StripGeneratedBlock(disk[f]) IN
  IF f \in generatedSet /\ ~Blank(stripped) THEN stripped ELSE disk[f]

buildTreeFromStaging == [f \in Files |-> IF f \in staged THEN committed(f) ELSE head[f]]

\* A commit that would change nothing is refused.
commitCmd ==
  /\ phase = "worktree" /\ commits < MaxCommits
  /\ staged # {}
  /\ head' = buildTreeFromStaging /\ head' # head
  /\ edited' = edited \ staged
  /\ staged' = {} /\ commits' = commits + 1
  /\ UNCHANGED <<phase, disk, generated, pend, wrote, listed, rewrite, spoilt, runs, edits, faults>>

-----------------------------------------------------------------------------
(* The user.                                                                *)

Bottom(l) == IF l = Absent THEN <<"v", "">>
             ELSE IF Last(l) = "" THEN Front(l) \o <<"v", "">> ELSE Append(l, "v")

Edits(f) ==
  IF f \in Hooks THEN {Append(IF disk[f] = Bad THEN <<>> ELSE disk[f], "v")}
  ELSE {<<"v">> \o (IF disk[f] = Absent THEN <<"">> ELSE disk[f]), Bottom(disk[f])}
       \cup (IF MarkerEdits /\ f \in Marked
             THEN {RemoveAt(disk[f], i) : i \in {k \in 1..Len(disk[f]) : markerAfter(disk[f][k])}}
             ELSE {})

userEdits ==
  /\ phase = "worktree" /\ edits < MaxEdits /\ edits' = edits + 1
  /\ \E f \in Named :
       /\ \E l \in Edits(f) : disk' = [disk EXCEPT ![f] = l]
       /\ edited' = edited \cup {f}
       /\ rewrite' = [rewrite EXCEPT !.late = @ \/ rewrite.file = f]
  /\ UNCHANGED <<phase, head, staged, generated, pend, wrote, listed, spoilt, runs, commits, faults>>

Init ==
  /\ phase = "project"
  /\ \E c \in {Absent, <<"u">>, <<"u", "">>, <<"u", "", "">>}, a \in {Absent, <<"u", "">>}, s \in {Absent, <<"user">>, Bad} :
       /\ s = Absent \/ c = <<"u", "">>    \* no text is made from both
       /\ disk = [f \in Files |-> CASE f = Claude -> c [] f = Agents -> a
                                    [] f = Settings -> s [] OTHER -> Absent]
  /\ head = [f \in Files |-> Absent]
  /\ staged = {} /\ generated = {} /\ pend = {} /\ wrote = {} /\ listed = {} /\ edited = {}
  /\ rewrite = NoRewrite /\ spoilt = {}
  /\ runs = 0 /\ edits = 0 /\ commits = 0 /\ faults = 0

Next ==
  \/ initCmd \/ initKilled
  \/ workCmd \/ worktreeAdd
  \/ \E ok \in BOOLEAN : sandboxLaunch(ok) \/ writeSandboxEnvDoc(ok)
  \/ RecordGeneratedPaths \/ recordGeneratedScaffolding
  \/ addChanged \/ (\E f \in Named : Add(f)) \/ commitCmd
  \/ userEdits

Spec == Init /\ [][Next]_vars

-----------------------------------------------------------------------------
Lines == {"", "u", "v", "pointer", "begin", "end", "open", "pending", "active",
          "user", "hook", "allow", "version", "rule", "bad"}

\* The files are texts, and only files of the worktree are staged or listed.
TypeOK ==
  /\ phase \in {"project", "repo", "worktree"}
  /\ \A f \in Files : Range(disk[f]) \subseteq Lines /\ Range(head[f]) \subseteq Lines
  /\ staged \subseteq Files /\ generated \subseteq Files
  /\ pend \subseteq Files /\ wrote \subseteq Files /\ listed \subseteq Files /\ edited \subseteq Files
  /\ rewrite.file \in {"none", Claude, Agents} /\ rewrite.late \in BOOLEAN /\ spoilt \subseteq Files
  /\ runs \in 0..MaxRuns /\ edits \in 0..MaxEdits
  /\ commits \in 0..MaxCommits /\ faults \in 0..MaxFaults

\* What the user wrote: the lines outside every complete block.
Words(l) == SelectSeq(StripGeneratedBlock(l), LAMBDA x : x \in {"u", "v", "pointer"})

\* UpsertClaudeMd and UpsertAgentsMd replace mgit's block and preserve "all
\* surrounding user content" (claudemd.go:84): no command of mgit changes what
\* the user wrote in a document.  An edit made between the read and the write
\* is lost, and so may be the text when the write is cut short.
TextKept(f) == disk'[f] # disk[f] => Words(disk'[f]) = Words(disk[f])
UserTextKept ==
  [][phase = "worktree" /\ edits' = edits => \A f \in {Claude, Agents} : TextKept(f)]_vars

\* What holds of it: a write that was not cut short puts back all of the user's
\* lines it read, and those are the ones in the file unless the user was quicker.
UserTextStep ==
  phase = "worktree" /\ edits' = edits
     => \A f \in {Claude, Agents} \ spoilt' : TextKept(f)

OneNewline(l) == Len(l) >= 2 /\ Last(l) = "" /\ l[Len(l) - 1] # ""

\* A file mgit once listed as generated reaches the history only by name, and
\* then only with what the user did to it: bulk staging never takes it up, and
\* a commit of a tracked document takes the block out and leaves the text as it
\* was, blank line included (StripGeneratedBlock undoes replaceMarked).  A file
\* whose listing was lost, and one that is nothing but block, go in as they are.
OnlyEditsLand ==
  /\ (staged' \ staged) \cap listed \subseteq Named
  /\ commits' # commits
       => \A f \in Marked \cap listed :
            head'[f] # head[f] /\ f \notin spoilt /\ OneNewline(head[f]) /\ spans(head[f]) = {}
              => f \in edited /\ spans(head'[f]) = {}

\* ExistingGeneratedFiles keeps "the provenance claim honest: if an adapter
\* write failed [...] mgit does not claim a file it never wrote".
ClaimsOnlyWritten == generated \subseteq wrote

\* mgit's text and the user's stay apart: the user's lines survive a
\* regeneration they do not race, and the block of a listed document stays out
\* of its commits (markers.go, generated_block.go).
ApartStep == UserTextStep /\ OnlyEditsLand
TextsStayApart == [][ApartStep]_vars
=============================================================================
