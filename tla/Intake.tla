------------------------------- MODULE Intake -------------------------------
(***************************************************************************)
(* plugins/loader.py: a plugin directory is loaded file by file, its       *)
(* manifest, the bundles under skills/ in the order of their names, and    *)
(* mcp.json, while an installer may replace the files one by one.          *)
(***************************************************************************)
EXTENDS Frontmatter

CONSTANTS
    Bundle,         \* bundles: numbers, in the order of their names
    Documents,      \* what a SKILL.md may say, and the scripts beside it
    MaxChanges      \* bound: files replaced during one load

ASSUME IntakeAssumption ==
    /\ Bundle \subseteq Nat
    /\ \A doc \in Documents :
        doc.delimited \in BOOLEAN /\ doc.lines \in Seq(Line) /\ IsFiniteSet(doc.scripts)
    /\ MaxChanges \in Nat

\* A file is not there, cannot be read, is not UTF-8, or says something; and a directory
\* without a SKILL.md is plain.  What a JSON file says is what is wrong with it; for a
\* number of thousands of digits json.loads raises a ValueError that is no JSONDecodeError.
NameFault == {"no name", "not a string", "not a plugin name"}
ManifestFault == {"not JSON", "not an object", "unknown key", "$schema",
                  "optional key", "huge number"} \cup NameFault
McpFault == {"not JSON", "not an object", "huge number"}
NoText == {"absent", "unreadable", "undecodable"}
FileOf(faults) == [is : NoText, says : {{}}] \cup [is : {"text"}, says : {{}} \cup {{f} : f \in faults}]
EmptyDoc == [delimited |-> FALSE, lines |-> << >>, scripts |-> {}]
BundleFile == [is : NoText \cup {"plain"}, says : {EmptyDoc}] \cup [is : {"text"}, says : Documents]

VARIABLES
    disk,       \* the directory: manifest, skills_dir, bundle and mcp
    step,       \* how far load_plugin is
    todo,       \* bundles that were listed and not yet loaded
    base,       \* what load_bundle made of the SKILL.md it read
    plugin,     \* the LoadedPlugin that is being built
    touched,    \* history: the manifest or mcp.json, if it was replaced since the load began
    replaced    \* history: the bundles that were

intakeVars == <<disk, step, todo, base, plugin, touched, replaced>>

BaseSkill ==
    {SkillOf(doc, "untrusted") : doc \in {d \in Documents : LoadsSkill(d, "untrusted")}}
NoSkill == [trust |-> "untrusted", taints |-> {}, tools |-> FALSE, entries |-> 0]

\* errors are of the components, failed are the bundles that have one.
NothingLoaded ==
    [manifest |-> FALSE, skills |-> << >>, mcp |-> FALSE, errors |-> {}, failed |-> {}]

IntakeInit ==
    /\ disk \in [root : {TRUE}, manifest : FileOf({"no name"}), skills_dir : {"absent", "dir", "unlistable"},
                 bundle : [Bundle -> BundleFile], mcp : FileOf({"not JSON", "huge number"})]
    /\ disk.skills_dir # "dir" => \A b \in Bundle : disk.bundle[b].is = "absent"
    /\ step = "idle" /\ todo = {} /\ base = NoSkill /\ plugin = NothingLoaded
    /\ touched = {} /\ replaced = {}

Loading == step \notin {"idle", "returned", "raised"}

MayReplace == Loading /\ Cardinality(touched) + Cardinality(replaced) < MaxChanges

\* Another program replaces a file.
Replace(part, file) ==
    /\ MayReplace
    /\ disk' = [disk EXCEPT ![part] = file]
    /\ touched' = touched \cup {part}
    /\ UNCHANGED <<step, todo, base, plugin, replaced>>

ReplaceBundle(b, file) ==
    /\ MayReplace
    /\ disk.skills_dir = "dir"
    /\ disk' = [disk EXCEPT !.bundle[b] = file]
    /\ replaced' = replaced \cup {b}
    /\ UNCHANGED <<step, todo, base, plugin, touched>>

-----------------------------------------------------------------------------
Goes(to) == step' = to /\ UNCHANGED <<disk, touched, replaced>>
Fails(component) == plugin' = [plugin EXCEPT !.errors = @ \cup {component}]
Escapes == Goes("raised") /\ UNCHANGED <<todo, base, plugin>>

\* An error that neither _load_manifest nor _load_mcp catches.
EscapesJson(file) == file.is = "undecodable" \/ "huge number" \in file.says

\* load_plugin of a path that is no directory, and of one that is.
Load(is_dir) ==
    /\ ~Loading
    /\ plugin' = [NothingLoaded EXCEPT !.errors = IF is_dir THEN {} ELSE {"plugin"}]
    /\ step' = IF is_dir THEN "manifest" ELSE "returned"
    /\ touched' = {} /\ replaced' = {} /\ todo' = {} /\ base' = NoSkill
    /\ UNCHANGED disk

\* _load_manifest.
LoadManifest ==
    /\ step = "manifest"
    /\ IF EscapesJson(disk.manifest) THEN Escapes
       ELSE /\ IF disk.manifest.is = "text" /\ disk.manifest.says = {}
               THEN plugin' = [plugin EXCEPT !.manifest = TRUE]
               ELSE Fails("manifest")
            /\ Goes("listing") /\ UNCHANGED <<todo, base>>

\* _load_skills lists the directory once.
ListBundles ==
    /\ step = "listing"
    /\ IF disk.skills_dir = "unlistable" THEN Escapes
       ELSE /\ todo' = {b \in Bundle : disk.bundle[b].is # "absent"}
            /\ Goes("bundles") /\ UNCHANGED <<base, plugin>>

\* A child that is no bundle is skipped silently.
CheckBundle ==
    /\ step = "bundles" /\ todo # {}
    /\ IF disk.bundle[Min(todo)].is \in {"absent", "plain"}
       THEN todo' = todo \ {Min(todo)} /\ Goes("bundles")
       ELSE UNCHANGED todo /\ Goes("bundle")
    /\ UNCHANGED <<base, plugin>>

\* Fault: a bundle that cannot be loaded ends the listing.
LeftAfterNone(b, loads) == IF loads THEN todo \ {b} ELSE {}

LeftAfter(b, loads) == todo \ {b}

\* load_bundle reads the SKILL.md: what it raises becomes an error of the bundle unless it
\* is an OSError, a UnicodeDecodeError or the ValueError of a number that is none.  A SKILL.md
\* that has gone is missed by a check, or by the read.
LoadBundle ==
    /\ step = "bundle"
    /\ LET b == Min(todo)
           file == disk.bundle[b]
           loads == file.is = "text" /\ LoadsSkill(file.says, "untrusted")
           escapes == file.is = "text" /\ SkillEscapes(file.says)
       IN  \/ /\ file.is \in {"unreadable", "undecodable", "absent", "plain"} \/ escapes
              /\ Escapes
           \/ /\ loads
              /\ base' = SkillOf(file.says, "untrusted")
              /\ Goes("scripts") /\ UNCHANGED <<todo, plugin>>
           \/ /\ file.is \in {"text", "absent", "plain"} /\ ~loads /\ ~escapes
              /\ plugin' = [plugin EXCEPT !.failed = @ \cup {b}]
              /\ todo' = LeftAfter(b, FALSE)
              /\ Goes("bundles") /\ UNCHANGED base

\* Scripts are recorded, never run.
CollectScripts(doc) == doc.scripts

\* The rest of load_bundle lists the scripts that are there by then.
RecordScripts ==
    /\ step = "scripts"
    /\ LET b == Min(todo)
       IN  /\ plugin' = [plugin EXCEPT !.skills =
                            Append(@, [bundle |-> b, skill |-> base,
                                       stripped_scripts |-> CollectScripts(disk.bundle[b].says)])]
           /\ todo' = LeftAfter(b, TRUE)
    /\ base' = NoSkill /\ Goes("bundles")

AfterBundles == step = "bundles" /\ todo = {} /\ Goes("mcp") /\ UNCHANGED <<todo, base, plugin>>

\* _load_mcp: no file is no error.
CheckMcp ==
    /\ step = "mcp"
    /\ Goes(IF disk.mcp.is = "absent" THEN "returned" ELSE "mcp read")
    /\ UNCHANGED <<todo, base, plugin>>

LoadMcp ==
    /\ step = "mcp read"
    /\ IF EscapesJson(disk.mcp) THEN Escapes
       ELSE /\ IF disk.mcp.is = "text" /\ disk.mcp.says = {}
               THEN plugin' = [plugin EXCEPT !.mcp = TRUE]
               ELSE Fails("mcp")
            /\ Goes("returned") /\ UNCHANGED <<todo, base>>

IntakeNext ==
    \/ \E is_dir \in BOOLEAN : Load(is_dir)
    \/ LoadManifest \/ ListBundles \/ CheckBundle \/ LoadBundle \/ RecordScripts \/ AfterBundles
    \/ CheckMcp \/ LoadMcp
    \/ \E file \in FileOf({}) : Replace("manifest", file) \/ Replace("mcp", file)
    \/ \E b \in Bundle, file \in BundleFile : ReplaceBundle(b, file)

IntakeSpec == IntakeInit /\ [][IntakeNext]_intakeVars

-----------------------------------------------------------------------------
(* Properties. *)

IntakeTypeOK ==
    /\ step \in {"idle", "manifest", "listing", "bundles", "bundle", "scripts", "mcp",
                 "mcp read", "returned", "raised"}
    /\ disk.manifest \in FileOf(ManifestFault) /\ disk.mcp \in FileOf(McpFault)
    /\ disk.bundle \in [Bundle -> BundleFile]
    /\ todo \subseteq Bundle /\ base \in {NoSkill} \cup BaseSkill
    /\ plugin.errors \subseteq {"plugin", "manifest", "mcp"} /\ plugin.failed \subseteq Bundle
    /\ touched \subseteq {"manifest", "mcp"} /\ replaced \subseteq Bundle

\* Whatever else in the directory is broken or replaced meanwhile, a load that returns has
\* an account of each part nobody touched: the manifest, mcp.json and each SKILL.md that is
\* good was loaded, once and whole, each that is not is an error, and no skill came in with
\* tools, trust or a clean lineage (loader.py, load_plugin: a fault in one component does not
\* prevent the others).  A load that raises, as int() does on a superscript digit in front
\* matter (frontmatter.py:118), has no account, though loader.py:238 says it never raises.
LoadIsAccounted ==
    (step = "returned" /\ "plugin" \notin plugin.errors) =>
        LET loaded == {plugin.skills[i].bundle : i \in DOMAIN plugin.skills}
        IN  /\ "manifest" \notin touched =>
                /\ plugin.manifest <=> disk.manifest.is = "text" /\ disk.manifest.says = {}
                /\ plugin.manifest <=> "manifest" \notin plugin.errors
            /\ "mcp" \notin touched =>
                /\ plugin.mcp <=> disk.mcp.is = "text" /\ disk.mcp.says = {}
                /\ disk.mcp.is # "absent" => (plugin.mcp <=> "mcp" \notin plugin.errors)
            /\ \A b \in Bundle \ replaced :
                disk.bundle[b].is = "text" =>
                    /\ b \in loaded <=> LoadsSkill(disk.bundle[b].says, "untrusted")
                    /\ b \in plugin.failed <=> ~LoadsSkill(disk.bundle[b].says, "untrusted")
            /\ \A i, j \in DOMAIN plugin.skills :
                plugin.skills[i].bundle = plugin.skills[j].bundle => i = j
            /\ \A i \in DOMAIN plugin.skills :
                LET s == plugin.skills[i]
                IN  /\ s.skill.trust = "untrusted" /\ ~s.skill.tools
                    /\ s.skill.taints = {"foreign_skill"}
                    /\ s.bundle \notin replaced =>
                        /\ s.skill.entries = Len(disk.bundle[s.bundle].says.lines)
                        /\ s.stripped_scripts = disk.bundle[s.bundle].says.scripts
=============================================================================
