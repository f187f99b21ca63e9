-------------------------------- MODULE Guard --------------------------------
(***************************************************************************)
(* What every boundary of the house shares: tool names and the one form    *)
(* they are compared in, guard/allowlist.py and guard/untrusted.py.  A     *)
(* name is written in some Spelling; normalize_tool_name gives its one     *)
(* canonical form, or Blank when nothing of it is left.                    *)
(***************************************************************************)
EXTENDS FiniteSets

CONSTANTS
    Spelling,       \* tool names as hosts, servers, peers and pages write them
    Tool,           \* the canonical ones
    Blank,          \* the empty string
    Canonical,      \* normalize_tool_name
    DangerousTools, \* DANGEROUS_TOOLS
    NotDeclared     \* None

ASSUME SpellingAssumption ==
    /\ Tool \subseteq Spelling
    /\ Blank \notin Tool
    /\ Canonical \in [Spelling -> Tool \cup {Blank}]
    /\ \A t \in Tool : Canonical[t] = t

\* A name that normalises to nothing is no name.
Names(spelled) == {Canonical[s] : s \in spelled} \ {Blank}

\* The tools that may be used of those declared; their order is left out.
EffectiveTools(fixed_allowlist, declared) ==
    ((IF declared = NotDeclared THEN Names(fixed_allowlist) ELSE Names(declared))
        \cap Names(fixed_allowlist)) \ DangerousTools

\* The taint each kind of source brings with it.
SourceKind == {"foreign_skill", "plugin", "mcp_server", "web_page"}
TaintForKind(kind) == IF kind = "web_page" THEN "canvas_read" ELSE "foreign_skill"

\* admit: what a source declares, narrowed, and its lineage with one more taint.
Admit(kind, declared, fixed_allowlist, taints) ==
    [tools |-> EffectiveTools(fixed_allowlist, declared),
     taints |-> taints \cup {TaintForKind(kind)}]
=============================================================================
