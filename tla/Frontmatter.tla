----------------------------- MODULE Frontmatter -----------------------------
(***************************************************************************)
(* skills/frontmatter.py and what skills/loader.py makes of it: pure       *)
(* functions of a SKILL.md document.  A document is whether its two        *)
(* delimiters are there, the lines between them without the blank ones and *)
(* the comments, and the scripts beside it.  A line is an item, a pair of  *)
(* key and value, or text that is neither (a tab in the indentation, no    *)
(* colon, an empty key).                                                   *)
(***************************************************************************)
EXTENDS Guard, Integers, Sequences, FiniteSetsExt

CONSTANT FrontKey    \* keys

\* What a value is: nothing after the colon, a quoted blank, null, a number or a bool, a
\* string that is a tool's name, is none ("--"), is longer than a name or than a description
\* may be, an inline list of tools, of names that are none, of others or of nothing, a list
\* that is not closed, a quote that is not, and digits that int() or float() do not take (a
\* superscript, a number of thousands of digits), alone or in a list.
Text == {"str", "nameless", "long", "very long"}
Nameless == {"blank", "nameless", "nameless list", "empty list"}
Digits == {"digits", "digits list"}
ValueKind == Text \cup Nameless \cup Digits
    \cup {"none", "null", "other", "list", "mixed", "unclosed", "broken"}

Line == [indent : 0 .. 2, form : {"item", "pair", "text"}, key : FrontKey, value : ValueKind]

TopLines(lines) == {i \in DOMAIN lines : lines[i].indent = 0}

\* The indented lines that follow line j.
Block(lines, j) == {i \in DOMAIN lines : i > j /\ \A k \in j + 1 .. i : lines[k].indent > 0}

DistinctKeys(lines, at) == \A i, j \in at : lines[i].key = lines[j].key => i = j

\* _parse_block: one list, or one mapping of scalars, all indented alike.
BlockParses(lines, block) ==
    /\ \A i, j \in block : lines[i].indent = lines[j].indent /\ lines[i].form = lines[j].form
    /\ \A i \in block : lines[i].form # "text" /\ lines[i].value \notin {"none", "broken", "digits"}
    /\ (\A i \in block : lines[i].form = "pair") => DistinctKeys(lines, block)

\* parse_frontmatter raises nothing.
FrontmatterParses(lines) ==
    LET top == TopLines(lines)
    IN  /\ \A j \in top : /\ lines[j].form = "pair"
                          /\ lines[j].value \notin Digits \cup {"unclosed", "broken"}
                          /\ Block(lines, j) # {} => lines[j].value = "none"
                          /\ BlockParses(lines, Block(lines, j))
        /\ DistinctKeys(lines, top)
        /\ lines # << >> => lines[1].indent = 0

\* What parse_frontmatter raises is no SkillParseError: but for its digits the first line
\* with a fault had none.
ParseEscapes(lines) ==
    \E i \in DOMAIN lines :
        LET upto == SubSeq(lines, 1, i)
        IN  /\ lines[i].value \in Digits /\ ~FrontmatterParses(upto)
            /\ FrontmatterParses([upto EXCEPT ![i].value = "other"])

\* The value of the pair on line j.  In a block a bracket is a letter like any other.
ValueAt(lines, j) ==
    LET block == Block(lines, j)
        values == {lines[i].value : i \in block}
    IN  CASE \E i \in block : lines[i].form = "item" ->
                IF values \subseteq Nameless THEN "nameless list"
                ELSE IF values \cap {"null", "other"} = {} THEN "list" ELSE "mixed"
          [] \E i \in block : lines[i].form = "pair" -> "map"
          [] block = {} -> IF lines[j].value = "none" THEN "blank" ELSE lines[j].value

\* parse_frontmatter: each key with its value and how many lines it stands for.
ParseFrontmatter(lines) ==
    [key \in {lines[j].key : j \in TopLines(lines)} |->
        LET j == Max({i \in TopLines(lines) : lines[i].key = key})
        IN  [value |-> ValueAt(lines, j), size |-> 1 + Cardinality(Block(lines, j))]]

Entries(front) == MapThenSumSet(LAMBDA key : front[key].size, DOMAIN front)

-----------------------------------------------------------------------------
\* What _meta_from_frontmatter takes for a key; of the keys it reads only name must be there.
Takes ==
    [name |-> Text, description |-> Text \cup {"blank"}, license |-> Text \cup {"blank", "null"},
     allowed_tools |-> Text \cup Nameless \cup {"list"},
     compatibility |-> {"map"}, metadata |-> {"map"}]

MetaParses(front) ==
    /\ "name" \in DOMAIN front
    /\ \A key \in DOMAIN front \cap DOMAIN Takes : front[key].value \in Takes[key]

\* Skill._normalize_declared: a bare string is one tool, and names that come to nothing are
\* dropped before the model asks whether there are any.
DeclaresTools(front) ==
    "allowed_tools" \in DOMAIN front /\ front["allowed_tools"].value \notin Nameless

\* The lengths that the Skill model allows.
FitsSkill(front) ==
    /\ front["name"].value \notin {"long", "very long"}
    /\ "description" \in DOMAIN front => front["description"].value # "very long"

MayContributeTools == {"builtin", "verified"}

\* split_frontmatter returns: both delimiters are there.
Splits(doc) == doc.delimited

\* load_skill raises what is no error of its own.
SkillEscapes(doc) == Splits(doc) /\ ParseEscapes(doc.lines)

\* load_skill returns: the Skill model refuses what is too long, and tools below the trusted
\* tiers.
LoadsSkill(doc, trust) ==
    /\ Splits(doc)
    /\ FrontmatterParses(doc.lines)
    /\ MetaParses(ParseFrontmatter(doc.lines)) /\ FitsSkill(ParseFrontmatter(doc.lines))
    /\ DeclaresTools(ParseFrontmatter(doc.lines)) => trust \in MayContributeTools

\* _lineage_for: untrusted sources are admitted with no allowlist.
LineageFor(trust) ==
    IF trust \in MayContributeTools THEN {}
    ELSE Admit("foreign_skill", {}, {}, {}).taints

SkillOf(doc, trust) ==
    LET front == ParseFrontmatter(doc.lines)
    IN  [trust |-> trust, taints |-> LineageFor(trust), tools |-> DeclaresTools(front),
         entries |-> Entries(front)]
=============================================================================
