------------------------------ MODULE TagCatalog ------------------------------
(***************************************************************************)
(* The tag table of SaltMDB: how a submitted tag name is resolved to a     *)
(* row, how tags are merged into one another by an agent or by the         *)
(* librarian's maintenance pass, how the derived #core tag follows the     *)
(* is_core flag, and what a search by tag name finds afterwards            *)
(* (domain/services/memory_service/tags.py, librarian_service.py).         *)
(*                                                                         *)
(* Every operation is one job of the database writer, so it is one step.   *)
(***************************************************************************)
EXTENDS Integers, Sequences, FiniteSets

CONSTANTS
    TagNames,       \* the names an agent may submit and the legacy rows carry
    CoreName,       \* "#core"
    SanitizedName,  \* what sanitize_tag_body makes of a name
    NormalForm,     \* a name without "#", "-", "_" and case
    PluralStem,     \* its normal form without trailing "s"; 0 for three characters or less
    TaggedMemories, \* the memories
    TagLists,       \* the lists of names a call may carry
    LegacyTables,   \* the names of rows older than the resolution rules
    OtherRaw,       \* raw memories that carry no tags
    TagCooldown     \* LIBRARIAN_TRIGGER_COOLDOWN_S, in ticks

\* A sanitized name is left as it is (tags.py:33-47); the plural rule looks at the
\* normal form only (tags.py:154-163); tags.name is UNIQUE (schema.py:984), and
\* the older rows differ from their sanitized names in "-", "_" and case.  A call
\* carries two names at most: the bound of LinkNames and MergeTags.
ASSUME TagAssumption ==
  /\ SanitizedName \in [TagNames -> TagNames]
  /\ \A n \in TagNames : SanitizedName[SanitizedName[n]] = SanitizedName[n]
  /\ CoreName \in TagNames /\ SanitizedName[CoreName] = CoreName
  /\ \A m, n \in TagNames : NormalForm[m] = NormalForm[n] => PluralStem[m] = PluralStem[n]
  /\ \A names \in TagLists : names \in Seq(TagNames) /\ Len(names) <= 2
  /\ \A names \in LegacyTables :
       /\ names \in Seq(TagNames)
       /\ \A i, j \in DOMAIN names : names[i] = names[j] => i = j
       /\ \A i \in DOMAIN names : NormalForm[SanitizedName[names[i]]] = NormalForm[names[i]]
  /\ TaggedMemories \cap {"pass", "other"} = {}

VARIABLES
    tagRows,   \* the table tags in row order; a row's index is its id
    links,     \* the table entity_tags
    isCore,    \* the flag entities.is_core
    submitted, \* per memory, the names its last write of tags carried (history)
    lastOp,    \* the memory last stored, "pass" or "other" (history)
    sinceRun   \* ticks since last_run_at of 'librarian_consolidation' (saturating)

tagVars == <<tagRows, links, isCore, submitted, lastOp, sinceRun>>

NoTag == 0

Written == DOMAIN submitted

-----------------------------------------------------------------------------
(* Resolution.                                                              *)

FirstRow(ids) == CHOOSE i \in ids : \A j \in ids : i <= j

\* Rows that a name matches, by the first of the three rules that matches any.
MatchingRows(rows, n) ==
    LET exact  == {i \in DOMAIN rows : rows[i].name = n}
        normal == {i \in DOMAIN rows : NormalForm[rows[i].name] = NormalForm[n]}
        plural == {i \in DOMAIN rows :
                     PluralStem[n] # 0 /\ PluralStem[rows[i].name] = PluralStem[n]}
    IN  IF exact # {} THEN exact ELSE IF normal # {} THEN normal ELSE plural

\* An alias is followed one hop, at every lookup.
OneHop(rows, i) == IF rows[i].canon # NoTag THEN rows[i].canon ELSE i

ResolveOrCreateTag(rows, raw) ==
    LET n    == SanitizedName[raw]
        hits == MatchingRows(rows, n)
    IN  IF hits # {}
        THEN [rows |-> rows, id |-> OneHop(rows, FirstRow(hits))]
        ELSE [rows |-> Append(rows, [name |-> n, canon |-> NoTag]),
              id   |-> Len(rows) + 1]

\* merge_tags looks names up without sanitizing them.
ResolveTagId(rows, n) ==
    LET hits == {i \in DOMAIN rows : rows[i].name = n}
    IN  IF hits = {} THEN NoTag ELSE OneHop(rows, FirstRow(hits))

\* The ids a search filter on the name n accepts.
ExpandSearchTag(rows, n) ==
    UNION {LET main == OneHop(rows, i)
           IN  {i, main} \cup {j \in DOMAIN rows : rows[j].canon = main} :
           i \in {k \in DOMAIN rows : rows[k].name = n}}

FoundByTag(n) == {e \in TaggedMemories :
                    \E t \in ExpandSearchTag(tagRows, n) : <<e, t>> \in links}

\* search_tags lists the rows that are nobody's alias.
CanonicalTags(rows) == {i \in DOMAIN rows : rows[i].canon = NoTag}

-----------------------------------------------------------------------------
(* Writing the tags of a memory.                                            *)

\* The memory's rows after the names of a list have been resolved in turn.
LinkNames(rows, old, e, names) ==
    LET first  == ResolveOrCreateTag(rows, names[1])
        second == IF Len(names) > 1 THEN ResolveOrCreateTag(first.rows, names[2]) ELSE first
    IN  IF names = <<>>
        THEN [rows |-> rows, links |-> old]
        ELSE [rows |-> second.rows, links |-> old \cup {<<e, first.id>>, <<e, second.id>>}]

\* The derived #core link follows the flag; it runs on every write of a memory.
SyncCoreTag(w, e, core) ==
    LET r == ResolveOrCreateTag(w.rows, CoreName)
    IN  [rows |-> r.rows,
         links |-> IF core THEN w.links \cup {<<e, r.id>>} ELSE w.links \ {<<e, r.id>>}]

\* store_memory with a list of tags: the old links go, the new ones come.
StoreWithTags(e, names, core) ==
    LET w == SyncCoreTag(LinkNames(tagRows, {l \in links : l[1] # e}, e, names), e, core)
    IN  /\ tagRows' = w.rows
        /\ links' = w.links
        /\ isCore' = [isCore EXCEPT ![e] = core]
        /\ submitted' = [x \in Written \cup {e} |->
                            IF x = e THEN {names[i] : i \in DOMAIN names} ELSE submitted[x]]
        /\ lastOp' = e
        /\ UNCHANGED sinceRun

\* A write that carries no tags keeps the links and only synchronises #core.
StoreWithoutTags(e) ==
    LET w == SyncCoreTag([rows |-> tagRows, links |-> links], e, isCore[e])
    IN  /\ e \in Written
        /\ tagRows' = w.rows
        /\ links' = w.links
        /\ lastOp' = e
        /\ UNCHANGED <<isCore, submitted, sinceRun>>

\* A successor that inherits its predecessor's tags resolves their names afresh
\* (never #core); a core successor gets the #core link.  It stands in e's place.
ReviseInheriting(e, core) ==
    LET mine  == {l \in links : l[1] = e /\ tagRows[l[2]].name # CoreName}
        fresh == {<<e, ResolveOrCreateTag(tagRows, tagRows[l[2]].name).id>> : l \in mine}
        rest  == {l \in links : l[1] # e}
        w     == ResolveOrCreateTag(tagRows, CoreName)
    IN  /\ e \in Written
        /\ links' = rest \cup fresh \cup (IF core THEN {<<e, w.id>>} ELSE {})
        /\ tagRows' = w.rows
        /\ isCore' = [isCore EXCEPT ![e] = core]
        /\ submitted' = [submitted EXCEPT ![e] = {tagRows[l[2]].name : l \in mine}]
        /\ lastOp' = "other"
        /\ UNCHANGED sinceRun

\* review_core_memory's demotion removes the link to the row named #core itself.
DemoteCore(e) ==
    /\ isCore[e]
    /\ isCore' = [isCore EXCEPT ![e] = FALSE]
    /\ links' = {l \in links : ~(l[1] = e /\ tagRows[l[2]].name = CoreName)}
    /\ lastOp' = "other"
    /\ UNCHANGED <<tagRows, submitted, sinceRun>>

-----------------------------------------------------------------------------
(* Merging.                                                                 *)

\* Seeded fault: a link that cannot be moved is dropped with the alias's others.
RepointDropped(ls, alias, canon) == {l \in ls : l[2] # alias}

\* UPDATE OR IGNORE, DELETE of the links that collided, UPDATE of what is left.
RepointLinks(ls, alias, canon) ==
    LET moved    == {l \in ls : l[2] = alias /\ <<l[1], canon>> \notin ls}
        collided == {l \in ls : l[2] = alias /\ <<l[1], canon>> \in ls}
    IN  (ls \ (moved \cup collided)) \cup {<<l[1], canon>> : l \in moved}

MergeInto(w, alias, canon) ==
    [rows  |-> [w.rows EXCEPT ![alias].canon = canon],
     links |-> RepointLinks(w.links, alias, canon)]

\* One name of the list: merged, or skipped as unknown or already canonical.
MergeName(w, n, canon) ==
    LET alias == ResolveTagId(w.rows, n)
    IN  IF alias \in {NoTag, canon} THEN w ELSE MergeInto(w, alias, canon)

\* merge_tags: an unknown tag to keep is a rejection that changes nothing.
MergeTags(keep, names) ==
    LET canon == ResolveTagId(tagRows, keep)
        start == [rows |-> tagRows, links |-> links]
        one   == MergeName(start, names[1], canon)
        all   == IF Len(names) > 1 THEN MergeName(one, names[2], canon) ELSE one
    IN  /\ canon # NoTag
        /\ names # <<>>
        /\ tagRows' = all.rows
        /\ links' = all.links
        /\ lastOp' = "other"
        /\ UNCHANGED <<isCore, submitted, sinceRun>>

\* The row the pass merges row i into: the first canonical row of its normal form.
HeuristicTarget(rows, i) ==
    IF rows[i].canon # NoTag
    THEN i
    ELSE FirstRow({j \in DOMAIN rows :
                     rows[j].canon = NoTag /\ NormalForm[rows[j].name] = NormalForm[rows[i].name]})

\* merge_tags_heuristics: every group of canonical rows with one normal form.
MergeTagsHeuristics ==
    LET target(i) == HeuristicTarget(tagRows, i)
    IN  /\ tagRows' = [i \in DOMAIN tagRows |->
                         IF target(i) = i THEN tagRows[i]
                                          ELSE [tagRows[i] EXCEPT !.canon = target(i)]]
        /\ links' = {<<l[1], target(l[2])>> : l \in links}
        /\ lastOp' = "pass"

\* The automatic pass: two memories at least, and the cooldown claimed in the same job.
AutomaticPass ==
    /\ Cardinality(Written) + OtherRaw >= 2
    /\ sinceRun = TagCooldown
    /\ sinceRun' = 0
    /\ MergeTagsHeuristics
    /\ UNCHANGED <<isCore, submitted>>

\* run_librarian_now forces a pass and leaves the cooldown alone.
ForcedPass ==
    /\ MergeTagsHeuristics
    /\ UNCHANGED <<isCore, submitted, sinceRun>>

CooldownTick ==
    /\ sinceRun < TagCooldown
    /\ sinceRun' = sinceRun + 1
    /\ UNCHANGED <<tagRows, links, isCore, submitted, lastOp>>

-----------------------------------------------------------------------------
(* The table may hold rows older than the resolution rules.                 *)

TagInit ==
    /\ tagRows \in {[i \in DOMAIN names |-> [name |-> names[i], canon |-> NoTag]] :
                      names \in LegacyTables}
    /\ links = {}
    /\ isCore = [e \in TaggedMemories |-> FALSE]
    /\ submitted = [e \in {} |-> {}]
    /\ lastOp = "other"
    /\ sinceRun = TagCooldown

TagNext ==
    \/ \E e \in TaggedMemories, names \in TagLists, core \in BOOLEAN :
          StoreWithTags(e, names, core)
    \/ \E e \in TaggedMemories : StoreWithoutTags(e) \/ DemoteCore(e)
    \/ \E e \in TaggedMemories, core \in BOOLEAN : ReviseInheriting(e, core)
    \/ \E keep \in TagNames, names \in TagLists : MergeTags(keep, names)
    \/ AutomaticPass
    \/ ForcedPass
    \/ CooldownTick

TagSpec == TagInit /\ [][TagNext]_tagVars

-----------------------------------------------------------------------------
(* Properties.                                                              *)

\* The rows a row leads to, itself included, however long the chain of aliases.
ChainOf(rows, i) ==
    LET reach[k \in 0..Len(rows)] ==
          IF k = 0 THEN {i} ELSE reach[k - 1] \cup {OneHop(rows, j) : j \in reach[k - 1]}
    IN  reach[Len(rows)]

RowOfName(n) == FirstRow(MatchingRows(tagRows, SanitizedName[n]))

\* Tags that were merged with #core, either way, are the server's own to remove.
MeetsCore(i) ==
    LET core == MatchingRows(tagRows, CoreName)
    IN  core # {} /\ ChainOf(tagRows, i) \cap ChainOf(tagRows, FirstRow(core)) # {}

\* No alias leads to a row that is itself an alias.
NoAliasChains ==
    \A i \in DOMAIN tagRows : OneHop(tagRows, i) \in CanonicalTags(tagRows)

\* However tags are merged, by agents or by the librarian, in one job or in many,
\* a memory stays linked to the tag it was given or to the one that tag was merged
\* into, and a search by the tag's name finds it: UPDATE OR IGNORE, DELETE and
\* UPDATE together lose no link, also when the memory carries the alias and the
\* canonical tag, and the search accepts a tag, its canonical row and the aliases
\* of that row (librarian_service.py:252-263, orchestrator.py:643-654).  It holds
\* as long as no alias leads to an alias.
NoTagLost ==
    NoAliasChains =>
        \A e \in Written : \A n \in submitted[e] :
            LET i == RowOfName(n)
            IN  MeetsCore(i) \/ e \in FoundByTag(tagRows[i].name)

\* A write of a memory leaves it linked to the row #core resolves to if and only
\* if the memory is core (write.py:646-665: "the two can never drift apart").
CoreLinkFollowsFlag ==
    lastOp \in TaggedMemories =>
        LET t == ResolveOrCreateTag(tagRows, CoreName).id
        IN  (<<lastOp, t>> \in links) <=> isCore[lastOp]

\* A maintenance pass leaves one canonical row per normal form and never hides a
\* tag: a row leads to a canonical row after the pass if it did before
\* (librarian_service.py:174-187).
PassUnifies ==
    [][lastOp' = "pass"
         => /\ \A i, j \in CanonicalTags(tagRows') :
                 NormalForm[tagRows'[i].name] = NormalForm[tagRows'[j].name] => i = j
            /\ \A i \in DOMAIN tagRows :
                 ChainOf(tagRows, i) \cap CanonicalTags(tagRows) # {}
                   => ChainOf(tagRows', i) \cap CanonicalTags(tagRows') # {}]_tagVars

\* A memory stays findable by each tag it was given, #core follows the core flag, and a pass of
\* the librarian leaves one canonical tag per normal form, whatever was aliased in between.
TagsKept == [](NoTagLost /\ CoreLinkFollowsFlag) /\ PassUnifies

=============================================================================
