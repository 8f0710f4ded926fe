--------------------------- MODULE StrategyRules ---------------------------
(***************************************************************************)
(* The pure part of the strategy engine and of the configuration: how a    *)
(* request becomes a configuration, what a patch does to a generated       *)
(* strategy, how config.py expands the file it loads and what the          *)
(* configuration panel writes.                                             *)
(*                                                                         *)
(* The focus areas, entities and keywords of a configuration are one set   *)
(* of tokens: two spellings the code deduplicates (strip, lower) are one   *)
(* token, and a token knows which of the three lists it belongs to.  The   *)
(* news feed the generator makes from a token is named by the token.  The  *)
(* requests are smaller than the caps on feeds (12 and 20) and pages (6).  *)
(***************************************************************************)
EXTENDS Naturals, Sequences, FiniteSets

CONSTANTS
    Tokens,     \* focus areas, entities, keywords
    Keywords,   \* the tokens that are keywords
    Urls,       \* source links
    RssLike     \* the urls config.py takes for a feed by their spelling

ASSUME StrategyRulesAssumption ==
    /\ Keywords \subseteq Tokens
    /\ Tokens \cap Urls = {}
    /\ RssLike \subseteq Urls

Kinds == {"rss", "page"}
Places == Tokens \cup Urls
Sources == [url : Places, kind : Kinds]
Links == [url : Places, type : Kinds \cup {"auto"}]

\* A configuration: the tokens of its strategy profile, the tokens and the
\* links of its domain profiles, its sources, the panel edit its LLM, schedule,
\* TTS and notification settings come from, and the one its briefing and
\* browser settings come from, 0 for the defaults.
Configs == [named : SUBSET Tokens, profile : SUBSET Tokens, links : SUBSET Links,
            sources : SUBSET Sources, carried : Nat, styled : Nat]

\* A generated strategy: was it requested by form or as text, the links of its
\* ui_input, the tokens of its parsed intent and mapping, its source queries,
\* its configuration.
Generations == [form : BOOLEAN, uiLinks : SUBSET Places, listed : SUBSET Tokens,
                queries : SUBSET Tokens, config : Configs]

\* A request: the tokens a form names or the parser finds in a text, its links,
\* and the keywords the domain mapper recommends for it, never none.
Requests == [form : BOOLEAN, tokens : SUBSET Tokens, links : SUBSET Links,
             tags : (SUBSET Keywords) \ {{}}]

-----------------------------------------------------------------------------
(* Loading.                                                                *)

\* How a link is read: its type if it has one, else by its spelling.
SourceOf(link) ==
    [url |-> link.url,
     kind |-> IF link.type # "auto" THEN link.type
              ELSE IF link.url \in Tokens \cup RssLike THEN "rss" ELSE "page"]

\* Mutant of Expand: the strategy profile replaces the profiles' tokens.
ExpandForgets(c) ==
    [c EXCEPT !.sources = @ \cup {SourceOf(l) : l \in c.links}, !.profile = c.named]

\* load_config: the links of the profiles become sources, their tokens join
\* the strategy profile.
Expand(c) ==
    [c EXCEPT !.sources = @ \cup {SourceOf(l) : l \in c.links},
              !.named = @ \cup c.profile]

\* What the filter, the extractor and the retrieval look for.
Effective(c) == c.named \cup c.profile

-----------------------------------------------------------------------------
(* Generating.                                                             *)

News(tokens) == {[url |-> t, kind |-> "rss"] : t \in tokens}

\* What a configuration names: the tags stand in for keywords no form gives.
Named(request) ==
    IF request.form /\ request.tokens \cap Keywords # {} THEN request.tokens
    ELSE request.tokens \cup request.tags

\* The generator keeps the sections of its base configuration it knows of; the
\* briefing and browser sections are not among them.
TextConfig(request, base) ==
    LET sources == News(request.tokens \ Keywords)
                   \cup {[url |-> l.url, kind |-> "page"] : l \in request.links}
    IN  [named |-> Named(request), profile |-> Named(request),
         links |-> {[url |-> s.url, type |-> "auto"] : s \in sources},
         sources |-> sources, carried |-> base.carried, styled |-> 0]

\* With links of its own a form leaves the sources to the next loading.
FormConfig(request, base) ==
    LET generated == TextConfig([request EXCEPT !.links = {}], base)
    IN  IF request.links = {} THEN generated
        ELSE [generated EXCEPT !.links = request.links, !.sources = {}]

Config(request, base) ==
    IF request.form THEN FormConfig(request, base) ELSE TextConfig(request, base)

UrlsOf(links) == {l.url : l \in links}

\* The lists of the parsed intent and the tags of the mapping: the keywords of a
\* form are in neither, the tags are there even if the form has keywords.
Listed(request) == (request.tokens \ Keywords) \cup request.tags

\* What the domain mapper asks the news feeds for: focus areas and entities.
Queried(request) == request.tokens \ Keywords

\* The links of the form, or those a text led to.
UiLinks(request, config) == UrlsOf(IF request.form THEN request.links ELSE config.links)

\* _build_generation.
Generate(request, base) ==
    LET config == Config(request, base)
    IN  [form |-> request.form, uiLinks |-> UiLinks(request, config),
         listed |-> Listed(request), queries |-> Queried(request), config |-> config]

\* The links a suggestion is asked for: those nobody knows yet.
KnownLinks(stored, base) ==
    IF stored # {} THEN stored
    ELSE IF base.links # {} THEN UrlsOf(base.links)
    ELSE {s.url : s \in base.sources}

NewLinks(request, known) == {l \in request.links : l.url \notin known}

\* Mutant of Resolve: the recommended parser is taken for the type.
ResolveUnsanitized(link, advised) ==
    [url |-> advised.url, type |-> IF advised.type = "page" THEN "html_parser" ELSE advised.type]

\* The suggested link, with the type the user forced.
Resolve(link, advised) ==
    [url |-> advised.url, type |-> IF link.type # "auto" THEN link.type ELSE advised.type]

-----------------------------------------------------------------------------
(* Patching.  A patch adds, removes or updates one token: "out" is what it *)
(* takes away and "in" what it puts there, each empty or one token.        *)

Patches == [out : SUBSET Tokens, in : SUBSET Tokens]

IsUpdate(p) == p.out # {} /\ p.in # {}

\* An update to a value that is there only removes the old one.
Patched(values, p) == (values \ p.out) \cup (p.in \ values)

\* An update of a value the list does not have is an error.
Refused(g, p) == IsUpdate(p) /\ p.out \cap g.listed = {}

Changed(g, p) == Patched(g.listed, p) # g.listed

\* A patch of keywords does not ask for its tokens as queries.
SyncedQueries(g, p, listed) ==
    Patched(g.queries, p)
        \cup (IF p.out \cup p.in \subseteq Keywords THEN {} ELSE listed \ Keywords)

\* The news feeds follow the queries, unless the strategy came from a form
\* with links.
SyncedSources(g, queries) ==
    IF g.form /\ g.uiLinks # {} THEN g.config.sources
    ELSE {s \in g.config.sources : s.url \notin Tokens} \cup News(queries)

\* Mutant of ApplyPatch: the patch replaces the tokens of the profiles too.
ApplyPatchToProfile(g, p) ==
    LET listed == Patched(g.listed, p)
        queries == SyncedQueries(g, p, listed)
    IN  [g EXCEPT !.listed = listed, !.queries = queries,
                  !.config.named = listed, !.config.profile = listed,
                  !.config.sources = SyncedSources(g, queries)]

\* _apply_patch: the strategy profile becomes the patched lists of the intent
\* and the mapping; the domain profiles stay.
ApplyPatch(g, p) ==
    LET listed == Patched(g.listed, p)
        queries == SyncedQueries(g, p, listed)
    IN  [g EXCEPT !.listed = listed, !.queries = queries,
                  !.config.named = listed,
                  !.config.sources = SyncedSources(g, queries)]

-----------------------------------------------------------------------------
(* The panel.  The form it shows holds the profiles of the file; what it   *)
(* saves leaves the sources to the next loading.                           *)

PanelConfig(shown, edit) ==
    [named |-> shown.profile, profile |-> shown.profile, links |-> shown.links,
     sources |-> {}, carried |-> edit, styled |-> edit]

\* The imported section files are written before the file that imports them.
SectionsSaved(c, edit) == [c EXCEPT !.sources = {}, !.carried = edit]
=============================================================================
