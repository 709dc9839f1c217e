---------------------------- MODULE UniverseBuild -----------------------------
(* The point-in-time universe of a day: the tickers listed on that date, their *)
(* lagged overviews and prior closes become records                            *)
(* (build_point_in_time_universe, trainer/universe_builder.py), the records    *)
(* become decided securities, one per issuer and one per identity, and their   *)
(* manifest says whether the day can be evidence (build_research_manifest,     *)
(* trainer/universe_manifest.py).  What is written once is what every later    *)
(* launch of the day reads.                                                    *)
EXTENDS Integers, FiniteSets

CONSTANTS
    Rows,           \* rows of the ticker list, numbered as their tickers sort
    Facts,          \* per row, what the reference data and the prior close say
    SmokeTickers,   \* max_tickers of a smoke run
    MaxBuilds       \* bound: launches that ask for the universe

(* Facts[r]: identity ("NONE": no identifier), cik and figi of the issuer      *)
(* ("NONE": none), dated (list_date is known), late (listed after the lagged   *)
(* date), barred (venue, type, SPAC, price ...), traded in the prior session,  *)
(* volume of that session, fits (its market cap is in range).                  *)
ASSUME UniverseAssumption ==
    /\ Rows \subseteq Nat /\ IsFiniteSet(Rows) /\ SmokeTickers \in Nat \ {0}
    /\ MaxBuilds \in Nat
    /\ \A r \in Rows : /\ Facts[r].volume \in Nat
                       /\ Facts[r].late => Facts[r].dated
                       /\ Facts[r].identity = "NONE" =>
                              Facts[r].cik = "NONE" /\ Facts[r].figi = "NONE"

VARIABLES
    universeFile,   \* daily_universe_manifest.json
    build,          \* the launch that builds it
    builds
universeVars == <<universeFile, build, builds>>

-----------------------------------------------------------------------------
Overviews == {"shares", "no_shares", "future_period", "definitive", "transient"}
Gaps == {"OVERVIEW_FETCH_FAILED", "LISTING_DATE_MISSING", "SHARES_PERIOD_AFTER_REPLAY_DATE"}

\* no overview is asked for a security listed after the lagged date
HasShares(r, view) == ~Facts[r].late /\ view[r] \in {"shares", "future_period"}

Say(condition, reason) == IF condition THEN {reason} ELSE {}

\* what the builder finds against a row; the market cap is shares times prior
\* close
BuilderReasons(r, view) ==
    LET late == Facts[r].late
    IN  Say(~Facts[r].traded, "NO_PRIOR_SESSION_TRADE")
        \cup Say(late, "LISTED_AFTER_LAGGED_DATE")
        \cup Say(~late /\ view[r] = "definitive", "OVERVIEW_UNAVAILABLE_AT_LAGGED_DATE")
        \cup Say(~late /\ view[r] = "transient", "OVERVIEW_FETCH_FAILED")
        \cup Say(~late /\ view[r] = "no_shares", "OVERVIEW_NO_SHARE_COUNT")
        \cup Say(~late /\ view[r] = "future_period", "SHARES_PERIOD_AFTER_REPLAY_DATE")
        \cup Say(HasShares(r, view) /\ Facts[r].traded /\ ~Facts[r].fits,
                 "MARKET_CAP_OUT_OF_RANGE")

\* _evaluate_record() adds its own; where nothing else is against a row its
\* market cap is known and was in range
Reasons(r, view) ==
    BuilderReasons(r, view)
    \cup Say(Facts[r].barred, "BARRED")
    \cup Say(Facts[r].identity = "NONE", "STABLE_SECURITY_ID_MISSING")
    \cup Say(~Facts[r].dated /\ view[r] = "transient", "LISTING_DATE_MISSING")

Includable(listed, view) == {r \in listed : Reasons(r, view) = {}}

-----------------------------------------------------------------------------
\* mutant: an issuer is its CIK
SameCik(r, s) == Facts[r].cik # "NONE" /\ Facts[r].cik = Facts[s].cik

SameIssuer(r, s) ==
    \/ Facts[r].cik # "NONE" /\ Facts[r].cik = Facts[s].cik
    \/ Facts[r].figi # "NONE" /\ Facts[r].figi = Facts[s].figi

\* the rows of one issuer: the closure of sharing an identifier
IssuerOf(S, r) ==
    CHOOSE G \in SUBSET S :
        /\ r \in G /\ \A s \in G, u \in S : SameIssuer(s, u) => u \in G
        /\ \A H \in SUBSET G :
               (r \in H /\ \A s \in H, u \in S : SameIssuer(s, u) => u \in H) => H = G

\* the class that traded most is kept, the first ticker among equals
MoreTraded(r, s) ==
    Facts[r].volume > Facts[s].volume \/ (Facts[r].volume = Facts[s].volume /\ r < s)
OneClassPerIssuer(S) ==
    {r \in S : \A s \in IssuerOf(S, r) \ {r} : MoreTraded(r, s)}

\* one row per identity, the one that comes first in the response
OnePerIdentity(S) ==
    {K \in SUBSET S : \A r \in S : Cardinality({k \in K : Facts[k].identity = Facts[r].identity}) = 1}

\* a row nobody can decide makes the universe incomplete, as does a lost answer
Undecided(listed, view) == {r \in listed : Reasons(r, view) # {} /\ Reasons(r, view) \subseteq Gaps}
ProviderComplete(listed, view) ==
    \A r \in listed : Facts[r].late \/ view[r] # "transient"
Coverage(listed, view) ==
    IF listed = {} \/ Undecided(listed, view) # {} \/ ~ProviderComplete(listed, view)
    THEN "incomplete" ELSE "complete"

-----------------------------------------------------------------------------
NoFile == [listed |-> {}, view |-> <<>>, included |-> {}, coverage |-> "NONE",
           evidence |-> FALSE, smoke |-> FALSE]
NoBuild == [stage |-> "down", smoke |-> FALSE, listed |-> {}, view |-> <<>>, draft |-> NoFile]

UniverseInit == universeFile = NoFile /\ build = NoBuild /\ builds = 0

StartBuild(smoke) ==
    /\ build.stage = "down" /\ builds < MaxBuilds /\ universeFile = NoFile
    /\ build' = [NoBuild EXCEPT !.stage = "list", !.smoke = smoke]
    /\ builds' = builds + 1
    /\ UNCHANGED universeFile

\* a manifest that is there is read, or refused if it answers another question
ReadBuild ==
    /\ build.stage = "down" /\ builds < MaxBuilds /\ universeFile # NoFile
    /\ builds' = builds + 1
    /\ UNCHANGED <<universeFile, build>>

\* a smoke run takes the first tickers
ListTickers(answer) ==
    /\ build.stage = "list"
    /\ build' = [build EXCEPT !.stage = "overviews", !.listed =
           IF build.smoke
           THEN {r \in answer : Cardinality({s \in answer : s < r}) < SmokeTickers}
           ELSE answer]
    /\ UNCHANGED <<universeFile, builds>>

\* TickerOverviewCache.get_many(): an answer, a definitive miss or an error each
FetchOverviews(view) ==
    /\ build.stage = "overviews" /\ DOMAIN view = build.listed
    /\ build' = [build EXCEPT !.stage = "decide", !.view = view]
    /\ UNCHANGED <<universeFile, builds>>

DecideSecurities ==
    /\ build.stage = "decide"
    /\ \E kept \in OnePerIdentity(OneClassPerIssuer(Includable(build.listed, build.view))) :
           build' = [build EXCEPT !.stage = "persist", !.draft =
              [listed |-> build.listed, view |-> build.view, included |-> kept,
               coverage |-> Coverage(build.listed, build.view),
               evidence |-> Coverage(build.listed, build.view) = "complete" /\ ~build.smoke,
               smoke |-> build.smoke]]
    /\ UNCHANGED <<universeFile, builds>>

\* written to a temporary file and renamed
PersistManifest ==
    /\ build.stage = "persist"
    /\ universeFile' = build.draft /\ build' = NoBuild
    /\ UNCHANGED builds

\* a query fails, or the process stops: the next launch starts anew
BuildStops ==
    /\ build.stage # "down" /\ build' = NoBuild
    /\ UNCHANGED <<universeFile, builds>>

UniverseNext ==
    \/ \E smoke \in BOOLEAN : StartBuild(smoke)
    \/ ReadBuild \/ DecideSecurities \/ PersistManifest \/ BuildStops
    \/ \E answer \in SUBSET Rows : ListTickers(answer)
    \/ \E view \in [build.listed -> Overviews] : FetchOverviews(view)

UniverseSpec == UniverseInit /\ [][UniverseNext]_universeVars

-----------------------------------------------------------------------------
(* Properties.                                                                 *)

\* The type invariant.
UniverseTypeOK ==
    /\ universeFile.included \subseteq universeFile.listed /\ universeFile.listed \subseteq Rows
    /\ universeFile.coverage \in {"NONE", "complete", "incomplete"}
    /\ universeFile.evidence \in BOOLEAN /\ universeFile.smoke \in BOOLEAN
    /\ build.stage \in {"down", "list", "overviews", "decide", "persist"}
    /\ build.smoke \in BOOLEAN /\ build.listed \subseteq Rows
    /\ builds \in 0..MaxBuilds

Related(r, s) == SameIssuer(r, s) \/ Facts[r].identity = Facts[s].identity

\* A company is in the universe once, and is not lost to its own duplicates: no
\* two included rows share an issuer or an identity, although the two rules are
\* applied one after the other, and an includable row that is left out is
\* related, over rows that were includable, to one that is in.  A complete
\* universe rests on answers only: every row was included or excluded for a
\* definitive reason, and evidence is complete and no smoke run.
UniverseSound ==
    universeFile # NoFile =>
        LET includable == Includable(universeFile.listed, universeFile.view)
        IN  /\ \A r, s \in universeFile.included :
                   r # s => Facts[r].identity # Facts[s].identity
                            /\ (Facts[r].cik = Facts[s].cik => Facts[r].cik = "NONE")
                            /\ (Facts[r].figi = Facts[s].figi => Facts[r].figi = "NONE")
            /\ \A G \in SUBSET includable :
                   (G # {} /\ \A r \in G, s \in includable : Related(r, s) => s \in G)
                       => G \cap universeFile.included # {}
            /\ universeFile.coverage = "complete" =>
                   \A r \in universeFile.listed :
                       /\ Facts[r].late \/ universeFile.view[r] # "transient"
                       /\ r \in universeFile.included \/ r \in includable
                              \/ \E reason \in Reasons(r, universeFile.view) : reason \notin Gaps
            /\ universeFile.evidence => universeFile.coverage = "complete" /\ ~universeFile.smoke
=============================================================================
