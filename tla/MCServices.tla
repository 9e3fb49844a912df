----------------------------- MODULE MCServices -----------------------------
(***************************************************************************)
(* Small instances of the modules an application calls for its own control *)
(* flow: publish and subscribe (PubSub, PubSubTiny), buttons (Button), the *)
(* command line (Cli), power management callbacks (Pm), runners (Runner)   *)
(* and the framing and text codecs (Codecs). One module explores them side *)
(* by side: sel, chosen in the initial state, says which of them runs, so  *)
(* their state spaces add up and do not multiply.  PubSub and Codecs are   *)
(* instances; the others are extended and keep their own names.            *)
(***************************************************************************)
EXTENDS Runner, Cli, PubSubTiny, Button, Pm

CONSTANTS h1, h2, h3

TopicSet == {<<<<"a">>>>, <<<<"a", "b">>>>, <<<<"a">>, <<"a", "b">>>>,
             <<<<"a", "b">>, <<"a">>, <<"a">>>>}
FilterSet == {<<<<"a">>>>, <<<<"#">>>>, <<<<"a">>, <<"#">>>>,
              <<<<"+">>, <<"a">>, <<"+">>>>, <<<<"+">>, <<"#">>>>}

Make(p, d, y, r, w, t) ==
    [period |-> p, debounce |-> d, delay |-> y, rate |-> r, window |-> w,
     timeout |-> t]

\* Two slow samples debounce, or a single fast one without repeat rate and
\* click window; a timeout of zero stands for the default one; the others are
\* refused for their period, length and timeout.
DefaultParam == Make(2, 3, 3, 2, 3, 3)
ParamSet == {Make(2, 3, 3, 2, 3, 0), Make(1, 0, 2, 0, 0, 2), Make(0, 1, 0, 0, 0, 2),
             Make(1, 2, 0, 0, 0, 4), Make(1, 1, 3, 0, 0, 2)}

\* All frames of zeros and others past the length of two full groups.
FrameSet == UNION {[1 .. n -> {0, 1}] : n \in 0 .. 6}

\* Bytes whose bits are all zero, mixed and all one.
DataSet == UNION {[1 .. n -> {0, 190, 255}] : n \in 0 .. 4}

VARIABLES
    sel,    \* the module whose behaviours this one explores
    ps_pool, ps_length, ps_filter, ps_memory, ps_topic, ps_cursor, ps_called,
    ps_failed,
    cd_phase, cd_data, cd_url, cd_room, cd_enc, cd_back, cd_over

psVars == <<ps_pool, ps_length, ps_filter, ps_memory, ps_topic, ps_cursor,
            ps_called, ps_failed>>
PS == INSTANCE PubSub WITH
    Handles <- {h1, h2, h3}, Filters <- FilterSet, Topics <- TopicSet,
    MinCapacity <- 1, CapLimit <- 8, Null <- Null, pool <- ps_pool,
    length <- ps_length, filter <- ps_filter, memory <- ps_memory,
    topic <- ps_topic, cursor <- ps_cursor, called <- ps_called,
    failed <- ps_failed

cdVars == <<cd_phase, cd_data, cd_url, cd_room, cd_enc, cd_back, cd_over>>
CD == INSTANCE Codecs WITH
    Frames <- FrameSet, Full <- 3, Rooms <- {1, 2, 4, 5}, Inputs <- DataSet,
    Short <- {0, 1, 2, 3}, phase <- cd_phase, data <- cd_data, url <- cd_url,
    room <- cd_room, enc <- cd_enc, back <- cd_back, over <- cd_over

ASSUME ServicesAssumption == PS!PubSubAssumption

-----------------------------------------------------------------------------
Parts == {"PubSub", "PubSubTiny", "Button", "Cli", "Pm", "Runner", "Codecs"}

SuiteInit ==
    /\ sel \in Parts
    /\ PS!Init /\ TinyInit /\ ButtonInit /\ CliInit /\ PmInit /\ RunnerInit /\ CD!Init

\* A step of the selected module; every other stays in its initial state.
SuiteNext ==
    /\ UNCHANGED sel
    /\ IF sel = "PubSub" THEN PS!Next ELSE UNCHANGED psVars
    /\ IF sel = "PubSubTiny" THEN TinyNext ELSE UNCHANGED tinyVars
    /\ IF sel = "Button" THEN ButtonNext ELSE UNCHANGED buttonVars
    /\ IF sel = "Cli" THEN CliNext ELSE UNCHANGED cliVars
    /\ IF sel = "Pm" THEN PmNext ELSE UNCHANGED pmVars
    /\ IF sel = "Runner" THEN RunnerNext ELSE UNCHANGED runnerVars
    /\ IF sel = "Codecs" THEN CD!Next ELSE UNCHANGED cdVars

suiteVars == <<sel, psVars, tinyVars, buttonVars, cliVars, pmVars, runnerVars, cdVars>>

SuiteSpec == SuiteInit /\ [][SuiteNext]_suiteVars

-----------------------------------------------------------------------------
\* The broker's array holds each subscriber once through growth, shrinking and
\* failed allocations, no assert fails, and a publication calls exactly the
\* subscribers whose filter the topic matches.
BrokerExact == sel = "PubSub" =>
    PS!TypeOK /\ PS!PoolExact /\ PS!AssertsHold /\ PS!DeliveredExactly

\* What is decoded is what was encoded.
CodecsRoundTrip == CD!CobsRoundTrip /\ CD!Base64RoundTrip
=============================================================================
