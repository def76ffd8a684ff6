------------------------------ MODULE MCStores ------------------------------
(***************************************************************************)
(* What is written and what its readers see.  A behaviour is one of the     *)
(* feed log with its writers and a history stream, of a tangle that is read *)
(* while it grows, of the pages of the messages table, of the index of the  *)
(* SSB client, or of one of the translations.                               *)
(***************************************************************************)
EXTENDS FeedLog, TLC

CONSTANTS
    Keys, MaxAdds,
    URIs, States, Attempts, Limits, DefaultLimit, MaxLimit, MaxClock,
    Peers, MaxOwn, MaxForeign,
    Bits, Posts, MaxMappings, MaxImages, MaxHops, MaxMessages, None

VARIABLES
    part,
    edges, adds, request, sorted, degree, queue, written,
    table, clock, walk,
    user, receiveLog, rows, synced, outbox, unread, wanted, sending, unsent, work, mishaps,
    form, type, record, wire, back,
    post, deleted, published, msg, at, slot, blobs, lost, before, mappings,
    text, mentions, place, mention, images, facets,
    first, ref, hops, value,
    signed, nodeLogs, nodeReceived,
    layer, repo, event, rowIndex, outcome

Tangle == INSTANCE Tangles WITH rows <- edges, call <- request, sent <- written
Pages == INSTANCE MessagePages
Client == INSTANCE ClientIndex WITH rx <- receiveLog, faults <- mishaps
Forms == INSTANCE MCTranslation
    WITH part <- form, known <- published, pc <- place, i <- mention, start <- first, form <- ref,
         logs <- nodeLogs, received <- nodeReceived, index <- rowIndex

tangleVars == << edges, adds, request, sorted, degree, queue, written >>
pageVars == << table, clock, walk >>
clientVars == << user, receiveLog, rows, synced, outbox, unread, wanted, sending, unsent, work, mishaps >>
formVars == << form, type, record, wire, back, post, deleted, published, msg, at, slot, blobs, lost, before,
               mappings, text, mentions, place, mention, images, facets, first, ref, hops, value, signed,
               nodeLogs, nodeReceived, layer, repo, event, rowIndex, outcome >>

\* The parts that are not chosen stay in an initial state.
StoresInit ==
    /\ Init /\ Tangle!Init /\ Pages!Init /\ Client!Init
    /\ \/ part = "form" /\ Forms!Init
       \/ part \in {"log", "tangle", "pages", "client"} /\ Forms!Parked

StoresNext ==
    /\ UNCHANGED part
    /\ \/ part = "log" /\ Next /\ UNCHANGED << tangleVars, pageVars, clientVars, formVars >>
       \/ part = "tangle" /\ Tangle!Next /\ UNCHANGED << vars, pageVars, clientVars, formVars >>
       \/ part = "pages" /\ Pages!Next /\ UNCHANGED << vars, tangleVars, clientVars, formVars >>
       \/ part = "client" /\ Client!Next /\ UNCHANGED << vars, tangleVars, pageVars, formVars >>
       \/ part = "form" /\ Forms!Next /\ UNCHANGED << vars, tangleVars, pageVars, clientVars >>

StoresSpec ==
    StoresInit /\ [][StoresNext]_<< part, vars, tangleVars, pageVars, clientVars, formVars >>

\* LogsAppendOnly and KeysAndHistory are those of FeedLog.  The properties of the other
\* parts, stated in their modules (a part that is not chosen keeps its initial state): the
\* messages of a tangle come in its order, and the pages of a table and the index of a
\* client leave no message out,
ListingsComplete ==
    /\ part = "tangle" => Tangle!TangleInOrder
    /\ part = "pages" => Pages!PagesComplete
    /\ part = "client" => Client!IndexKeepsUp /\ Client!AnswersAreCurrent /\ Client!ConversationsHold
\* what is written in one form is read back as it was,
WrittenIsRead == part = "form" => Forms!WrittenIsRead
\* a translation keeps text, links, images and references,
TranslationKeeps == part = "form" => Forms!TranslationKeeps
\* and a message is the one its author has signed, wherever it is stored.
MessagesIntact == part = "form" => Forms!MessagesIntact
=============================================================================
