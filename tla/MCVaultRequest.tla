--------------------------- MODULE MCVaultRequest --------------------------
(* The routes of registry.v1.json, a catalog of calendar entries with two  *)
(* versions of one of them, and requests of each kind.                     *)
EXTENDS VaultRequest

MCKeys == {"to", "subject", "text_plain", "document_attachments", "thread_id", "message_id",
           "url", "method", "event_id"}

GmailRoute(compose, keywords, tags, names, required, optional, policies) ==
    [domain |-> "gmail", compose |-> compose, keywords |-> keywords, tags |-> tags,
     names |-> <<"google", "gmail">> \o names \o <<"v1">>, required |-> required,
     optional |-> optional, policies |-> policies]

Policy(key, fact, condition) ==
    [key |-> key, mode |-> IF fact = "" THEN "ASK_USER" ELSE "AUTO_RETRY",
     fact |-> IF fact = "" THEN key ELSE fact, condition |-> condition, sensitive |-> FALSE]

BodyPolicies ==
    <<Policy("text_plain", "weather_summary", "weather_requested"),
      Policy("text_plain", "email_body", "")>>

MCRegistry ==
    <<GmailRoute(TRUE, {"send", "email", "gmail", "subject", "body"}, {"gmail", "send", "draft"},
        <<"send", "email", "v1", "gmail", "tpl", "plan", "send", "email">>,
        {"to", "subject", "text_plain"}, {"document_attachments"},
        <<Policy("to", "", ""), Policy("subject", "email_subject", "")>> \o BodyPolicies),
      GmailRoute(TRUE, {"reply", "respond", "thread", "email", "gmail"},
        {"gmail", "reply", "thread"},
        <<"reply", "email", "v1", "gmail", "tpl", "plan", "reply", "in", "thread">>,
        {"to", "thread_id", "text_plain"}, {"subject", "document_attachments"},
        <<Policy("to", "", ""), Policy("thread_id", "", "")>> \o BodyPolicies),
      GmailRoute(TRUE, {"create", "draft", "email", "gmail", "subject"}, {"gmail", "draft"},
        <<"create", "draft", "v1", "gmail", "tpl", "plan", "create", "draft">>,
        {"to", "subject", "text_plain"}, {"document_attachments"},
        <<Policy("to", "", ""), Policy("subject", "email_subject", "")>> \o BodyPolicies),
      GmailRoute(FALSE, {"metadata", "subject", "header", "message", "gmail"},
        {"gmail", "messages", "metadata"},
        <<"get", "message", "metadata", "v1", "gmail", "tpl", "verb", "messages", "get",
          "metadata">>, {"message_id"}, {}, <<>>),
      GmailRoute(FALSE, {"content", "body", "message", "gmail", "read"},
        {"gmail", "messages", "content"},
        <<"get", "message", "content", "v1", "gmail", "tpl", "verb", "messages", "get",
          "content">>, {"message_id"}, {}, <<>>),
      GmailRoute(FALSE, {"list", "messages", "inbox", "label", "gmail"},
        {"gmail", "messages", "list"},
        <<"list", "messages", "by", "label", "v1", "gmail", "tpl", "verb", "messages", "list",
          "by", "label">>, {}, {}, <<>>),
      GmailRoute(FALSE, {"label", "labels", "modify", "message", "gmail"},
        {"gmail", "messages", "labels"},
        <<"modify", "message", "labels", "v1", "gmail", "tpl", "verb", "messages", "modify",
          "labels">>, {"message_id"}, {}, <<>>),
      GmailRoute(FALSE, {"list", "labels", "gmail"}, {"gmail", "labels"},
        <<"list", "labels", "v1", "gmail", "recipe", "labels", "list">>, {}, {}, <<>>),
      GmailRoute(FALSE, {"list", "inbox", "messages", "gmail"}, {"gmail", "inbox", "messages"},
        <<"list", "inbox", "v1", "gmail", "recipe", "messages", "list", "inbox">>,
        {}, {}, <<>>),
      GmailRoute(FALSE, {"status", "update", "send", "gmail"}, {"gmail", "status", "update"},
        <<"send", "status", "update", "v1", "gmail", "recipe", "plan", "send", "status",
          "update">>, {}, {}, <<>>),
      [domain |-> "http", compose |-> FALSE,
       keywords |-> {"http", "url", "webhook", "endpoint", "request", "api"},
       tags |-> {"http", "unbounded"}, names |-> <<"generic", "http", "request", "v1">>,
       required |-> {"url"}, optional |-> {"method"},
       policies |-> <<Policy("url", "url", "")>>]>>

Row(names, template, needs) ==
    [names |-> names \o <<"google", "calendar", "v1">>, book |-> {"google", "workspace"},
     tags |-> {"calendar"}, template |-> template, google |-> TRUE, http |-> FALSE,
     needs |-> needs]

(* Two versions of one entry, which may differ in what they require, a     *)
(* template of another and a recipe.                                       *)
MCEntries ==
    <<Row(<<"calendar", "events", "create", "template">>, TRUE, {{"subject", "event_id"}, {}}),
      Row(<<"calendar", "events", "create", "template">>, TRUE, {{"subject"}}),
      Row(<<"calendar", "agenda", "update", "template">>, TRUE, {{"event_id"}}),
      Row(<<"calendar", "agenda", "list", "recipe">>, FALSE, {{}})>>

MCWords ==
    UNION {MCRegistry[i].keywords \cup MCRegistry[i].tags
           \cup {MCRegistry[i].names[n] : n \in DOMAIN MCRegistry[i].names} : i \in DOMAIN MCRegistry}
    \cup UNION {{MCEntries[e].names[n] : n \in DOMAIN MCEntries[e].names} : e \in DOMAIN MCEntries}
    \cup {"google", "workspace", "mail", "passport", "fields"}

MCWithin ==
    [w \in MCWords |->
        {w} \cup CASE w \in {"email", "gmail"} -> {"mail"}
                   [] w = "labels" -> {"label"}
                   [] w = "messages" -> {"message"}
                   [] w = "thread" -> {"read"}
                   [] OTHER -> {}]

(* Of the words that a search may be for. *)
MCLength ==
    [w \in MCWords |->
        CASE w \in {"agenda", "events", "create", "update", "fields"} -> 6
          [] w \in {"calendar", "passport"} -> 8
          [] w \in {"api", "url", "by", "in", "v1", "get", "tpl"} -> 3
          [] OTHER -> 4]

MCSaidWith ==
    [k \in MCKeys |-> CASE k = "subject" -> {"subject"}
                        [] k = "text_plain" -> {"body"}
                        [] k = "thread_id" -> {"thread"}
                        [] k = "message_id" -> {"message"}
                        [] k = "url" -> {"http"}
                        [] OTHER -> {}]

MCFull == [e \in Rows |-> UNION MCEntries[e].needs]
MCCatalogs == {MCFull, [MCFull EXCEPT ![2] = NONE]}

Asks(words, traits, given, recipients) ==
    [words |-> words, traits |-> traits, given |-> given, recipients |-> recipients,
     fallback |-> TRUE]

(* Which route is meant. *)
Phrases ==
    {W \in SUBSET {"send", "email", "gmail", "draft", "message", "labels", "list", "inbox",
                   "subject", "body", "http", "webhook"} : Cardinality(W) \in 1 .. 2}
    \cup {{"mail", "send"}, {"status", "update", "send", "email"}, {"list", "inbox", "gmail"},
          {"message", "header", "email"}, {"labels", "list", "gmail"}}

(* What is known of a message to write. *)
Compositions ==
    {Asks(W, T, G, n) :
        W \in {{"send", "email"}, {"reply", "thread", "email"}},
        T \in SUBSET {"about", "saying", "semantic", "weather", "subject_line"},
        G \in {{}, {"subject"}, {"text_plain"}, {"document_attachments"}}, n \in {0, 1}}

PassportRequests ==
    {Asks({"passport", "email", "body", "fields"}, T, {}, n) :
        T \in {{}, {"passport_fields"}, {"no_passport_fields"}}, n \in 0 .. 2}

Searches ==
    {Asks(W, {}, G, 0) : W \in {{"calendar", "create"}, {"events", "create"}, {"agenda", "list"},
                                {"update", "events"}, {"calendar", "agenda", "update"}},
                         G \in {{}, {"subject"}}}

MCRequests ==
    {Asks(W, {}, {}, 0) : W \in Phrases} \cup Compositions \cup Searches
    \cup {[Asks(W, {}, {}, 0) EXCEPT !.fallback = FALSE] : W \in {{"agenda", "list"}, {"http"}}}

MCStarts ==
    [request : MCRequests, catalog : MCCatalogs,
     facts : {{}, {"email_subject"}, {"subject"}, {"weather_summary"}}]
    \cup [request : PassportRequests, catalog : {MCFull}, facts : {{}}]
=============================================================================
