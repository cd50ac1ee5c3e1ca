----------------------------- MODULE ApiHandler -----------------------------
(***************************************************************************)
(* The JSON API (src/src/api_service.cpp): which function a URI names, how *)
(* it reads its input, and the calls of dba and pushy_service it makes.    *)
(* A connection carries one request, so c stands for connection, request   *)
(* and the run of api_service::handler::operator() for it.                 *)
(*                                                                         *)
(* Input is read with JsonSpirit.  A string is a uuid, or another one.     *)
(*                                                                         *)
(* What a call does is the matter of PushyService and DeviceRegistry: here *)
(* it returns or throws.                                                   *)
(***************************************************************************)
EXTENDS JsonSpirit

CONSTANTS
    Conns,      \* connections
    Uuids       \* texts of uuids that requests name

VARIABLES
    step,       \* step[c]: where operator() is: "none", "parse", "call", "done"
    api,        \* api[c]: the function it has chosen
    at,         \* at[c]: entries it has parsed
    targets,    \* targets[c]: what it is going to make a call for
    made,       \* made[c]: calls that have returned
    answer      \* answer[c]: what response_ says

apiVars == <<step, api, at, targets, made, answer>>

Answers == {"none", "forbidden", "not_found", "bad_request", "error", "success"}

ApiInit ==
    /\ step = [c \in Conns |-> "none"]
    /\ api = [c \in Conns |-> "none"]
    /\ at = [c \in Conns |-> 0]
    /\ targets = [c \in Conns |-> <<>>]
    /\ made = [c \in Conns |-> 0]
    /\ answer = [c \in Conns |-> "none"]

-----------------------------------------------------------------------------
(* The choice of the function *)

\* api.base.
Base == <<"/api">>

\* The functions in the order operator() tries them, each with the start of its URIs.
CallingRoutes ==
    << <<"register", <<"/device", "/register", "/apns">>>>,
       <<"register", <<"/device", "/register", "/gcm">>>>,
       <<"remove", <<"/device", "/remove">>>>,
       <<"send", <<"/send">>>>,
       <<"redeliver", <<"/redeliver">>>> >>

\* Mutated: "/list" is tried first.
ListingRoutesByLength ==
    << <<"list", <<"/list">>>>,
       <<"list_apns", <<"/list", "_apns">>>>,
       <<"list_gcm", <<"/list", "_gcm">>>>,
       <<"leavers", <<"/leavers">>>> >>

ListingRoutes ==
    << <<"list_apns", <<"/list", "_apns">>>>,
       <<"list_gcm", <<"/list", "_gcm">>>>,
       <<"list", <<"/list">>>>,
       <<"leavers", <<"/leavers">>>> >>

Routes == CallingRoutes \o ListingRoutes

Apis == {"none", "register", "remove", "send", "redeliver", "list_apns", "list_gcm", "list", "leavers"}

\* The routes that fit a URI, by their place in the order.
Fitting(uri) ==
    {i \in DOMAIN Routes : IsPrefix(Base \o Routes[i][2], uri)}

Chosen(uri) == CHOOSE i \in Fitting(uri) : \A j \in Fitting(uri) : i <= j

-----------------------------------------------------------------------------
(* JSON *)

\* The type a function asks its input to have.
Acceptable(f, text) ==
    CASE f \in {"remove", "redeliver"} -> IsRead(text) /\ ValueOf(text)[1].type = "array"
      [] f = "send" -> IsRead(text) /\ ValueOf(text)[1].type = "obj"
      [] OTHER -> TRUE

Parses(f) == f \in {"remove", "redeliver", "send"}

\* get_array(), get_obj().
Entries(text) ==
    LET nodes == ValueOf(text) IN [i \in DOMAIN Held(nodes, 1) |-> nodes[Held(nodes, 1)[i]]]

NamesTarget(f, entry) == f # "send" \/ entry.name = "uuid"

\* get_str() throws on all but a string, string_generator on all but a uuid.  Fields of
\* other names are passed over.
Valid(f, entry) ==
    /\ NamesTarget(f, entry) => entry.token \in Uuids
    /\ f = "send" /\ entry.name \in {"msg", "tag"} => entry.type = "str"

-----------------------------------------------------------------------------
(* Steps of the handler *)

Reply(c, a) ==
    /\ step' = [step EXCEPT ![c] = "done"]
    /\ answer' = [answer EXCEPT ![c] = a]

\* operator() up to the loop that parses; error_json when the input is of no use.
Dispatch(c, uri, text) ==
    LET f == Routes[Chosen(uri)][1]
    IN  \/ /\ ~ IsPrefix(Base, uri)
           /\ Reply(c, "forbidden")
           /\ UNCHANGED <<api, at, targets, made>>
        \/ /\ IsPrefix(Base, uri) /\ Fitting(uri) = {}
           /\ Reply(c, "not_found")
           /\ UNCHANGED <<api, at, targets, made>>
        \/ /\ Fitting(uri) # {} /\ ~ Acceptable(f, text)
           /\ api' = [api EXCEPT ![c] = f]
           /\ Reply(c, "error")
           /\ UNCHANGED <<at, targets, made>>
        \/ /\ Fitting(uri) # {} /\ Acceptable(f, text)
           /\ api' = [api EXCEPT ![c] = f]
           /\ step' = [step EXCEPT ![c] = IF Parses(f) THEN "parse" ELSE "call"]
           /\ targets' = [targets EXCEPT ![c] = IF Parses(f) THEN <<>> ELSE <<f>>]
           /\ UNCHANGED <<at, made, answer>>

\* One round of the loop over the entries of the input.
ParseEntry(c, text) ==
    LET entry == Entries(text)[at[c] + 1]
    IN  /\ step[c] = "parse"
        /\ at[c] < Len(Entries(text))
        /\ \/ /\ Valid(api[c], entry)
              /\ at' = [at EXCEPT ![c] = @ + 1]
              /\ targets' = [targets EXCEPT ![c] =
                    IF ~ NamesTarget(api[c], entry) THEN @
                    ELSE IF api[c] = "send" THEN <<entry.token>> ELSE Append(@, entry.token)]
              /\ UNCHANGED <<step, answer>>
           \/ /\ ~ Valid(api[c], entry)
              /\ Reply(c, "error")
              /\ UNCHANGED <<at, targets>>
        /\ UNCHANGED <<api, made>>

\* Without a field "uuid" the local dev_uuid of send_push is never written: the push
\* goes to whatever uuid its bytes happen to be.
StartCalls(c, text) ==
    /\ step[c] = "parse"
    /\ at[c] = Len(Entries(text))
    /\ step' = [step EXCEPT ![c] = "call"]
    /\ IF api[c] = "send" /\ targets[c] = <<>>
       THEN \E d \in Uuids : targets' = [targets EXCEPT ![c] = <<d>>]
       ELSE UNCHANGED targets
    /\ UNCHANGED <<api, at, made, answer>>

\* Mutated: a call is made as soon as its target is parsed.
CallAtOnce(c) ==
    /\ step[c] \in {"parse", "call"}
    /\ made[c] < Len(targets[c])
    /\ made' = [made EXCEPT ![c] = @ + 1]
    /\ UNCHANGED <<step, api, at, targets, answer>>

\* A call of dba or pushy_service returns ...
Call(c) ==
    /\ step[c] = "call"
    /\ made[c] < Len(targets[c])
    /\ made' = [made EXCEPT ![c] = @ + 1]
    /\ UNCHANGED <<step, api, at, targets, answer>>

\* Mutated: the exception of a call is swallowed.
CallThrowsUnseen(c) ==
    /\ step[c] = "call"
    /\ made[c] < Len(targets[c])
    /\ Reply(c, "success")
    /\ UNCHANGED <<api, at, targets, made>>

\* ... or throws, and operator() answers with error_json.
CallThrows(c) ==
    /\ step[c] = "call"
    /\ made[c] < Len(targets[c])
    /\ Reply(c, "error")
    /\ UNCHANGED <<api, at, targets, made>>

Succeed(c) ==
    /\ step[c] = "call"
    /\ made[c] = Len(targets[c])
    /\ Reply(c, "success")
    /\ UNCHANGED <<api, at, targets, made>>

HandlerStep(c, text) ==
    \/ ParseEntry(c, text) \/ StartCalls(c, text)
    \/ Call(c) \/ CallThrows(c) \/ Succeed(c)

=============================================================================
