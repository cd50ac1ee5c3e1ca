-------------------------- MODULE HttpServerProofs --------------------------
(***************************************************************************)
(* RequestInv is an inductive invariant of HttpServer, for every set of    *)
(* requests, damage, number of workers and size of a read, and whatever    *)
(* the parser of requests and the reader of JSON make of a text.  From it  *)
(* follows what a client can rely on: one response, nothing done for an    *)
(* input that is refused, all done for an input that is answered with      *)
(* success, and by the right function.                                     *)
(***************************************************************************)
EXTENDS HttpServer, TLAPS

\* The types the proof needs.  What a text is made of does not matter.
Types ==
    /\ thread \in [Workers -> Conns \cup {"start", "run", "end"}]
    /\ conn \in [Conns -> ConnStates]
    /\ step \in [Conns -> {"none", "parse", "call", "done"}]
    /\ api \in [Conns -> Apis]
    /\ at \in [Conns -> Nat]
    /\ targets \in [Conns -> Seq(Uuids \cup Apis)]
    /\ made \in [Conns -> Nat]
    /\ answer \in [Conns -> Answers]
    /\ answers \in [Conns -> Seq(Answers)]
    /\ DOMAIN parser = Conns
    /\ DOMAIN body = Conns

-----------------------------------------------------------------------------
(* Routes *)

\* The table, written out.
LEMMA RouteTable ==
    /\ DOMAIN Routes = 1 .. 9
    /\ Routes[1] = <<"register", <<"/device", "/register", "/apns">>>>
    /\ Routes[2] = <<"register", <<"/device", "/register", "/gcm">>>>
    /\ Routes[3] = <<"remove", <<"/device", "/remove">>>>
    /\ Routes[4] = <<"send", <<"/send">>>>
    /\ Routes[5] = <<"redeliver", <<"/redeliver">>>>
    /\ Routes[6] = <<"list_apns", <<"/list", "_apns">>>>
    /\ Routes[7] = <<"list_gcm", <<"/list", "_gcm">>>>
    /\ Routes[8] = <<"list", <<"/list">>>>
    /\ Routes[9] = <<"leavers", <<"/leavers">>>>
BY SMTT(30) DEF Routes, CallingRoutes, ListingRoutes

LEMMA RouteApis == \A i \in 1 .. 9 : Routes[i][1] \in Apis \ {"none"}
BY RouteTable, SMTT(30) DEF Apis

\* A set of routes has a first one.
LEMMA FirstRoute ==
    ASSUME NEW F, F \subseteq 1 .. 9, F # {}
    PROVE  \E i \in F : \A j \in F : i <= j
<1> SUFFICES ASSUME \A i \in F : \E j \in F : j < i
             PROVE  FALSE
  OBVIOUS
<1>1. 1 \notin F
  OBVIOUS
<1>2. 2 \notin F
  BY <1>1
<1>3. 3 \notin F
  BY <1>1, <1>2
<1>4. 4 \notin F
  BY <1>1, <1>2, <1>3
<1>5. 5 \notin F
  BY <1>1, <1>2, <1>3, <1>4
<1>6. F \subseteq {6, 7, 8, 9}
  BY <1>1, <1>2, <1>3, <1>4, <1>5
<1>7. F \subseteq {7, 8, 9}
  <2>1. \A j \in F : ~ (j < 6)
    BY <1>6
  <2> QED BY <1>6, <2>1
<1>8. F \subseteq {8, 9}
  <2>1. \A j \in F : ~ (j < 7)
    BY <1>7
  <2> QED BY <1>7, <2>1
<1>9. F \subseteq {9}
  <2>1. \A j \in F : ~ (j < 8)
    BY <1>8
  <2> QED BY <1>8, <2>1
<1>10. \A j \in F : ~ (j < 9)
  BY <1>9
<1> QED BY <1>9, <1>10

LEMMA ChosenFits ==
    ASSUME NEW uri, Fitting(uri) # {}
    PROVE  /\ Chosen(uri) \in Fitting(uri) /\ Chosen(uri) \in 1 .. 9
           /\ \A j \in Fitting(uri) : Chosen(uri) <= j
           /\ Routes[Chosen(uri)][1] \in Apis \ {"none"}
<1>1. Fitting(uri) \subseteq 1 .. 9
  BY RouteTable DEF Fitting
<1>2. \E i \in Fitting(uri) : \A j \in Fitting(uri) : i <= j
  BY <1>1, FirstRoute
<1>3. Chosen(uri) \in Fitting(uri) /\ \A j \in Fitting(uri) : Chosen(uri) <= j
  BY <1>2 DEF Chosen
<1> QED BY <1>1, <1>3, RouteApis

\* A sequence that starts with one element and one, two or three more: its second and
\* third element.
LEMMA AfterBaseOne ==
    ASSUME NEW a, NEW b, NEW u, IsPrefix(<<a>> \o <<b>>, u)
    PROVE  u[2] = b
<1> DEFINE B == <<a>>
           T == <<b>>
           R == B \o T
<1>1. B \in Seq({a, b}) /\ T \in Seq({a, b})
  OBVIOUS
<1>2. Len(B) = 1 /\ Len(T) = 1 /\ T[1] = b
  OBVIOUS
<1>3. IsPrefix(R, u)
  OBVIOUS
<1> HIDE DEF B, T
<1>4. R \in Seq({a, b}) /\ Len(R) = Len(B) + Len(T)
  BY <1>1
<1>5. R[2] = b
  <2>1. \A n \in Len(B) + 1 .. Len(B) + Len(T) : R[n] = T[n - Len(B)]
    BY <1>1
  <2> HIDE DEF R
  <2> QED BY <1>2, <2>1
<1> HIDE DEF R
<1>6. Len(R) = 2
  BY <1>2, <1>4
<1>7. SubSeq(R, 1, 2) = SubSeq(u, 1, 2)
  BY <1>3, <1>6 DEF IsPrefix
<1>8. SubSeq(R, 1, 2)[2] = R[2]
  BY <1>4, <1>6
<1>9. SubSeq(u, 1, 2)[2] = u[2]
  OBVIOUS
<1> QED BY <1>5, <1>7, <1>8, <1>9

LEMMA AfterBaseTwo ==
    ASSUME NEW a, NEW b, NEW c, NEW u, IsPrefix(<<a>> \o <<b, c>>, u)
    PROVE  u[2] = b /\ u[3] = c
<1> DEFINE B == <<a>>
           T == <<b, c>>
           R == B \o T
<1>1. B \in Seq({a, b, c}) /\ T \in Seq({a, b, c})
  OBVIOUS
<1>2. Len(B) = 1 /\ Len(T) = 2 /\ T[1] = b /\ T[2] = c
  OBVIOUS
<1>3. IsPrefix(R, u)
  OBVIOUS
<1> HIDE DEF B, T
<1>4. R \in Seq({a, b, c}) /\ Len(R) = Len(B) + Len(T)
  BY <1>1
<1>5. R[2] = b /\ R[3] = c
  <2>1. \A n \in Len(B) + 1 .. Len(B) + Len(T) : R[n] = T[n - Len(B)]
    BY <1>1
  <2> HIDE DEF R
  <2> QED BY <1>2, <2>1
<1> HIDE DEF R
<1>6. Len(R) = 3
  BY <1>2, <1>4
<1>7. SubSeq(R, 1, 3) = SubSeq(u, 1, 3)
  BY <1>3, <1>6 DEF IsPrefix
<1>8. SubSeq(R, 1, 3)[2] = R[2] /\ SubSeq(R, 1, 3)[3] = R[3]
  BY <1>4, <1>6
<1>9. SubSeq(u, 1, 3)[2] = u[2] /\ SubSeq(u, 1, 3)[3] = u[3]
  OBVIOUS
<1> QED BY <1>5, <1>7, <1>8, <1>9

LEMMA AfterBaseThree ==
    ASSUME NEW a, NEW b, NEW c, NEW d, NEW u, IsPrefix(<<a>> \o <<b, c, d>>, u)
    PROVE  u[2] = b /\ u[3] = c
<1> DEFINE B == <<a>>
           T == <<b, c, d>>
           R == B \o T
<1>1. B \in Seq({a, b, c, d}) /\ T \in Seq({a, b, c, d})
  OBVIOUS
<1>2. Len(B) = 1 /\ Len(T) = 3 /\ T[1] = b /\ T[2] = c
  OBVIOUS
<1>3. IsPrefix(R, u)
  OBVIOUS
<1> HIDE DEF B, T
<1>4. R \in Seq({a, b, c, d}) /\ Len(R) = Len(B) + Len(T)
  BY <1>1
<1>5. R[2] = b /\ R[3] = c
  <2>1. \A n \in Len(B) + 1 .. Len(B) + Len(T) : R[n] = T[n - Len(B)]
    BY <1>1
  <2> HIDE DEF R
  <2> QED BY <1>2, <2>1
<1> HIDE DEF R
<1>6. Len(R) = 4
  BY <1>2, <1>4
<1>7. SubSeq(R, 1, 4) = SubSeq(u, 1, 4)
  BY <1>3, <1>6 DEF IsPrefix
<1>8. SubSeq(R, 1, 4)[2] = R[2] /\ SubSeq(R, 1, 4)[3] = R[3]
  BY <1>4, <1>6
<1>9. SubSeq(u, 1, 4)[2] = u[2] /\ SubSeq(u, 1, 4)[3] = u[3]
  OBVIOUS
<1> QED BY <1>5, <1>7, <1>8, <1>9

\* What a URI says at its second and third place when it fits a route.
LEMMA FitWords ==
    ASSUME NEW uri
    PROVE  /\ 1 \in Fitting(uri) => uri[2] = "/device" /\ uri[3] = "/register"
           /\ 2 \in Fitting(uri) => uri[2] = "/device" /\ uri[3] = "/register"
           /\ 3 \in Fitting(uri) => uri[2] = "/device" /\ uri[3] = "/remove"
           /\ 4 \in Fitting(uri) => uri[2] = "/send"
           /\ 5 \in Fitting(uri) => uri[2] = "/redeliver"
           /\ 6 \in Fitting(uri) => uri[2] = "/list" /\ uri[3] = "_apns"
           /\ 7 \in Fitting(uri) => uri[2] = "/list" /\ uri[3] = "_gcm"
           /\ 8 \in Fitting(uri) => uri[2] = "/list"
           /\ 9 \in Fitting(uri) => uri[2] = "/leavers"
<1>1. 1 \in Fitting(uri) => uri[2] = "/device" /\ uri[3] = "/register"
  <2>1. 1 \in Fitting(uri) => IsPrefix(<<"/api">> \o <<"/device", "/register", "/apns">>, uri)
    BY RouteTable DEF Fitting, Base
  <2> QED BY <2>1, AfterBaseThree
<1>2. 2 \in Fitting(uri) => uri[2] = "/device" /\ uri[3] = "/register"
  <2>1. 2 \in Fitting(uri) => IsPrefix(<<"/api">> \o <<"/device", "/register", "/gcm">>, uri)
    BY RouteTable DEF Fitting, Base
  <2> QED BY <2>1, AfterBaseThree
<1>3. 3 \in Fitting(uri) => uri[2] = "/device" /\ uri[3] = "/remove"
  <2>1. 3 \in Fitting(uri) => IsPrefix(<<"/api">> \o <<"/device", "/remove">>, uri)
    BY RouteTable DEF Fitting, Base
  <2> QED BY <2>1, AfterBaseTwo
<1>4. 4 \in Fitting(uri) => uri[2] = "/send"
  <2>1. 4 \in Fitting(uri) => IsPrefix(<<"/api">> \o <<"/send">>, uri)
    BY RouteTable DEF Fitting, Base
  <2> QED BY <2>1, AfterBaseOne
<1>5. 5 \in Fitting(uri) => uri[2] = "/redeliver"
  <2>1. 5 \in Fitting(uri) => IsPrefix(<<"/api">> \o <<"/redeliver">>, uri)
    BY RouteTable DEF Fitting, Base
  <2> QED BY <2>1, AfterBaseOne
<1>6. 6 \in Fitting(uri) => uri[2] = "/list" /\ uri[3] = "_apns"
  <2>1. 6 \in Fitting(uri) => IsPrefix(<<"/api">> \o <<"/list", "_apns">>, uri)
    BY RouteTable DEF Fitting, Base
  <2> QED BY <2>1, AfterBaseTwo
<1>7. 7 \in Fitting(uri) => uri[2] = "/list" /\ uri[3] = "_gcm"
  <2>1. 7 \in Fitting(uri) => IsPrefix(<<"/api">> \o <<"/list", "_gcm">>, uri)
    BY RouteTable DEF Fitting, Base
  <2> QED BY <2>1, AfterBaseTwo
<1>8. 8 \in Fitting(uri) => uri[2] = "/list"
  <2>1. 8 \in Fitting(uri) => IsPrefix(<<"/api">> \o <<"/list">>, uri)
    BY RouteTable DEF Fitting, Base
  <2> QED BY <2>1, AfterBaseOne
<1>9. 9 \in Fitting(uri) => uri[2] = "/leavers"
  <2>1. 9 \in Fitting(uri) => IsPrefix(<<"/api">> \o <<"/leavers">>, uri)
    BY RouteTable DEF Fitting, Base
  <2> QED BY <2>1, AfterBaseOne
<1> QED BY <1>1, <1>2, <1>3, <1>4, <1>5, <1>6, <1>7, <1>8, <1>9

\* No route that fits is longer than the first one that does.
LEMMA FirstIsLongest ==
    ASSUME NEW uri, NEW i \in Fitting(uri), NEW j \in Fitting(uri),
           Routes[i][1] = Routes[Chosen(uri)][1]
    PROVE  Len(Routes[j][2]) <= Len(Routes[i][2])
<1>1. i \in 1 .. 9 /\ j \in 1 .. 9
  BY RouteTable DEF Fitting
<1>2. Chosen(uri) \in Fitting(uri) /\ Chosen(uri) <= j /\ Chosen(uri) <= i /\ Chosen(uri) \in 1 .. 9
  BY ChosenFits
<1> QED BY <1>1, <1>2, FitWords, RouteTable, SMTT(60)

-----------------------------------------------------------------------------
(* The invariant, one connection at a time *)

Answered(c) ==
    /\ Len(answers[c]) <= 1
    /\ conn[c] \in {"headers", "body", "handling"} => answers[c] = <<>>

Succeeded(c) ==
    answer[c] = "success" =>
        /\ made[c] = Len(targets[c])
        /\ AllTargets(api[c], Entries(body[c]), targets[c])

Routed(c) ==
    api[c] # "none" =>
        \A i, j \in Fitting(parser[c].destination) :
            Routes[i][1] = api[c] => Len(Routes[j][2]) <= Len(Routes[i][2])

ConnInv(c) == HandlerProgress(c) /\ Answered(c) /\ Succeeded(c) /\ Routed(c)

Inv == Types /\ OneThread /\ \A c \in Conns : ConnInv(c)

LEMMA InvIsRequestInv == Inv => RequestInv
BY DEF Inv, ConnInv, Answered, Succeeded, Routed, RequestInv, AnsweredOnce, SuccessMeansAll,
       MostSpecific

\* What the invariant says of a connection stays as it is.
Same(d) ==
    /\ conn'[d] = conn[d] /\ answers'[d] = answers[d]
    /\ body'[d] = body[d] /\ parser'[d] = parser[d]
    /\ step'[d] = step[d] /\ api'[d] = api[d] /\ at'[d] = at[d]
    /\ targets'[d] = targets[d] /\ made'[d] = made[d] /\ answer'[d] = answer[d]

Others(c) == \A d \in Conns \ {c} : Same(d)

LEMMA SameKeeps ==
    ASSUME NEW d \in Conns, Same(d), ConnInv(d)
    PROVE  ConnInv(d)'
<1>1. HandlerProgress(d)'
  BY DEF Same, ConnInv, HandlerProgress, Untouched, Parsed, ParsedSoFar
<1>2. Answered(d)'
  BY DEF Same, ConnInv, Answered
<1>3. Succeeded(d)'
  BY DEF Same, ConnInv, Succeeded
<1>4. Routed(d)'
  BY DEF Same, ConnInv, Routed
<1> QED BY <1>1, <1>2, <1>3, <1>4 DEF ConnInv

LEMMA OthersKeep ==
    ASSUME Inv, NEW c \in Conns, Others(c), ConnInv(c)'
    PROVE  \A d \in Conns : ConnInv(d)'
BY SameKeeps DEF Others, Inv

\* A step that leaves all connections and the handler as they are; worker threads may
\* start and end.
Quiet ==
    /\ UNCHANGED <<conn, answers, body, parser, apiVars>>
    /\ thread' \in [Workers -> Conns \cup {"start", "run", "end"}]
    /\ \A w \in Workers : thread'[w] = thread[w] \/ thread'[w] \notin Conns

LEMMA QuietKeeps ==
    ASSUME Inv, Quiet
    PROVE  Inv'
<1>1. Types'
  BY DEF Inv, Types, Quiet, apiVars
<1>2. OneThread'
  BY DEF Inv, OneThread, Quiet
<1>3. \A d \in Conns : Same(d)
  BY DEF Quiet, Same, apiVars
<1> QED BY <1>1, <1>2, <1>3, SameKeeps DEF Inv

\* A step in which one connection goes on, and no thread takes or leaves a request.
LEMMA MoveKeeps ==
    ASSUME Inv, NEW c \in Conns, NEW l \in ConnStates, conn[c] # "handling",
           conn' = [conn EXCEPT ![c] = l], l \in {"new", "backlog", "headers"} => body[c] = <<>>,
           l \in {"new", "backlog", "headers", "body"} => step[c] = "none",
           l \in {"new", "backlog", "headers", "body", "handling"} => answers[c] = <<>>,
           UNCHANGED <<thread, answers, body, parser, apiVars>>
    PROVE  Inv'
<1>1. Types'
  BY DEF Inv, Types, apiVars
<1>2. OneThread'
  BY DEF Inv, OneThread, Types
<1>3. Others(c)
  BY DEF Others, Same, apiVars, Inv, Types
<1>4. ConnInv(c)
  BY DEF Inv
<1>5. conn'[c] = l
  BY DEF Inv, Types
<1>6. HandlerProgress(c)'
  BY <1>4, <1>5 DEF ConnInv, HandlerProgress, Untouched, Parsed, ParsedSoFar, apiVars
<1>7. Answered(c)' /\ Succeeded(c)' /\ Routed(c)'
  BY <1>4, <1>5 DEF ConnInv, Answered, Succeeded, Routed, apiVars
<1>8. ConnInv(c)'
  BY <1>6, <1>7 DEF ConnInv
<1> QED BY <1>1, <1>2, <1>3, <1>8, OthersKeep DEF Inv

-----------------------------------------------------------------------------
(* operator() begins *)

\* What the steps of a handler leave alone.
ApiTypes ==
    /\ step \in [Conns -> {"none", "parse", "call", "done"}]
    /\ api \in [Conns -> Apis]
    /\ at \in [Conns -> Nat]
    /\ targets \in [Conns -> Seq(Uuids \cup Apis)]
    /\ made \in [Conns -> Nat]
    /\ answer \in [Conns -> Answers]

OtherRuns(c) ==
    \A d \in Conns \ {c} :
        /\ step'[d] = step[d] /\ api'[d] = api[d] /\ at'[d] = at[d]
        /\ targets'[d] = targets[d] /\ made'[d] = made[d] /\ answer'[d] = answer[d]

\* What Dispatch makes of a request nobody has touched.
LEMMA DispatchEffect ==
    ASSUME ApiTypes, NEW c \in Conns, step[c] = "none", Untouched(c), NEW uri, NEW text,
           Dispatch(c, uri, text)
    PROVE  /\ ApiTypes' /\ OtherRuns(c)
           /\ at'[c] = 0 /\ made'[c] = 0
           /\ \/ /\ step'[c] = "done"
                 /\ answer'[c] \in Answers \ {"success"}
                 /\ api'[c] = "none" \/ (Fitting(uri) # {} /\ api'[c] = Routes[Chosen(uri)][1])
              \/ /\ step'[c] = (IF Parses(api'[c]) THEN "parse" ELSE "call")
                 /\ Fitting(uri) # {} /\ api'[c] = Routes[Chosen(uri)][1]
                 /\ Acceptable(api'[c], text)
                 /\ answer'[c] = "none"
                 /\ Parses(api'[c]) => targets'[c] = <<>>
                 /\ ~ Parses(api'[c]) => Len(targets'[c]) = 1
<1> DEFINE f == Routes[Chosen(uri)][1]
<1>1. Fitting(uri) # {} => f \in Apis
  BY ChosenFits
<1>2. "none" \in Answers /\ {"forbidden", "not_found", "error"} \subseteq Answers \ {"success"}
  BY DEF Answers
<1>3. <<>> \in Seq(Uuids \cup Apis)
  OBVIOUS
<1>4. Fitting(uri) # {} => <<f>> \in Seq(Uuids \cup Apis) /\ Len(<<f>>) = 1
  BY <1>1
<1> HIDE DEF f
<1>5. CASE ~ IsPrefix(Base, uri) /\ Reply(c, "forbidden") /\ UNCHANGED <<api, at, targets, made>>
  BY <1>2, <1>5 DEF ApiTypes, Reply, OtherRuns, Untouched
<1>6. CASE Fitting(uri) = {} /\ Reply(c, "not_found") /\ UNCHANGED <<api, at, targets, made>>
  BY <1>2, <1>6 DEF ApiTypes, Reply, OtherRuns, Untouched
<1>7. CASE /\ Fitting(uri) # {}
           /\ api' = [api EXCEPT ![c] = f]
           /\ Reply(c, "error")
           /\ UNCHANGED <<at, targets, made>>
  BY <1>1, <1>2, <1>7 DEF ApiTypes, Reply, OtherRuns, Untouched, f
<1>8. CASE /\ Fitting(uri) # {} /\ Acceptable(f, text)
           /\ api' = [api EXCEPT ![c] = f]
           /\ step' = [step EXCEPT ![c] = IF Parses(f) THEN "parse" ELSE "call"]
           /\ targets' = [targets EXCEPT ![c] = IF Parses(f) THEN <<>> ELSE <<f>>]
           /\ UNCHANGED <<at, made, answer>>
  <2>1. api'[c] = f
    BY <1>8 DEF ApiTypes
  <2>2. ApiTypes'
    BY <1>1, <1>3, <1>4, <1>8 DEF ApiTypes
  <2>3. OtherRuns(c)
    BY <1>8 DEF OtherRuns, ApiTypes
  <2>4. targets'[c] = IF Parses(f) THEN <<>> ELSE <<f>>
    BY <1>8 DEF ApiTypes
  <2>5. step'[c] = (IF Parses(f) THEN "parse" ELSE "call")
    BY <1>8 DEF ApiTypes
  <2> QED BY <1>4, <1>8, <2>1, <2>2, <2>3, <2>4, <2>5 DEF Untouched, f
<1> QED BY <1>5, <1>6, <1>7, <1>8 DEF Dispatch, f

\* A worker that takes a request whose head, and body if it has one, are complete.
LEMMA HandleKeeps ==
    ASSUME Inv, NEW w \in Workers, NEW c \in Conns, thread[w] = "run",
           conn[c] \in {"headers", "body"},
           NEW text, NEW uri, Handle(w, c, uri, text),
           DOMAIN body' = Conns, body'[c] = text,
           DOMAIN parser' = Conns, parser'[c].destination = uri,
           \A d \in Conns \ {c} : body'[d] = body[d] /\ parser'[d] = parser[d]
    PROVE  Inv'
<1>1. Untouched(c) /\ step[c] = "none" /\ answers[c] = <<>>
  BY DEF Inv, ConnInv, HandlerProgress
<1>2. conn' = [conn EXCEPT ![c] = "handling"] /\ thread' = [thread EXCEPT ![w] = c]
      /\ answers' = answers /\ Dispatch(c, uri, text)
  BY DEF Handle
<1>3. conn'[c] = "handling" /\ answers'[c] = <<>>
  BY <1>1, <1>2 DEF Inv, Types
<1>4. ApiTypes
  BY DEF Inv, Types, ApiTypes
<1> DEFINE Begun ==
        /\ step'[c] = (IF Parses(api'[c]) THEN "parse" ELSE "call")
        /\ Fitting(uri) # {} /\ api'[c] = Routes[Chosen(uri)][1]
        /\ Acceptable(api'[c], text)
        /\ answer'[c] = "none"
        /\ Parses(api'[c]) => targets'[c] = <<>>
        /\ ~ Parses(api'[c]) => Len(targets'[c]) = 1
           Refused ==
        /\ step'[c] = "done"
        /\ answer'[c] \in Answers \ {"success"}
        /\ api'[c] = "none" \/ (Fitting(uri) # {} /\ api'[c] = Routes[Chosen(uri)][1])
<1>5. ApiTypes' /\ OtherRuns(c) /\ at'[c] = 0 /\ made'[c] = 0 /\ (Refused \/ Begun)
  BY <1>1, <1>2, <1>4, DispatchEffect
<1> HIDE DEF Begun, Refused
<1>6. Types'
  <2>1. "handling" \in ConnStates
    BY DEF ConnStates
  <2> QED BY <1>2, <1>5, <2>1 DEF Inv, Types, ApiTypes
<1>7. OneThread'
  BY <1>2, <1>3, WorkersAreNoConns DEF Inv, OneThread, Types
<1>8. Others(c)
  BY <1>2, <1>5 DEF Others, Same, OtherRuns, Inv, Types
<1>9. Routed(c)'
  <2>1. api'[c] # "none" => Fitting(uri) # {} /\ api'[c] = Routes[Chosen(uri)][1]
    BY <1>5 DEF Begun, Refused
  <2> QED BY <2>1, FirstIsLongest DEF Routed
<1>10. Answered(c)'
  BY <1>3 DEF Answered
<1>11. Succeeded(c)'
  BY <1>5 DEF Succeeded, Refused, Begun
<1>12. HandlerProgress(c)'
  <2>1. CASE Refused
    BY <1>3, <1>5, <2>1 DEF HandlerProgress, Refused
  <2>2. CASE Begun /\ Parses(api'[c])
    <3>1. ParsedSoFar(c)'
      BY <1>5, <2>2 DEF ParsedSoFar, Begun
    <3>2. TargetsUpTo(api'[c], Entries(text), 0, <<>>)
      BY DEF TargetsUpTo
    <3> QED BY <1>3, <1>5, <2>2, <3>1, <3>2 DEF HandlerProgress, Begun
  <2>3. CASE Begun /\ ~ Parses(api'[c])
    <3>1. Parsed(c)'
      BY <1>5, <2>3 DEF Parsed, ParsedSoFar
    <3>2. AllTargets(api'[c], Entries(text), targets'[c])
      BY <2>3 DEF AllTargets, TargetsUpTo, Parses, Begun
    <3> QED BY <1>3, <1>5, <2>3, <3>1, <3>2 DEF HandlerProgress, Begun
  <2> QED BY <1>5, <2>1, <2>2, <2>3
<1>13. ConnInv(c)'
  BY <1>9, <1>10, <1>11, <1>12 DEF ConnInv
<1> QED BY <1>6, <1>7, <1>8, <1>13, OthersKeep DEF Inv

-----------------------------------------------------------------------------
(* Reads *)

\* A response is written to a connection that waits for its text, and nothing else is done.
LEMMA RefuseKeeps ==
    ASSUME Inv, NEW c \in Conns, conn[c] \in {"headers", "body"}, NEW x \in Answers, Respond(c, x),
           UNCHANGED <<thread, body, apiVars>>, DOMAIN parser' = Conns,
           \A d \in Conns \ {c} : parser'[d] = parser[d]
    PROVE  Inv'
<1>1. conn' = [conn EXCEPT ![c] = "writing"] /\ answers' = [answers EXCEPT ![c] = Append(@, x)]
  BY DEF Respond
<1>2. Untouched(c) /\ step[c] = "none" /\ answers[c] = <<>> /\ ConnInv(c)
  BY DEF Inv, ConnInv, HandlerProgress
<1>3. conn'[c] = "writing" /\ answers'[c] = <<x>>
  BY <1>1, <1>2 DEF Inv, Types
<1>4. Types'
  BY <1>1, <1>2 DEF Inv, Types, apiVars, ConnStates
<1>5. OneThread'
  BY <1>1 DEF Inv, OneThread, Types
<1>6. Others(c)
  BY <1>1 DEF Others, Same, Inv, Types, apiVars
<1>7. HandlerProgress(c)'
  BY <1>2, <1>3 DEF HandlerProgress, Untouched, apiVars
<1>8. Answered(c)' /\ Succeeded(c)' /\ Routed(c)'
  BY <1>2, <1>3 DEF Answered, Succeeded, Routed, Untouched, apiVars
<1>9. ConnInv(c)'
  BY <1>7, <1>8 DEF ConnInv
<1> QED BY <1>4, <1>5, <1>6, <1>9, OthersKeep DEF Inv

\* Text has come, and more of it is wanted.
LEMMA WaitKeeps ==
    ASSUME Inv, NEW c \in Conns, conn[c] \in {"headers", "body"},
           conn' = conn \/ conn' = [conn EXCEPT ![c] = "body"],
           conn'[c] = "headers" => body' = body,
           UNCHANGED <<thread, answers, apiVars>>,
           DOMAIN body' = Conns, DOMAIN parser' = Conns,
           \A d \in Conns \ {c} : body'[d] = body[d] /\ parser'[d] = parser[d]
    PROVE  Inv'
<1>1. Untouched(c) /\ step[c] = "none" /\ answers[c] = <<>> /\ ConnInv(c)
  BY DEF Inv, ConnInv, HandlerProgress
<1>2. /\ Types' /\ conn'[c] \in {"headers", "body"}
      /\ conn'[c] = "headers" => conn[c] = "headers" /\ body' = body
  BY DEF Inv, Types, apiVars, ConnStates
<1>3. OneThread'
  BY DEF Inv, OneThread, Types
<1>4. Others(c)
  BY DEF Others, Same, Inv, Types, apiVars
<1>5. HandlerProgress(c)'
  BY <1>1, <1>2 DEF HandlerProgress, Untouched, apiVars, ConnInv
<1>6. Answered(c)' /\ Succeeded(c)' /\ Routed(c)'
  BY <1>1 DEF Answered, Succeeded, Routed, Untouched, apiVars
<1>7. ConnInv(c)'
  BY <1>5, <1>6 DEF ConnInv
<1> QED BY <1>2, <1>3, <1>4, <1>7, OthersKeep DEF Inv

LEMMA HeadersKeep ==
    ASSUME Inv, NEW w \in Workers, NEW c \in Conns, HandleReadHeaders(w, c)
    PROVE  Inv'
<1>1. thread[w] = "run" /\ conn[c] = "headers" /\ body[c] = <<>>
  BY DEF HandleReadHeaders, Idle, Inv, ConnInv, HandlerProgress
<1>2. PICK k \in ReadSizes(c) :
        LET read == ParseHeaders(parser[c], Chunk(c, k))
            p == [read EXCEPT !.used = 0]
        IN  /\ parser' = [parser EXCEPT ![c] = p]
            /\ \/ /\ p.state = "true"
                  /\ HeadComplete(w, c, p, SubSeq(Chunk(c, k), read.used + 1, k))
               \/ /\ p.state = "false"
                  /\ Respond(c, "bad_request")
                  /\ UNCHANGED <<body, left, serverVars, apiVars>>
               \/ /\ ~ Decided(p)
                  /\ UNCHANGED <<conn, body, left, serverVars, answers, apiVars>>
  BY DEF HandleReadHeaders
<1> DEFINE read == ParseHeaders(parser[c], Chunk(c, k))
           p == [read EXCEPT !.used = 0]
           rest == SubSeq(Chunk(c, k), read.used + 1, k)
<1>3. parser' = [parser EXCEPT ![c] = p]
  BY <1>2
<1>4. \/ HeadComplete(w, c, p, rest)
      \/ Respond(c, "bad_request") /\ UNCHANGED <<body, left, serverVars, apiVars>>
      \/ UNCHANGED <<conn, body, left, serverVars, answers, apiVars>>
  BY <1>2
<1> HIDE DEF p, rest
<1>5. /\ DOMAIN parser' = Conns /\ parser'[c] = p
      /\ \A d \in Conns \ {c} : parser'[d] = parser[d]
  BY <1>3 DEF Inv, Types
<1>6. "bad_request" \in Answers
  BY DEF Answers
<1>7. CASE Respond(c, "bad_request") /\ UNCHANGED <<body, left, serverVars, apiVars>>
  BY <1>1, <1>5, <1>6, <1>7, RefuseKeeps DEF serverVars
<1>8. CASE UNCHANGED <<conn, body, left, serverVars, answers, apiVars>>
  BY <1>1, <1>5, <1>8, WaitKeeps DEF serverVars, Inv, Types
<1>9. CASE HeadComplete(w, c, p, rest)
  <2>1. CASE body' = [body EXCEPT ![c] = rest]
    <3>1. /\ DOMAIN body' = Conns /\ body'[c] = rest
          /\ \A d \in Conns \ {c} : body'[d] = body[d]
      BY <2>1 DEF Inv, Types
    <3>2. CASE conn' = [conn EXCEPT ![c] = "body"] /\ UNCHANGED <<serverVars, answers, apiVars>>
      <4>1. conn'[c] # "headers"
        BY <3>2 DEF Inv, Types
      <4> QED BY <1>1, <1>5, <3>1, <3>2, <4>1, WaitKeeps DEF serverVars
    <3>3. CASE Handle(w, c, p.destination, rest)
      BY <1>1, <1>5, <3>1, <3>3, HandleKeeps
    <3>4. CASE Respond(c, "bad_request") /\ UNCHANGED <<body, left, serverVars, apiVars>>
      BY <1>7, <3>4
    <3>5. CASE Handle(w, c, p.destination, <<>>) /\ UNCHANGED body
      BY <1>1, <1>5, <3>5, HandleKeeps DEF Inv, Types
    <3> QED BY <1>9, <3>2, <3>3, <3>4, <3>5 DEF HeadComplete
  <2>2. CASE Respond(c, "bad_request") /\ UNCHANGED <<body, left, serverVars, apiVars>>
    BY <1>7, <2>2
  <2>3. CASE Handle(w, c, p.destination, <<>>) /\ UNCHANGED body
    BY <1>1, <1>5, <2>3, HandleKeeps DEF Inv, Types
  <2> QED BY <1>9, <2>1, <2>2, <2>3 DEF HeadComplete
<1> QED BY <1>4, <1>7, <1>8, <1>9

LEMMA BodyKeeps ==
    ASSUME Inv, NEW w \in Workers, NEW c \in Conns, HandleReadBody(w, c)
    PROVE  Inv'
<1>1. thread[w] = "run" /\ conn[c] = "body" /\ parser' = parser /\ DOMAIN parser' = Conns
  BY DEF HandleReadBody, Idle, Inv, Types
<1>2. PICK text :
        /\ body' = [body EXCEPT ![c] = text]
        /\ \/ Handle(w, c, parser[c].destination, text)
           \/ UNCHANGED <<conn, serverVars, answers, apiVars>>
  BY DEF HandleReadBody
<1>3. /\ DOMAIN body' = Conns /\ body'[c] = text
      /\ \A d \in Conns \ {c} : body'[d] = body[d]
  BY <1>2 DEF Inv, Types
<1>4. CASE Handle(w, c, parser[c].destination, text)
  BY <1>1, <1>3, <1>4, HandleKeeps
<1>5. CASE UNCHANGED <<conn, serverVars, answers, apiVars>>
  BY <1>1, <1>3, <1>5, WaitKeeps DEF serverVars, Inv, Types
<1> QED BY <1>2, <1>4, <1>5

-----------------------------------------------------------------------------
(* operator() goes on, and returns *)

\* What the invariant says of a run of operator() that is not at its end changes with the
\* variables of the run alone.
LEMMA RunKeeps ==
    ASSUME Inv, NEW c \in Conns, conn[c] = "handling", ApiTypes', OtherRuns(c),
           UNCHANGED <<thread, conn, answers, body, parser>>, api'[c] = api[c],
           step'[c] \notin {"none"},
           step'[c] = "parse" =>
               /\ Parses(api[c]) /\ ParsedSoFar(c)'
               /\ TargetsUpTo(api[c], Entries(body[c]), at'[c], targets'[c])
               /\ api[c] = "send" => targets'[c] = <<>> \/ Len(targets'[c]) = 1
               /\ made'[c] = 0,
           step'[c] = "call" => Parsed(c)' /\ AllTargets(api[c], Entries(body[c]), targets'[c]),
           step'[c] # "done" => answer'[c] = "none",
           made'[c] > 0 => Parsed(c)', Succeeded(c)'
    PROVE  Inv'
<1>1. ConnInv(c)
  BY DEF Inv
<1>2. Types'
  BY DEF Inv, Types, ApiTypes
<1>3. OneThread'
  BY DEF Inv, OneThread
<1>4. Others(c)
  BY DEF Others, Same, OtherRuns
<1>5. HandlerProgress(c)'
  BY <1>1 DEF HandlerProgress, ConnInv
<1>6. Answered(c)' /\ Routed(c)'
  BY <1>1 DEF ConnInv, Answered, Routed
<1>7. ConnInv(c)'
  BY <1>5, <1>6 DEF ConnInv
<1> QED BY <1>2, <1>3, <1>4, <1>7, OthersKeep DEF Inv

\* One more entry is read.
LEMMA ParseEntryKeeps ==
    ASSUME Inv, NEW c \in Conns, conn[c] = "handling", ParseEntry(c, body[c]),
           UNCHANGED <<thread, conn, answers, body, parser>>
    PROVE  Inv'
<1> DEFINE E == Entries(body[c])
           entry == E[at[c] + 1]
<1>1. /\ ApiTypes /\ step[c] = "parse" /\ made[c] = 0 /\ Parses(api[c]) /\ ParsedSoFar(c)
      /\ TargetsUpTo(api[c], E, at[c], targets[c])
      /\ api[c] = "send" => targets[c] = <<>> \/ Len(targets[c]) = 1
      /\ answer[c] = "none" /\ api' = api /\ made' = made
  BY DEF Inv, Types, ApiTypes, ConnInv, HandlerProgress, ParseEntry
<1>2. CASE Valid(api[c], entry) /\ UNCHANGED <<step, answer>>
  <2>1. /\ at' = [at EXCEPT ![c] = @ + 1]
        /\ targets' = [targets EXCEPT ![c] =
                IF ~ NamesTarget(api[c], entry) THEN @
                ELSE IF api[c] = "send" THEN <<entry.token>> ELSE Append(@, entry.token)]
    BY <1>2 DEF ParseEntry
  <2>2. NamesTarget(api[c], entry) => entry.token \in Uuids
    BY <1>2 DEF Valid
  <2> DEFINE t == IF ~ NamesTarget(api[c], entry) THEN targets[c]
                  ELSE IF api[c] = "send" THEN <<entry.token>>
                  ELSE Append(targets[c], entry.token)
             n == at[c] + 1
  <2>3. targets[c] \in Seq(Uuids \cup Apis) /\ at[c] \in Nat /\ n \in Nat
    BY <1>1 DEF ApiTypes
  <2> HIDE DEF E
  <2>4. t \in Seq(Uuids \cup Apis)
    <3>1. CASE ~ NamesTarget(api[c], entry)
      BY <2>3, <3>1
    <3>2. CASE entry.token \in Uuids
      <4>1. <<entry.token>> \in Seq(Uuids \cup Apis) /\ Append(targets[c], entry.token) \in Seq(Uuids \cup Apis)
        BY <2>3, <3>2
      <4> QED BY <2>3, <4>1
    <3> QED BY <2>2, <3>1, <3>2
  <2>5. targets' = [targets EXCEPT ![c] = t] /\ at' = [at EXCEPT ![c] = n]
    BY <2>1
  <2>6. api[c] = "send" => t = <<>> \/ Len(t) = 1
    BY <1>1
  <2>7. TargetsUpTo(api[c], E, n, t)
    <3>1. CASE api[c] = "send"
      <4>1. SUFFICES ASSUME NEW i \in 1 .. n, LastUuid(E, n, i)
                     PROVE  t = <<E[i].token>>
        BY <3>1 DEF TargetsUpTo
      <4>2. CASE i = n
        BY <3>1, <4>1, <4>2 DEF LastUuid, NamesTarget
      <4>3. CASE i # n
        <5>1. i \in 1 .. at[c] /\ n \in i + 1 .. n
          BY <2>3, <4>3
        <5>2. E[n].name # "uuid"
          BY <4>1, <5>1 DEF LastUuid
        <5>3. LastUuid(E, at[c], i)
          BY <2>3, <4>1 DEF LastUuid
        <5>4. targets[c] = <<E[i].token>>
          BY <1>1, <3>1, <5>1, <5>3 DEF TargetsUpTo
        <5> QED BY <3>1, <5>2, <5>4 DEF NamesTarget
      <4> QED BY <4>2, <4>3
    <3>2. CASE api[c] # "send"
      <4>1. t = Append(targets[c], entry.token) /\ entry.token \in Uuids
        BY <2>2, <3>2 DEF NamesTarget
      <4>2. Len(targets[c]) = at[c] /\ \A i \in 1 .. at[c] : targets[c][i] = E[i].token
        BY <1>1, <3>2 DEF TargetsUpTo
      <4> HIDE DEF t
      <4>3. Len(t) = n
        BY <2>3, <4>1, <4>2
      <4>4. \A i \in 1 .. n : t[i] = E[i].token
        BY <2>3, <4>1, <4>2
      <4> QED BY <3>2, <4>3, <4>4 DEF TargetsUpTo
    <3> QED BY <3>1, <3>2
  <2> HIDE DEF t
  <2>8. at'[c] = n /\ targets'[c] = t
    BY <1>1, <2>5 DEF ApiTypes
  <2>9. ParsedSoFar(c)'
    <3>1. \A i \in 1 .. n : Valid(api[c], E[i])
      BY <1>1, <1>2, <2>3 DEF ParsedSoFar, E
    <3> QED BY <1>1, <2>8, <3>1 DEF ParsedSoFar, E
  <2>10. ApiTypes' /\ OtherRuns(c)
    BY <1>1, <1>2, <2>3, <2>4, <2>5 DEF ApiTypes, OtherRuns
  <2>11. Succeeded(c)'
    BY <1>1, <1>2 DEF Succeeded
  <2>12. step'[c] = "parse" /\ made'[c] = 0 /\ answer'[c] = "none"
    BY <1>1, <1>2
  <2> QED BY <1>1, <2>6, <2>7, <2>8, <2>9, <2>10, <2>11, <2>12, RunKeeps DEF E
<1>3. CASE Reply(c, "error") /\ UNCHANGED <<at, targets>>
  <2>1. ApiTypes' /\ OtherRuns(c) /\ step'[c] = "done" /\ answer'[c] = "error"
    BY <1>1, <1>3 DEF ApiTypes, Reply, OtherRuns, Answers
  <2> QED BY <1>1, <2>1, RunKeeps DEF Succeeded
<1> QED BY <1>2, <1>3 DEF ParseEntry

\* All entries are read: a push without a "uuid" takes some device.
LEMMA StartCallsKeeps ==
    ASSUME Inv, NEW c \in Conns, conn[c] = "handling", StartCalls(c, body[c]),
           UNCHANGED <<thread, conn, answers, body, parser>>
    PROVE  Inv'
<1> DEFINE E == Entries(body[c])
<1>1. /\ ApiTypes /\ step[c] = "parse" /\ made[c] = 0 /\ Parses(api[c]) /\ ParsedSoFar(c)
      /\ TargetsUpTo(api[c], E, at[c], targets[c])
      /\ api[c] = "send" => targets[c] = <<>> \/ Len(targets[c]) = 1
      /\ answer[c] = "none" /\ UNCHANGED <<api, at, made, answer>>
      /\ at[c] = Len(E) /\ step' = [step EXCEPT ![c] = "call"]
  BY DEF Inv, Types, ApiTypes, ConnInv, HandlerProgress, StartCalls
<1>2. Parsed(c)'
  BY <1>1 DEF Parsed, ParsedSoFar
<1>3. step'[c] = "call" /\ answer'[c] = "none" /\ made'[c] = 0
  BY <1>1 DEF ApiTypes
<1>4. Succeeded(c)'
  BY <1>3 DEF Succeeded
<1> HIDE DEF E
<1>5. CASE api[c] = "send" /\ targets[c] = <<>>
  <2>1. PICK d \in Uuids : targets' = [targets EXCEPT ![c] = <<d>>]
    BY <1>5 DEF StartCalls
  <2>2. ApiTypes' /\ OtherRuns(c) /\ targets'[c] = <<d>>
    BY <1>1, <2>1 DEF ApiTypes, OtherRuns
  <2>3. AllTargets(api[c], E, <<d>>)
    <3>1. \A i \in 1 .. at[c] : ~ LastUuid(E, at[c], i)
      <4>1. \A x : <<>> # <<x>>
        OBVIOUS
      <4> QED BY <1>1, <1>5, <4>1 DEF TargetsUpTo
    <3> QED BY <1>1, <1>5, <3>1 DEF AllTargets, TargetsUpTo
  <2> QED BY <1>1, <1>2, <1>3, <1>4, <2>2, <2>3, RunKeeps DEF E
<1>6. CASE ~ (api[c] = "send" /\ targets[c] = <<>>)
  <2>1. targets' = targets
    BY <1>6 DEF StartCalls
  <2>2. ApiTypes' /\ OtherRuns(c)
    BY <1>1, <2>1 DEF ApiTypes, OtherRuns
  <2>3. api[c] = "send" => Len(targets[c]) = 1
    BY <1>1, <1>6
  <2>4. AllTargets(api[c], E, targets[c])
    BY <1>1, <2>3 DEF AllTargets, Parses
  <2> QED BY <1>1, <1>2, <1>3, <1>4, <2>1, <2>2, <2>4, RunKeeps DEF E
<1> QED BY <1>5, <1>6

\* A call returns or throws, or all have returned.
LEMMA CallsKeep ==
    ASSUME Inv, NEW c \in Conns, conn[c] = "handling", Call(c) \/ CallThrows(c) \/ Succeed(c),
           UNCHANGED <<thread, conn, answers, body, parser>>
    PROVE  Inv'
<1>1. /\ ApiTypes /\ step[c] = "call" /\ Parsed(c) /\ answer[c] = "none"
      /\ AllTargets(api[c], Entries(body[c]), targets[c])
      /\ UNCHANGED <<api, at, targets>>
  BY DEF Inv, Types, ApiTypes, ConnInv, HandlerProgress, Call, CallThrows, Succeed
<1>2. Parsed(c)'
  BY <1>1 DEF Parsed, ParsedSoFar
<1>3. CASE Call(c)
  <2>1. ApiTypes' /\ OtherRuns(c) /\ step'[c] = "call" /\ answer'[c] = "none"
    BY <1>1, <1>3 DEF Call, ApiTypes, OtherRuns
  <2> QED BY <1>1, <1>2, <2>1, RunKeeps DEF Succeeded
<1>4. CASE CallThrows(c)
  <2>1. ApiTypes' /\ OtherRuns(c) /\ step'[c] = "done" /\ answer'[c] = "error"
    BY <1>1, <1>4 DEF CallThrows, Reply, ApiTypes, OtherRuns, Answers
  <2> QED BY <1>1, <1>2, <2>1, RunKeeps DEF Succeeded
<1>5. CASE Succeed(c)
  <2>1. /\ ApiTypes' /\ OtherRuns(c) /\ step'[c] = "done"
        /\ made'[c] = Len(targets'[c])
    BY <1>1, <1>5 DEF Succeed, Reply, ApiTypes, OtherRuns, Answers
  <2> QED BY <1>1, <1>2, <2>1, RunKeeps DEF Succeeded
<1> QED BY <1>3, <1>4, <1>5

LEMMA WorkKeeps ==
    ASSUME Inv, NEW w \in Workers, Work(w)
    PROVE  Inv'
<1> DEFINE c == thread[w]
<1>1. c \in Conns /\ conn[c] = "handling"
  BY DEF Work, Inv, OneThread
<1>2. UNCHANGED <<thread, conn, answers, body, parser>> /\ HandlerStep(c, body[c])
  BY DEF Work, serverVars, connVars
<1> HIDE DEF c
<1> QED BY <1>1, <1>2, ParseEntryKeeps, StartCallsKeeps, CallsKeep DEF HandlerStep

LEMMA AnswerKeeps ==
    ASSUME Inv, NEW w \in Workers, NEW c \in Conns, thread[w] = c, Answer(w)
    PROVE  Inv'
<1>1. /\ conn[c] = "handling" /\ answers[c] = <<>> /\ step[c] = "done"
      /\ ConnInv(c) /\ answer[c] \in Answers
  BY DEF Answer, Inv, OneThread, ConnInv, HandlerProgress, Types
<1>2. /\ conn' = [conn EXCEPT ![c] = "writing"]
      /\ answers' = [answers EXCEPT ![c] = Append(@, answer[c])]
      /\ thread' = [thread EXCEPT ![w] = "run"]
      /\ UNCHANGED <<parser, body, apiVars>>
  BY DEF Answer, Respond
<1>3. OneThread'
  BY <1>2, WorkersAreNoConns DEF Inv, OneThread, Types
<1>4. conn'[c] = "writing" /\ answers'[c] = <<answer[c]>>
  BY <1>1, <1>2 DEF Inv, Types
<1>5. Types'
  BY <1>1, <1>2 DEF Inv, Types, apiVars, ConnStates
<1>6. Others(c)
  BY <1>2 DEF Others, Same, Inv, Types, apiVars
<1>7. HandlerProgress(c)'
  BY <1>1, <1>2, <1>4 DEF ConnInv, HandlerProgress, Untouched, Parsed, ParsedSoFar, apiVars
<1>8. Answered(c)'
  BY <1>4 DEF Answered
<1>9. Succeeded(c)' /\ Routed(c)'
  BY <1>1, <1>2 DEF ConnInv, Succeeded, Routed, apiVars
<1>10. ConnInv(c)'
  BY <1>7, <1>8, <1>9 DEF ConnInv
<1> QED BY <1>1, <1>3, <1>5, <1>6, <1>10, OthersKeep DEF Inv

-----------------------------------------------------------------------------
(* The theorem *)

LEMMA InitInv == Init => Inv
<1> SUFFICES ASSUME Init
             PROVE  Inv
  OBVIOUS
<1>1. Types
  BY DEF Init, ApiInit, Types, ConnStates, Apis, Answers
<1>2. OneThread
  BY WorkersAreNoConns DEF Init, OneThread
<1>3. ASSUME NEW c \in Conns
      PROVE  ConnInv(c)
  BY DEF Init, ApiInit, ConnInv, HandlerProgress, Untouched, Answered, Succeeded, Routed
<1> QED BY <1>1, <1>2, <1>3 DEF Inv

LEMMA ConnectKeeps ==
    ASSUME Inv, NEW c \in Conns, Connect(c)
    PROVE  Inv'
<1>1. /\ conn[c] = "new" /\ conn' = [conn EXCEPT ![c] = "backlog"]
      /\ UNCHANGED <<thread, answers, body, parser, apiVars>>
  BY DEF Connect, serverVars
<1>2. step[c] = "none" /\ body[c] = <<>> /\ answers[c] = <<>>
  BY <1>1 DEF Inv, ConnInv, HandlerProgress
<1> QED BY <1>1, <1>2, MoveKeeps DEF ConnStates

LEMMA AcceptKeeps ==
    ASSUME Inv, NEW w \in Workers, NEW c \in Conns, Accept(w, c)
    PROVE  Inv'
<1>1. /\ conn[c] = "backlog" /\ UNCHANGED <<thread, answers, body, parser, apiVars>>
      /\ conn' = [conn EXCEPT ![c] = "headers"] \/ conn' = [conn EXCEPT ![c] = "closed"]
  BY DEF Accept, serverVars
<1>2. step[c] = "none" /\ body[c] = <<>> /\ answers[c] = <<>>
  BY <1>1 DEF Inv, ConnInv, HandlerProgress
<1>3. CASE conn' = [conn EXCEPT ![c] = "headers"]
  BY <1>1, <1>2, <1>3, MoveKeeps DEF ConnStates
<1>4. CASE conn' = [conn EXCEPT ![c] = "closed"]
  BY <1>1, <1>4, MoveKeeps DEF ConnStates
<1> QED BY <1>1, <1>3, <1>4

LEMMA CloseKeeps ==
    ASSUME Inv, NEW w \in Workers, NEW c \in Conns, ReadFails(w, c) \/ HandleWrite(w, c)
    PROVE  Inv'
<1>1. /\ conn[c] # "handling" /\ conn' = [conn EXCEPT ![c] = "closed"]
      /\ UNCHANGED <<thread, answers, body, parser, apiVars>>
  BY DEF ReadFails, HandleWrite, serverVars
<1> QED BY <1>1, MoveKeeps DEF ConnStates

LEMMA QuietSteps ==
    ASSUME Inv,
           \/ \E c \in Conns : GoAway(c)
           \/ \E w \in Workers : Listen(w) \/ RunReturns(w) \/ \E c \in Conns : EndpointThrows(w, c)
           \/ Stop \/ Exit \/ UNCHANGED vars
    PROVE  Inv'
<1>1. UNCHANGED <<conn, answers, body, parser, apiVars>>
  BY DEF GoAway, Listen, RunReturns, EndpointThrows, Stop, Exit, vars, connVars, serverVars
<1>2. /\ thread' \in [Workers -> Conns \cup {"start", "run", "end"}]
      /\ \A w \in Workers : thread'[w] = thread[w] \/ thread'[w] \notin Conns
  <2>1. CASE ProcessEnds
    BY <2>1, WorkersAreNoConns DEF ProcessEnds
  <2>2. CASE UNCHANGED thread
    BY <2>2 DEF Inv, Types
  <2>3. ASSUME NEW w \in Workers, NEW l \in {"run", "end"}, thread' = [thread EXCEPT ![w] = l]
        PROVE  <1>2!1 /\ <1>2!2
    BY <2>3, WorkersAreNoConns DEF Inv, Types
  <2> QED BY <2>1, <2>2, <2>3
          DEF GoAway, Listen, RunReturns, EndpointThrows, Stop, Exit, vars, serverVars
<1> QED BY <1>1, <1>2, QuietKeeps DEF Quiet

LEMMA NextInv == Inv /\ [Next]_vars => Inv'
<1> SUFFICES ASSUME Inv, [Next]_vars
             PROVE  Inv'
  OBVIOUS
<1>1. ASSUME NEW c \in Conns, Connect(c)
      PROVE  Inv'
  BY <1>1, ConnectKeeps
<1>2. ASSUME NEW w \in Workers, NEW c \in Conns, Completion(w, c)
      PROVE  Inv'
  BY <1>2, AcceptKeeps, HeadersKeep, BodyKeeps, CloseKeeps, QuietSteps DEF Completion
<1>3. ASSUME NEW w \in Workers, WorkerStep(w)
      PROVE  Inv'
  <2>1. Answer(w) => thread[w] \in Conns
    BY DEF Answer
  <2> QED BY <1>3, <2>1, WorkKeeps, AnswerKeeps, QuietSteps DEF WorkerStep
<1>4. ASSUME NEW c \in Conns, GoAway(c)
      PROVE  Inv'
  BY <1>4, QuietSteps
<1>5. CASE Stop \/ Exit \/ UNCHANGED vars
  BY <1>5, QuietSteps
<1> QED BY <1>1, <1>2, <1>3, <1>4, <1>5 DEF Next

\* The invariant that explains the server: one worker for a request, how far its handler
\* has read, and what that promises of calls and answers.
THEOREM RequestsKept == Spec => []RequestInv
<1>1. Spec => []Inv
  BY InitInv, NextInv, PTL DEF Spec
<1> QED BY <1>1, InvIsRequestInv, PTL

LEMMA RequestInvParts == RequestInv => AnsweredOnce /\ SuccessMeansAll /\ MostSpecific
BY DEF RequestInv

\* Every client gets at most one response, and none while its request is read or handled.
THEOREM OneAnswer == Spec => []AnsweredOnce
BY RequestsKept, RequestInvParts, PTL

\* A request with an entry that is refused has made no call, wherever the entry stands.
THEOREM InvalidInputDoesNothing == Spec => []InvalidDoesNothing
<1>1. RequestInv => InvalidDoesNothing
  BY DEF RequestInv, HandlerProgress, Parsed, ParsedSoFar, InvalidDoesNothing
<1> QED BY <1>1, RequestsKept, PTL

\* "success" means that the calls for all that the request names have returned.
THEOREM SuccessIsComplete == Spec => []SuccessMeansAll
BY RequestsKept, RequestInvParts, PTL

\* A URI runs the function whose route says most of it.
THEOREM RightFunction == Spec => []MostSpecific
BY RequestsKept, RequestInvParts, PTL

============================================================================
