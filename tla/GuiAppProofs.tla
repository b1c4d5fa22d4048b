---------------------------- MODULE GuiAppProofs ----------------------------
(***************************************************************************)
(* Proofs about GuiApp, for every set of projects, references and          *)
(* commands, and any number of calls, answers overtaking each other, edits *)
(* and commits from outside.                                               *)
(***************************************************************************)
EXTENDS GuiApp, TLAPS

Plan ==
    [operation : Commands, root : Roots, reference : References, previousHead : Nat]

Sent ==
    [use : {"none", "run", "preview", "apply"}, command : Commands \cup {"none"},
     root : Roots \cup {"none"}, reference : References \cup {"none"}, token : Nat, shown : Nat,
     state : {"sent", "answered", "rendered"}, answer : Int]

PageType ==
    /\ form \in [command : Commands \cup {"none"}, root : Roots, reference : References]
    /\ panel \in [kind : {"empty", "error", "plan"}, token : Nat]
    /\ lastToken \in Nat
    /\ canApply \in BOOLEAN

ServerType ==
    /\ plans \in Seq(Plan)
    /\ kept \subseteq Tokens
    /\ head \in [Roots -> Nat]
    /\ calls \in Seq(Sent)

\* A call: what it asks for, what it may be told, and an Apply sends the token
\* that was on the panel.
CallInv(c) ==
    /\ calls[c].answer \in Tokens \cup {-1, 0}
    /\ calls[c].use \in {"preview", "apply"} =>
           calls[c].command \in Commands /\ calls[c].root \in Roots /\ calls[c].reference \in References
    /\ calls[c].use = "apply" => calls[c].token = calls[c].shown /\ calls[c].token \in Tokens

PageInv ==
    /\ PageType
    /\ ServerType
    /\ panel.token \in Tokens \cup {0}
    /\ lastToken \in Tokens \cup {0}
    /\ \A c \in Call : CallInv(c)
    /\ ApplyMeansShown

-----------------------------------------------------------------------------
(* The user. *)

LEMMA SendKeeps ==
    ASSUME PageInv, NEW use \in {"run", "preview", "apply"}, NEW token \in Nat, Send(use, token),
           use # "run" => form.command \in Commands,
           use = "apply" => token \in Tokens /\ panel.token = token
    PROVE  PageInv'
<1> DEFINE sent == [use |-> use, command |-> form.command, root |-> form.root,
                    reference |-> form.reference, token |-> token, shown |-> panel.token,
                    state |-> "sent", answer |-> 0]
<1>1. sent \in Sent
  BY DEF PageInv, PageType, Sent
<1>2. calls' = Append(calls, sent) /\ UNCHANGED <<page, server>>
  BY DEF Send
<1>3. UNCHANGED <<form, panel, lastToken, canApply, plans, kept, head>>
  BY <1>2 DEF page, server
<1>4. calls \in Seq(Sent)
  BY DEF PageInv, ServerType
<1> HIDE DEF sent
<1>5. calls' \in Seq(Sent) /\ Len(calls') = Len(calls) + 1 /\ Len(calls) \in Nat
      /\ calls'[Len(calls) + 1] = sent /\ \A c \in 1..Len(calls) : calls'[c] = calls[c]
  BY <1>1, <1>2, <1>4
<1>6. ASSUME NEW c \in Call' PROVE CallInv(c)'
  <2>1. CASE c \in Call
    BY <2>1, <1>3, <1>5 DEF PageInv, CallInv, Call, Tokens
  <2>2. CASE c = Len(calls) + 1
    <3>1. /\ sent.answer = 0 /\ sent.use = use /\ sent.command = form.command /\ sent.root = form.root
          /\ sent.reference = form.reference /\ sent.token = token /\ sent.shown = panel.token
      BY DEF sent
    <3> QED BY <2>2, <3>1, <1>3, <1>5 DEF PageInv, PageType, CallInv, Tokens
  <2> QED BY <1>5, <2>1, <2>2 DEF Call
<1> QED BY <1>3, <1>5, <1>6 DEF PageInv, PageType, ServerType, Tokens, ApplyMeansShown

\* Steps that leave calls, plans and kept tokens alone.
LEMMA PageKeeps ==
    ASSUME PageInv, UNCHANGED <<calls, plans, kept>>, head' \in [Roots -> Nat],
           PageType', panel'.token \in Tokens \cup {0}, lastToken' \in Tokens \cup {0},
           ApplyMeansShown'
    PROVE  PageInv'
BY DEF PageInv, ServerType, CallInv, Call, Tokens

LEMMA UserKeeps ==
    ASSUME PageInv, Select \/ TypeField \/ Primary \/ Apply \/ Outside
    PROVE  PageInv'
<1>1. CASE Select
  BY <1>1, PageKeeps DEF Select, ForgetPlan, Empty, server, PageInv, PageType, ServerType, ApplyMeansShown
<1>2. CASE TypeField
  BY <1>2, PageKeeps DEF TypeField, server, PageInv, PageType, ServerType, ApplyMeansShown
<1>3. CASE Primary
  BY <1>3, SendKeeps DEF Primary, Planned
<1>4. CASE Apply
  <2>1. lastToken \in Tokens /\ lastToken \in Nat /\ panel.token = lastToken
    BY <1>4 DEF Apply, PageInv, PageType, ApplyMeansShown
  <2> QED BY <1>4, <2>1, SendKeeps DEF Apply, Planned
<1>5. CASE Outside
  BY <1>5, PageKeeps DEF Outside, page, PageInv, PageType, ServerType, ApplyMeansShown
<1> QED BY <1>1, <1>2, <1>3, <1>4, <1>5

-----------------------------------------------------------------------------
(* The server, and the page when an answer comes. *)

\* An answer changes the state and the answer of its call alone.
LEMMA AnswerChanges ==
    ASSUME calls \in Seq(Sent), NEW c \in Call, NEW answer \in Int, Answer(c, answer)
    PROVE  /\ calls' \in Seq(Sent)
           /\ Len(calls') = Len(calls)
           /\ \A d \in Call \ {c} : calls'[d] = calls[d]
           /\ calls'[c] = [calls[c] EXCEPT !.state = "answered", !.answer = answer]
<1> DEFINE answered == [calls[c] EXCEPT !.state = "answered", !.answer = answer]
<1>1. calls[c] \in Sent
  BY DEF Call
<1>2. answered \in Sent
  BY <1>1 DEF Sent
<1>3. calls' = [calls EXCEPT ![c] = answered]
  BY DEF Answer
<1> HIDE DEF answered
<1>4. /\ calls' \in Seq(Sent)
      /\ Len(calls') = Len(calls)
      /\ \A d \in Call \ {c} : calls'[d] = calls[d]
      /\ calls'[c] = answered
  BY <1>2, <1>3 DEF Call
<1> QED BY <1>4 DEF answered

\* The invariant after an answer, when the server has the same plans or more.
LEMMA AnswerKeeps ==
    ASSUME PageInv, UNCHANGED page, NEW c \in Call, NEW answer \in Int, Answer(c, answer),
           answer \in Tokens' \cup {-1, 0},
           plans' \in Seq(Plan), Tokens \subseteq Tokens', kept' \subseteq Tokens',
           head' \in [Roots -> Nat]
    PROVE  PageInv'
<1>1. calls \in Seq(Sent)
  BY DEF PageInv, ServerType
<1>2. /\ calls' \in Seq(Sent)
      /\ Len(calls') = Len(calls)
      /\ \A d \in Call \ {c} : calls'[d] = calls[d]
      /\ calls'[c] = [calls[c] EXCEPT !.state = "answered", !.answer = answer]
  BY <1>1, AnswerChanges
<1>3. Call' = Call
  BY <1>2 DEF Call
<1>4. calls[c] \in Sent
  BY <1>1 DEF Call
<1>5. /\ calls'[c].use = calls[c].use /\ calls'[c].command = calls[c].command
      /\ calls'[c].root = calls[c].root /\ calls'[c].reference = calls[c].reference
      /\ calls'[c].token = calls[c].token /\ calls'[c].shown = calls[c].shown
      /\ calls'[c].answer = answer
  BY <1>2, <1>4 DEF Sent
<1>6. ASSUME NEW d \in Call PROVE CallInv(d)'
  <2>1. CallInv(d)
    BY DEF PageInv
  <2>2. CASE d = c
    BY <2>1, <2>2, <1>5 DEF CallInv
  <2>3. CASE d # c
    BY <2>1, <2>3, <1>2 DEF CallInv
  <2> QED BY <2>2, <2>3
<1>7. UNCHANGED <<form, panel, lastToken, canApply>>
  BY DEF page
<1> QED BY <1>2, <1>3, <1>6, <1>7 DEF PageInv, PageType, ServerType, ApplyMeansShown

LEMMA ServeKeeps ==
    ASSUME PageInv, NEW c \in Call, Serve(c)
    PROVE  PageInv'
<1>1. UNCHANGED page /\ (ServeRun(c) \/ ServePreview(c) \/ ServeApply(c))
  BY DEF Serve
<1>2. plans \in Seq(Plan) /\ kept \subseteq Tokens /\ head \in [Roots -> Nat]
  BY DEF PageInv, ServerType
<1>3. CASE ServeRun(c)
  BY <1>1, <1>2, <1>3, AnswerKeeps DEF ServeRun, server, Tokens
<1>4. CASE ServePreview(c)
  <2>1. CASE Answer(c, -1) /\ UNCHANGED server
    BY <1>1, <1>2, <2>1, AnswerKeeps DEF server, Tokens
  <2>2. CASE ~(Answer(c, -1) /\ UNCHANGED server)
    <3> DEFINE plan == [operation |-> calls[c].command, root |-> calls[c].root,
                        reference |-> calls[c].reference, previousHead |-> head[calls[c].root]]
    <3>1. /\ plans' = Append(plans, plan) /\ kept' = kept \cup {Len(plans')}
          /\ Answer(c, Len(plans')) /\ UNCHANGED head
      BY <1>4, <2>2 DEF ServePreview
    <3>2. plan \in Plan
      BY <1>2, <1>4 DEF ServePreview, PageInv, CallInv, Plan
    <3> HIDE DEF plan
    <3>3. plans' \in Seq(Plan) /\ Tokens' = Tokens \cup {Len(plans')} /\ Len(plans') \in Nat
      BY <1>2, <3>1, <3>2 DEF Tokens
    <3> QED BY <1>1, <1>2, <3>1, <3>3, AnswerKeeps
  <2> QED BY <1>4, <2>1, <2>2 DEF ServePreview
<1>5. CASE ServeApply(c)
  <2>1. plans' = plans /\ Tokens' = Tokens /\ kept' \subseteq Tokens'
    BY <1>2, <1>5 DEF ServeApply, Tokens
  <2>2. head' \in [Roots -> Nat]
    BY <1>2, <1>5 DEF ServeApply
  <2>3. PICK answer \in {-1, 0} : Answer(c, answer)
    BY <1>5 DEF ServeApply
  <2> QED BY <1>1, <1>2, <2>1, <2>2, <2>3, AnswerKeeps
<1> QED BY <1>1, <1>3, <1>4, <1>5

LEMMA LoseKeeps ==
    ASSUME PageInv, NEW c \in Call, Lose(c)
    PROVE  PageInv'
BY AnswerKeeps DEF Lose, server, PageInv, ServerType, Tokens

LEMMA RenderKeeps ==
    ASSUME PageInv, NEW c \in Call, Render(c)
    PROVE  PageInv'
<1>1. UNCHANGED <<form, plans, kept, head>> /\ Tokens' = Tokens
  BY DEF Render, server, Tokens
<1>2. calls \in Seq(Sent) /\ CallInv(c) /\ calls[c] \in Sent
  BY DEF PageInv, ServerType, Call
<1>3. Over \in Sent /\ calls' = [calls EXCEPT ![c] = Over]
  BY DEF Render, Rendered, Over, Sent
<1>4. calls' \in Seq(Sent) /\ Call' = Call /\ calls'[c] = Over
      /\ \A d \in Call \ {c} : calls'[d] = calls[d]
  <2> HIDE DEF Over
  <2> QED BY <1>2, <1>3 DEF Call
<1>5. ASSUME NEW d \in Call PROVE CallInv(d)'
  <2>1. CASE d = c
    BY <1>4, <2>1 DEF CallInv, Over
  <2>2. CASE d # c
    BY <1>1, <1>4, <2>2 DEF PageInv, CallInv
  <2> QED BY <2>1, <2>2
<1>6. /\ PageType' /\ ApplyMeansShown'
      /\ panel'.token \in Tokens \cup {0} /\ lastToken' \in Tokens \cup {0}
  <2>0. Tokens \subseteq Nat
    BY DEF PageInv, ServerType, Tokens
  <2>1. CASE RenderPreview(c)
    <3>1. CASE calls[c].answer = -1
      <4>1. /\ panel' = [kind |-> "error", token |-> 0]
            /\ canApply' = FALSE /\ lastToken' = lastToken
        BY <2>1, <3>1 DEF RenderPreview
      <4>2. panel' \in [kind : {"empty", "error", "plan"}, token : Nat] /\ panel'.token = 0
        BY <4>1
      <4>3. form' \in [command : Commands \cup {"none"}, root : Roots, reference : References]
        BY <1>1 DEF PageInv, PageType
      <4>4. lastToken' \in Nat /\ canApply' \in BOOLEAN
        BY <4>1 DEF PageInv, PageType
      <4> QED BY <4>1, <4>2, <4>3, <4>4 DEF PageInv, PageType, ApplyMeansShown
    <3>2. CASE calls[c].answer # -1
      <4>1. calls[c].answer \in Tokens \cup {0}
        BY <1>2, <3>2 DEF CallInv
      <4>2. panel' = [kind |-> "plan", token |-> calls[c].answer]
            /\ canApply' = TRUE /\ lastToken' = calls[c].answer
        BY <2>1, <3>2 DEF RenderPreview
      <4>3. PageType'
        <5>0. calls[c].answer \in Nat
          <6>1. CASE calls[c].answer \in Tokens
            BY <2>0, <6>1, Zenon
          <6> QED BY <4>1, <6>1
        <5>1. panel' \in [kind : {"empty", "error", "plan"}, token : Nat]
          BY <4>2, <5>0
        <5>2. form' \in [command : Commands \cup {"none"}, root : Roots, reference : References]
          BY <1>1 DEF PageInv, PageType
        <5>3. lastToken' \in Nat /\ canApply' \in BOOLEAN
          BY <4>2, <5>0
        <5> QED BY <5>1, <5>2, <5>3 DEF PageType
      <4>4. ApplyMeansShown'
        BY <4>2 DEF ApplyMeansShown
      <4> QED BY <4>1, <4>2, <4>3, <4>4
    <3> QED BY <3>1, <3>2
  <2>2. CASE RenderResult(c)
    <3>1. /\ panel' = panel
          /\ \/ lastToken' = 0 /\ canApply' = FALSE
             \/ lastToken' = lastToken /\ canApply' = canApply
      BY <2>2 DEF RenderResult, ForgetPlan
    <3>2. PageType'
      <4>1. PageType /\ UNCHANGED form
        BY <1>1 DEF PageInv
      <4>2. lastToken' \in Nat
        BY <3>1, <4>1 DEF PageType
      <4>3. canApply' \in BOOLEAN
        BY <3>1, <4>1, Zenon DEF PageType
      <4> QED BY <3>1, <4>1, <4>2, <4>3 DEF PageType
    <3>3. ApplyMeansShown'
      BY <3>1 DEF PageInv, ApplyMeansShown
    <3> QED BY <3>1, <3>2, <3>3 DEF PageInv
  <2> QED BY <2>1, <2>2 DEF Render
<1> QED BY <1>1, <1>4, <1>5, <1>6 DEF PageInv, ServerType

-----------------------------------------------------------------------------
(* The theorems. *)

LEMMA InitPage == Init => PageInv
<1> SUFFICES ASSUME Init PROVE PageInv
  OBVIOUS
<1>1. calls = <<>> /\ plans = <<>> /\ Call = {} /\ Tokens = {}
  BY DEF Init, Call, Tokens
<1>2. PageType /\ ApplyMeansShown /\ panel.token = 0 /\ lastToken = 0
  BY DEF Init, Empty, PageType, ApplyMeansShown
<1>3. head \in [Roots -> Nat] /\ kept = {}
  BY DEF Init
<1>4. calls \in Seq(Sent) /\ plans \in Seq(Plan)
  BY <1>1
<1> QED BY <1>1, <1>2, <1>3, <1>4 DEF PageInv, ServerType

LEMMA StepKeeps == PageInv /\ [Next]_vars => PageInv'
<1> SUFFICES ASSUME PageInv, [Next]_vars PROVE PageInv'
  OBVIOUS
<1>1. CASE Select \/ TypeField \/ Primary \/ Apply \/ Outside
  BY <1>1, UserKeeps
<1>2. CASE \E c \in Call : Serve(c) \/ Lose(c) \/ Render(c)
  BY <1>2, ServeKeeps, LoseKeeps, RenderKeeps
<1>3. CASE UNCHANGED vars
  BY <1>3 DEF vars, page, server, PageInv, PageType, ServerType, CallInv, ApplyMeansShown, Call, Tokens
<1> QED BY <1>1, <1>2, <1>3 DEF Next

\* The inductive invariant: besides what the variables range over, an Apply
\* sends the token the panel showed, and the panel's, the page's and the
\* answers' tokens are of plans the server handed out.
THEOREM PageInvariant == Spec => []PageInv
BY InitPage, StepKeeps, PTL DEF Spec

\* Type correctness of page and server.
THEOREM PageTypeCorrect == Spec => []TypeOK
<1>1. PageInv => TypeOK
  BY DEF PageInv, PageType, ServerType, CallInv, TypeOK, Tokens
<1> QED BY <1>1, PageInvariant, PTL

\* What Apply would send is what the panel shows, in whatever order answers
\* come and whatever the user selects meanwhile.
THEOREM ApplyAlwaysMeansShown == Spec => []ApplyMeansShown
<1>1. PageInv => ApplyMeansShown
  BY DEF PageInv
<1> QED BY <1>1, PageInvariant, PTL

\* A call commits when the server serves it, and no other call changes then.
LEMMA CommitIsApply ==
    ASSUME PageInv, Next, NEW c \in Call, Commits(c)
    PROVE  ServeApply(c) /\ ~UNCHANGED head
<1>1. ~UNCHANGED head /\ calls'[c] # calls[c] /\ calls[c].use = "apply"
  BY DEF Commits
<1>2. ~(Select \/ TypeField \/ Primary \/ Apply \/ Outside)
  BY <1>1 DEF Select, TypeField, Primary, Apply, Send, Outside, server
<1>3. PICK d \in Call : Serve(d) \/ Lose(d) \/ Render(d)
  BY <1>2 DEF Next
<1>4. Serve(d)
  BY <1>1, <1>3 DEF Lose, Render, server
<1>5. PICK answer \in Int : Answer(d, answer)
  <2>1. Len(plans') \in Int \/ ~ServePreview(d) \/ Answer(d, -1)
    <3>1. CASE ServePreview(d) /\ ~Answer(d, -1)
      <4> DEFINE plan == [operation |-> calls[d].command, root |-> calls[d].root,
                          reference |-> calls[d].reference, previousHead |-> head[calls[d].root]]
      <4>1. plans' = Append(plans, plan)
        BY <3>1 DEF ServePreview
      <4>2. plan \in Plan
        BY <3>1 DEF ServePreview, PageInv, CallInv, ServerType, Plan
      <4> HIDE DEF plan
      <4> QED BY <4>1, <4>2 DEF PageInv, ServerType
    <3> QED BY <3>1
  <2> QED BY <1>4, <2>1 DEF Serve, ServeRun, ServePreview, ServeApply
<1>6. d = c
  BY <1>1, <1>5, AnswerChanges DEF PageInv, ServerType
<1> QED BY <1>1, <1>4, <1>6 DEF Serve, ServeRun, ServePreview, server

\* A click on Apply commits nothing but what the panel showed at the click.
THEOREM AlwaysAppliedAsShown == Spec => AppliedAsShown
<1> DEFINE Shown(c) ==
        Commits(c) =>
          /\ calls[c].shown \in Tokens
          /\ LET shown == plans[calls[c].shown]
             IN  /\ shown.operation = calls[c].command
                 /\ {r \in Roots : head'[r] # head[r]} = {shown.root}
                 /\ shown.operation = "sync" => head[shown.root] = shown.previousHead
<1>1. ASSUME PageInv, Next, NEW c \in Call PROVE Shown(c)
  <2> SUFFICES ASSUME Commits(c) PROVE Shown(c)
    OBVIOUS
  <2>1. ServeApply(c) /\ ~UNCHANGED head
    BY <1>1, CommitIsApply
  <2>2. /\ Accepted(c) /\ Runs(c)
        /\ head' = IF Changes(c) THEN [head EXCEPT ![calls[c].root] = @ + 1] ELSE head
    BY <2>1 DEF ServeApply
  <2>3. head' = [head EXCEPT ![calls[c].root] = @ + 1]
    BY <2>1, <2>2
  <2>4. calls[c].token = calls[c].shown /\ calls[c].shown \in Tokens /\ calls[c].root \in Roots
    BY <1>1, <2>1 DEF ServeApply, PageInv, CallInv
  <2>5. plans[calls[c].shown].operation = calls[c].command /\ plans[calls[c].shown].root = calls[c].root
    BY <2>2, <2>4 DEF Accepted, Stored
  <2>6. {r \in Roots : head'[r] # head[r]} = {calls[c].root}
    BY <1>1, <2>3, <2>4 DEF PageInv, ServerType
  <2>7. calls[c].command = "sync" => head[calls[c].root] = plans[calls[c].shown].previousHead
    BY <2>2, <2>4 DEF Runs
  <2> QED BY <2>4, <2>5, <2>6, <2>7
<1>2. ASSUME PageInv, [Next]_vars PROVE [\A c \in Call : Shown(c)]_vars
  BY <1>1, <1>2
<1> QED BY <1>2, PageInvariant, PTL DEF Spec, AppliedAsShown

=============================================================================
