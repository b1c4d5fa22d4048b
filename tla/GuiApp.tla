------------------------------- MODULE GuiApp -------------------------------
(***************************************************************************)
(* The GUI page (apps/gui/src/app.js) in front of the bridge that          *)
(* apps/gui/server.mjs starts, createGuiBridgeFromService.  The page keeps *)
(* one "last plan" for whatever command is selected; its calls are not     *)
(* ordered, are never cancelled, and their answers are rendered when they  *)
(* come, after the user may have gone on to another command, project or    *)
(* reference.  GuiBridge has the bridge's own reads and writes step by     *)
(* step; here a request is one step of the server.                         *)
(***************************************************************************)
EXTENDS Integers, Sequences

CONSTANTS
    Roots, References,
    Commands,   \* the commands there are
    MaxCalls,   \* bound on calls the page makes
    MaxMoves    \* bound on selections, edits of fields and files, others' commits

ASSUME GuiBoundsAssumption == MaxCalls \in Nat /\ MaxMoves \in Nat

VARIABLES
    form,       \* currentCommand, and the fields root, reference
    panel,      \* what the plan panel shows
    lastToken,  \* lastPlanToken, or 0; lastPlan is the plan of that token
    canApply,   \* the Apply button is not disabled
    calls,      \* calls made, by number: what was sent, the answer
    plans,      \* plans the server has handed out, by token
    kept,       \* tokens still in syncPlans or restorePlans of the bridge
    head, dirty,\* per project: its commits; whether files differ from HEAD's
    moves       \* what was done but to click on a button

page   == <<form, panel, lastToken, canApply>>
server == <<plans, kept, head>>
vars   == <<page, calls, server, dirty, moves>>

-----------------------------------------------------------------------------
\* families: the modes of the commands.  The commands left out are like
\* inspect (a read) or intake (a mutation without a plan).
Mode == [inspect |-> "read", intake |-> "direct-mutation",
         sync |-> "planned-mutation", restore |-> "planned-mutation"]
ASSUME CommandsAssumption == Commands \subseteq DOMAIN Mode
Planned(command) == command \in Commands /\ Mode[command] = "planned-mutation"

\* Calls and tokens are numbered; 0 is no token.
Call == 1..Len(calls)
Tokens == DOMAIN plans
Empty == [kind |-> "empty", token |-> 0]

Init ==
    /\ form \in [command : {"none"}, root : Roots, reference : References]
    /\ panel = Empty
    /\ lastToken = 0
    /\ canApply = FALSE
    /\ calls = <<>>
    /\ plans = <<>>
    /\ kept = {}
    /\ head = [r \in Roots |-> 1]
    /\ dirty \in [Roots -> BOOLEAN]
    /\ moves = 0

-----------------------------------------------------------------------------
(* The user. *)

Move == moves < MaxMoves /\ moves' = moves + 1

ForgetPlan ==
    /\ lastToken' = 0
    /\ canApply' = FALSE

\* Mutant: the plan of the command left stays.
SelectKeeping ==
    /\ Move
    /\ \E command \in Commands \cup {"none"}, reference \in References :
           form' = [form EXCEPT !.command = command, !.reference = reference]
    /\ panel' = Empty
    /\ UNCHANGED <<lastToken, canApply, calls, server, dirty>>

\* selectFamily, which leaves no command selected, and selectCommand, which
\* makes the option fields anew.
Select ==
    /\ Move
    /\ \E command \in Commands \cup {"none"}, reference \in References :
           form' = [form EXCEPT !.command = command, !.reference = reference]
    /\ panel' = Empty
    /\ ForgetPlan
    /\ UNCHANGED <<calls, server, dirty>>

\* Neither field invalidates the plan.
TypeField ==
    /\ Move
    /\ \E root \in Roots, reference \in References :
           form' = [form EXCEPT !.root = root, !.reference = reference]
    /\ UNCHANGED <<panel, lastToken, canApply, calls, server, dirty>>

\* apiCall: the fields are read when the button is clicked.  shown is what
\* the panel showed then, for the properties.
Send(use, token) ==
    /\ Len(calls) < MaxCalls
    /\ calls' = Append(calls,
           [use |-> use, command |-> form.command, root |-> form.root,
            reference |-> form.reference, token |-> token, shown |-> panel.token,
            state |-> "sent", answer |-> 0])
    /\ UNCHANGED <<page, server, dirty, moves>>

\* doPrimaryAction: Run, Preview or Execute; a mutation without a plan may be
\* cancelled, which sends nothing.
Primary ==
    /\ form.command # "none"
    /\ Send(IF Planned(form.command) THEN "preview" ELSE "run", 0)

\* doApply.  The button is hidden unless the command is planned.
Apply ==
    /\ Planned(form.command)
    /\ canApply
    /\ lastToken # 0
    /\ Send("apply", lastToken)

-----------------------------------------------------------------------------
(* The server: -1 is the answer of an error, 0 one without a token. *)

Answer(c, answer) ==
    calls' = [calls EXCEPT ![c].state = "answered", ![c].answer = answer]

\* status, recover, intake: nothing here depends on what they do.
ServeRun(c) ==
    /\ calls[c].use = "run"
    /\ \E answer \in {-1, 0} : Answer(c, answer)
    /\ UNCHANGED server

\* planSync and planRestore.
ServePreview(c) ==
    /\ calls[c].use = "preview"
    /\ \/ Answer(c, -1) /\ UNCHANGED server
       \/ /\ plans' = Append(plans, [operation |-> calls[c].command, root |-> calls[c].root,
                                     reference |-> calls[c].reference,
                                     previousHead |-> head[calls[c].root]])
          /\ kept' = kept \cup {Len(plans')}
          /\ Answer(c, Len(plans'))
          /\ UNCHANGED head

\* The Map of the operation has the token.
Stored(c) == calls[c].token \in kept /\ plans[calls[c].token].operation = calls[c].command

\* Mutant: the root is not compared.
AcceptedAnyRoot(c) == Stored(c)

\* sync_plan_expired, sync_head_changed, restore_plan_expired, restore_root_changed.
\* The head that executeSync compares comes from the same plan.
Accepted(c) == Stored(c) /\ plans[calls[c].token].root = calls[c].root

\* The runtime under the lock.  A sync refuses another head and commits only
\* changes; a restore is passed the reference of the request and no binding,
\* and refuses a conflict with an edited file.
Runs(c) == calls[c].command = "sync" => head[calls[c].root] = plans[calls[c].token].previousHead
Changes(c) == calls[c].command = "sync" => dirty[calls[c].root]

ServeApply(c) ==
    /\ calls[c].use = "apply"
    /\ kept' = IF Stored(c) THEN kept \ {calls[c].token} ELSE kept
    /\ \/ Answer(c, -1) /\ UNCHANGED head
       \/ /\ Accepted(c) /\ Runs(c)
          /\ head' = IF Changes(c) THEN [head EXCEPT ![calls[c].root] = @ + 1] ELSE head
          /\ Answer(c, 0)
    /\ UNCHANGED plans

Serve(c) ==
    /\ calls[c].state = "sent"
    /\ ServeRun(c) \/ ServePreview(c) \/ ServeApply(c)
    /\ dirty' = [r \in Roots |-> dirty[r] /\ (calls[c].command = "sync" => head'[r] = head[r])]
    /\ UNCHANGED <<page, moves>>

\* fetch fails before the request arrives, or its answer is lost.
Lose(c) ==
    /\ calls[c].state \in {"sent", "answered"}
    /\ calls[c].answer # -1
    /\ Answer(c, -1)
    /\ UNCHANGED <<page, server, dirty, moves>>

-----------------------------------------------------------------------------
(* The page again, when an answer comes.  Nothing refers to a call later. *)

Over == [use |-> "none", command |-> "none", root |-> "none", reference |-> "none",
         token |-> 0, shown |-> 0, state |-> "rendered", answer |-> 0]
Rendered(c) == calls' = [calls EXCEPT ![c] = Over]

\* Mutant: an answer is taken for a plan without a look at its error.
RenderPreviewAnyway(c) ==
    /\ calls[c].use = "preview"
    /\ panel' = [kind |-> "plan", token |-> calls[c].answer]
    /\ canApply' = TRUE
    /\ lastToken' = calls[c].answer

\* renderPreview, whatever command is selected by now; an error leaves the
\* last plan where it is.
RenderPreview(c) ==
    /\ calls[c].use = "preview"
    /\ IF calls[c].answer = -1
       THEN /\ panel' = [kind |-> "error", token |-> 0]
            /\ canApply' = FALSE
            /\ UNCHANGED lastToken
       ELSE /\ panel' = [kind |-> "plan", token |-> calls[c].answer]
            /\ canApply' = TRUE
            /\ lastToken' = calls[c].answer

\* renderResult, after which doApply forgets the last plan, its own or a
\* later one.
RenderResult(c) ==
    /\ calls[c].use # "preview"
    /\ IF calls[c].use = "apply" THEN ForgetPlan ELSE UNCHANGED <<lastToken, canApply>>
    /\ UNCHANGED panel

Render(c) ==
    /\ calls[c].state = "answered"
    /\ RenderPreview(c) \/ RenderResult(c)
    /\ Rendered(c)
    /\ UNCHANGED <<form, server, dirty, moves>>

-----------------------------------------------------------------------------
\* The user edits files; the command line or another server commits.
Outside ==
    /\ Move
    /\ \E r \in Roots :
        \/ ~dirty[r] /\ dirty' = [dirty EXCEPT ![r] = TRUE] /\ UNCHANGED head
        \/ dirty' = [dirty EXCEPT ![r] = FALSE] /\ head' = [head EXCEPT ![r] = @ + 1]
    /\ UNCHANGED <<page, calls, plans, kept>>

Next ==
    \/ Select \/ TypeField \/ Primary \/ Apply
    \/ \E c \in Call : Serve(c) \/ Lose(c) \/ Render(c)
    \/ Outside

Spec == Init /\ [][Next]_vars

-----------------------------------------------------------------------------
TypeOK ==
    /\ form \in [command : Commands \cup {"none"}, root : Roots, reference : References]
    /\ panel \in [kind : {"empty", "error", "plan"}, token : Tokens \cup {0}]
    /\ lastToken \in Tokens \cup {0}
    /\ kept \subseteq Tokens
    /\ \A c \in Call : calls[c].answer \in Tokens \cup {-1, 0}
    /\ \A c \in Call : calls[c].use = "apply" => calls[c].token \in Tokens

\* However the answers overtake each other and the user moves on, what Apply
\* would send is the plan the panel shows.
ApplyMeansShown == canApply /\ lastToken # 0 => panel = [kind |-> "plan", token |-> lastToken]

Commits(c) == calls[c].use = "apply" /\ calls'[c] # calls[c] /\ head' # head

\* A click on Apply commits nothing but the operation that the panel showed at
\* the click, to the project it was previewed for, for a sync on the head it
\* was previewed on, although page and server each check a part.
AppliedAsShown ==
    [][\A c \in Call : Commits(c) =>
          /\ calls[c].shown \in Tokens
          /\ LET shown == plans[calls[c].shown]
             IN  /\ shown.operation = calls[c].command
                 /\ {r \in Roots : head'[r] # head[r]} = {shown.root}
                 /\ shown.operation = "sync" => head[shown.root] = shown.previousHead]_vars

\* "Changing any relevant input SHALL invalidate the preview, including: root;
\* restore reference": what is restored is what was previewed.
RestoredAsShown ==
    [][\A c \in Call : Commits(c) /\ calls[c].command = "restore" =>
          calls[c].reference = plans[calls[c].shown].reference]_vars

=============================================================================
