---------------------------- MODULE RouteContext ----------------------------
(***************************************************************************)
(* The mandatory-behaviour footer of the route block, and the state file   *)
(* that says when to shorten it: loadRouteContextState,                    *)
(* saveRouteContextState and formatDispatchContext of                      *)
(* src/bin/myos-dispatch-hook.                                             *)
(*                                                                         *)
(* The hook of a prompt loads the state of the session, decides between    *)
(* the full footer and one line that refers to it, and saves.  The hooks   *)
(* of shell commands load the same file and save it as they found it: they *)
(* run while the prompt's turn does, and may outlast it.  Each save is a   *)
(* rename, may fail without a word, and any hook may be killed.            *)
(***************************************************************************)
EXTENDS Naturals

CONSTANTS
    Footers,     \* texts of the full footer
    Every,       \* MYOS_DISPATCH_FOOTER_EVERY
    MaxAnswers,  \* prompts of the session
    Commands,    \* shell commands the session runs
    MaxLost      \* bound on saves that fail, come too late, or whose hook dies

\* footerEveryPrompts takes whole numbers from one up only.
ASSUME FooterAssumption == Every \in Nat \ {0} /\ MaxAnswers \in Nat /\ MaxLost \in Nat

NoFooter == "no footer"

VARIABLES
    context,    \* lastFooterHash and promptsSinceFullFooter of the state file
    prompter,   \* the hook of the latest prompt
    command,    \* per shell command: its hook
    seen,       \* the full footer the session saw last
    short,      \* short footers since then
    mislaid     \* updates of the file that were lost, or not followed by an answer

contextVars == <<context, prompter, command, seen, short, mislaid>>

Contexts == [footer : Footers \cup {NoFooter}, since : 0..Every]

\* A file that is missing or cannot be read has neither field, and so has the
\* one a shell command's hook writes in its place.
NoContext == [footer |-> NoFooter, since |-> 0]

ContextTypeOK ==
    /\ context \in Contexts
    /\ prompter.next \in Contexts /\ prompter.number \in 0..MaxAnswers
    /\ prompter.at \in {"none", "loaded", "saved", "answered"}
    /\ command \in [Commands -> [at : {"none", "loaded", "over"}, copy : Contexts]]
    /\ seen \in Footers \cup {NoFooter} /\ short \in Nat /\ mislaid \in 0..MaxLost

ContextInit ==
    /\ context = NoContext
    /\ prompter = [number |-> 0, at |-> "none", prints |-> "nothing", footer |-> NoFooter, next |-> NoContext]
    /\ command = [c \in Commands |-> [at |-> "none", copy |-> NoContext]]
    /\ seen = NoFooter /\ short = 0 /\ mislaid = 0

-----------------------------------------------------------------------------
\* Changed form of Collapses: one prompt too late.
Collapses_Late(f) == context.footer = f /\ context.since < Every

\* canCollapse.
Collapses(f) == Every > 1 /\ context.footer = f /\ context.since + 1 < Every

\* loadRouteContextState and formatDispatchContext.
LoadContext(f) ==
    /\ prompter.at \in {"none", "answered"} /\ prompter.number < MaxAnswers
    /\ prompter' =
         [number |-> prompter.number + 1, at |-> "loaded", footer |-> f,
          prints |-> IF Collapses(f) THEN "short" ELSE "full",
          next |-> [footer |-> f, since |-> IF Collapses(f) THEN context.since + 1 ELSE 0]]
    /\ UNCHANGED <<context, command, seen, short, mislaid>>

\* A route block without a footer: the compact and lean modes, and verified
\* evidence in its place.
LoadOnly ==
    /\ prompter.at \in {"none", "answered"} /\ prompter.number < MaxAnswers
    /\ prompter' = [number |-> prompter.number + 1, at |-> "loaded", footer |-> NoFooter,
                    prints |-> "nothing", next |-> context]
    /\ UNCHANGED <<context, command, seen, short, mislaid>>

\* saveRouteContextState: a file of its own name, then a rename.
SaveContext ==
    /\ prompter.at = "loaded"
    /\ context' = prompter.next
    /\ prompter' = [prompter EXCEPT !.at = "saved"]
    /\ UNCHANGED <<command, seen, short, mislaid>>

ContextSaveFails ==
    /\ prompter.at = "loaded" /\ mislaid < MaxLost
    /\ prompter' = [prompter EXCEPT !.at = "saved"]
    /\ mislaid' = mislaid + 1
    /\ UNCHANGED <<context, command, seen, short>>

\* The route block reaches the prompt.
AnswerPrompt ==
    /\ prompter.at = "saved"
    /\ prompter' = [prompter EXCEPT !.at = "answered"]
    /\ seen' = IF prompter.prints = "full" THEN prompter.footer ELSE seen
    /\ short' = CASE prompter.prints = "full" -> 0
                  [] prompter.prints = "short" -> short + 1
                  [] prompter.prints = "nothing" -> short
    /\ UNCHANGED <<context, command, mislaid>>

PrompterKilled ==
    /\ prompter.at \in {"loaded", "saved"} /\ mislaid < MaxLost
    /\ prompter' = [prompter EXCEPT !.at = "none"]
    /\ mislaid' = mislaid + 1
    /\ UNCHANGED <<context, command, seen, short>>

-----------------------------------------------------------------------------
\* handlePreToolUse: the state is loaded, and saved unchanged.
CommandLoads(c) ==
    /\ command[c].at = "none" /\ prompter.at \in {"none", "answered"}
    /\ command' = [command EXCEPT ![c] = [at |-> "loaded", copy |-> context]]
    /\ UNCHANGED <<context, prompter, seen, short, mislaid>>

\* The turn may have ended meanwhile, and the next prompt saved.
CommandSaves(c) ==
    /\ command[c].at = "loaded"
    /\ command[c].copy # context => mislaid < MaxLost
    /\ mislaid' = IF command[c].copy = context THEN mislaid ELSE mislaid + 1
    /\ context' = command[c].copy
    /\ command' = [command EXCEPT ![c].at = "over"]
    /\ UNCHANGED <<prompter, seen, short>>

\* The save fails, or the hook is killed.
CommandGone(c) ==
    /\ command[c].at = "loaded"
    /\ command' = [command EXCEPT ![c].at = "over"]
    /\ UNCHANGED <<context, prompter, seen, short, mislaid>>

ContextNext ==
    \/ \E f \in Footers : LoadContext(f)
    \/ LoadOnly \/ SaveContext \/ ContextSaveFails \/ AnswerPrompt \/ PrompterKilled
    \/ \E c \in Commands : CommandLoads(c) \/ CommandSaves(c) \/ CommandGone(c)

ContextSpec == ContextInit /\ [][ContextNext]_contextVars

-----------------------------------------------------------------------------
\* CHANGELOG.md: "The full block is emitted on the first prompt of a session,
\* when its text hash changes, and every Nth prompt".  Each update of the file
\* that is lost puts the block off by less than one more round.
FooterReturns == short <= (Every - 1) * (1 + mislaid)

\* The short line says "unchanged since the full block": the session has seen
\* that very block last, unless an update was lost.
ShortIsTrue ==
    prompter.at = "answered" /\ prompter.prints = "short" /\ mislaid = 0 => seen = prompter.footer

\* Both, however prompts and shell commands of a session overlap.
FooterHolds == ContextTypeOK /\ FooterReturns /\ ShortIsTrue
=============================================================================
