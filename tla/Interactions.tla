---------------------------- MODULE Interactions ----------------------------
(***************************************************************************)
(* The handlers of interactions.  Threads of the program register and      *)
(* remove them at any time; the threads of INTERACTION_CREATE look them up *)
(* and run them.  Nothing locks the tables.                                *)
(*                                                                         *)
(* A command owns its handler, which is replaced by the next one and may   *)
(* be removed.  Buttons, selects, modals and context menus (components)    *)
(* have a function each, of which the first stays.                         *)
(***************************************************************************)
EXTENDS GuildCache

CONSTANT Null  \* an entry that holds no handler

ASSUME NullAssumption == Null \notin Nat

VARIABLES
    table,     \* what is registered for one command and for one component
    made,      \* handlers made so far
    routes,    \* routes[w]: the interaction that w is handling
    crashed,   \* a command without a handler was called
    astray     \* history: an interaction did not get to its handler

interactionVars == <<table, made, routes, crashed, astray>>

Kinds == {"command", "component"}
None == 0
NoRoute == [kind |-> "command", meant |-> None, changed |-> FALSE]

(* deserializeInteraction: the user is stored, and as a member if there is *)
(* a guild.  Resolved users and members are not.                           *)
Interaction(u, v, member) ==
    (IF member THEN <<InsertGuildUser(u, v)>> ELSE <<>>)
    \o <<Insert("user", u, v), Call("route", u, FALSE)>>

(* An interaction arrives: it is meant for the handler that is there now.  *)
Arrives(w, kind) ==
    routes' = [routes EXCEPT ![w] = [kind |-> kind, meant |-> table[kind], changed |-> FALSE]]

(* Whoever is on the way finds another table.                              *)
Enter(kind, entry) ==
    /\ table' = [table EXCEPT ![kind] = entry]
    /\ routes' = [w \in Workers |-> [routes[w] EXCEPT !.changed = @ \/ routes[w].kind = kind]]

AddCommandHandler ==
    /\ made' = made + 1
    /\ Enter("command", made')
    /\ UNCHANGED <<crashed, astray>>

(* Mutant: the handler is reset, and its entry stays.                      *)
ResetCommandHandler ==
    /\ table["command"] # None
    /\ Enter("command", Null)
    /\ UNCHANGED <<made, crashed, astray>>

RemoveCommandHandler ==
    /\ table["command"] # None
    /\ Enter("command", None)
    /\ UNCHANGED <<made, crashed, astray>>

AddInteractionCallback ==
    /\ made' = made + 1
    /\ IF table["component"] = None THEN Enter("component", made') ELSE UNCHANGED <<table, routes>>
    /\ UNCHANGED <<crashed, astray>>

(* The interaction of w gets to target, which is not the one it was meant  *)
(* for - unless there was none, or the command was changed meanwhile.      *)
Misses(w, target) ==
    LET r == routes[w]
    IN /\ target # r.meant \/ target = Null
       /\ IF r.kind = "command" THEN ~r.changed ELSE r.meant # None

(* contains, before operator[]; else the default function, if there is one. *)
RouteInteraction(w) ==
    /\ At(w, "route")
    /\ LET found == table[routes[w].kind] # None
       IN /\ Then(w, IF found THEN <<Call("handler", Arg(w), FALSE)>> ELSE <<>>)
          /\ astray' = (astray \/ (~found /\ Misses(w, None)))
          /\ routes' = IF found THEN routes ELSE [routes EXCEPT ![w] = NoRoute]
    /\ UNCHANGED <<table, made, crashed>>

(* operator[] makes an entry where there is none any more.                 *)
RunHandler(w) ==
    /\ At(w, "handler")
    /\ LET kind == routes[w].kind
           target == IF table[kind] = None THEN Null ELSE table[kind]
       IN /\ table' = [table EXCEPT ![kind] = target]
          /\ crashed' = (target = Null)
          /\ astray' = (astray \/ Misses(w, target))
    /\ routes' = [routes EXCEPT ![w] = NoRoute]
    /\ Then(w, <<>>)
    /\ UNCHANGED made

-----------------------------------------------------------------------------
(* An interaction gets to the handler that was registered for it when it   *)
(* came, and a command that has none is not called - unless a thread of    *)
(* the program replaced or removed the handler of that command meanwhile.  *)
(* The other tables only grow, and need no exception.                      *)
InteractionsArrive == ~astray

=============================================================================
