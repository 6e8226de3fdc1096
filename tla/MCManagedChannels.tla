-------------------------- MODULE MCManagedChannels --------------------------
(***************************************************************************)
(* One instance for three parts that share no state: the store of the      *)
(* alert channels with its routes, the forms that edit them in the browser *)
(* over a store of their own, and the session of the tab.                  *)
(***************************************************************************)
EXTENDS ManagedChannels, ChannelForms, Session, TLC

CONSTANTS
    Parts,      \* the parts to check
    n1, n2, s1  \* channel names and a secret

\* The data that has not arrived is not a channel.
ASSUME ChannelPartsAssumption ==
    /\ Parts \subseteq {"store", "forms", "session"}
    /\ NoData \notin ChannelValue

VARIABLE part

\* A part that keeps still starts in one state.
ChannelPartsInit ==
    /\ part \in Parts
    /\ Init
    /\ ChannelsInit /\ (part # "forms" => formKit.media = {"slack"} /\ templating)
    /\ SessionInit  /\ (part # "session" => storage = NoData)

ChannelPartsNext ==
    /\ UNCHANGED part
    /\ IF part = "store"   THEN Next         ELSE UNCHANGED vars
    /\ IF part = "forms"   THEN ChannelsNext ELSE UNCHANGED channelVars
    /\ IF part = "session" THEN SessionNext  ELSE UNCHANGED sessionVars

ChannelPartsSpec ==
    ChannelPartsInit /\ [][ChannelPartsNext]_<<part, vars, channelVars, sessionVars>>

\* Every variable of the part that moves keeps its type: what the routes hold and
\* write, what a form holds, and the sockets and tokens of a tab.
ChannelPartsTypeOK ==
    CASE part = "store"   -> TypeOK
      [] part = "forms"   -> ChannelFormsTypeOK
      [] part = "session" -> SessionTypeOK

-----------------------------------------------------------------------------
(* Values of the constants.                                                *)

\* The store: one receiver, the default, as a deployment may bring it.
OneSlack == {[channels |-> {[name |-> n1, type |-> "slack", secret |-> s1]}, default |-> n1]}

Symmetry == Permutations(Request) \cup Permutations(Inode)

\* The forms: each medium on its own, and two with deletion in between.
FormKit(m, o, buttons, w, r) ==
    [media |-> m, overrides |-> o, buttons |-> buttons, writes |-> w, restarts |-> r]
SomeFormKits ==
    {FormKit({"slack"}, Override, {}, 2, 1),
     FormKit({"email"}, {"own text"}, {}, 2, 1),
     FormKit({"webhook"}, {}, {}, 2, 0),
     FormKit({"telegram"}, Override, {}, 2, 1),
     FormKit({"email", "telegram"}, {}, {"delete"}, 2, 0),
     FormKit({"telegram"}, {}, {"delete", "default", "test"}, 3, 0)}
=============================================================================
