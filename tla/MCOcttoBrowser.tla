----------------------------- MODULE MCOcttoBrowser ------------------------
(***************************************************************************)
(* The browser's side of octto: the page and its WebSocket, the tools that *)
(* start and end sessions, the portal that serves several instances of the *)
(* plugin, and the forms of the page.  Page and tools each use the session *)
(* store through what it promises, AnswerMailbox.  A behaviour is one of   *)
(* the part it starts with, while the others stay as they began.           *)
(***************************************************************************)
EXTENDS OcttoPage, OcttoTools, OcttoPortal, OcttoForms

VARIABLE part   \* the part this behaviour is about

browserVars == <<part, mailVars, pageVars, toolVars, portalVars, formVars>>

BrowserInit ==
    /\ part \in {"page", "tools", "portal", "forms"}
    /\ PageInit /\ ToolsInit /\ PortalInit /\ FormInit

BrowserNext ==
    /\ UNCHANGED part
    /\ \/ /\ part = "page" /\ PageNext
          /\ UNCHANGED <<toolVars, portalVars, formVars>>
       \/ /\ part = "tools" /\ ToolsNext
          /\ UNCHANGED <<pageVars, portalVars, formVars>>
       \/ /\ part = "portal" /\ PortalNext
          /\ UNCHANGED <<mailVars, pageVars, toolVars, formVars>>
       \/ /\ part = "forms" /\ FormNext
          /\ UNCHANGED <<mailVars, pageVars, toolVars, portalVars>>

BrowserSpec == BrowserInit /\ [][BrowserNext]_browserVars

(***************************************************************************)
(* A page that is connected lists every pending question, sends each       *)
(* answer once, and what it sent is on the wire or went down with a        *)
(* connection (src/octto/ui/bundle.ts, src/octto/session/server.ts).       *)
(***************************************************************************)
PageInv == part = "page" =>
    /\ MailTypeOK /\ PageTypeOK /\ PendingIsListed /\ SentOnce /\ SentIsOnTheWay
    /\ PageKnows

(***************************************************************************)
(* What is tracked for an agent are the open sessions it owns, and when    *)
(* the agent is deleted they are ended (src/index.ts, src/tools/octto).    *)
(***************************************************************************)
ToolsInv == part = "tools" =>
    /\ MailTypeOK /\ ToolsTypeOK /\ TrackedAgrees /\ DeletedOwnsNothing
    /\ OpenIsAccounted

-----------------------------------------------------------------------------
(* The values the forms are checked with: an answer that is absent, one    *)
(* item, or an object with the indices 10 and 0.                           *)
FormFileSets == {{}, {1}}
FormScales == {[min |-> 1, max |-> 2]}
FormInputs == {[shape |-> "absent"], [shape |-> "item", item |-> 1],
               [shape |-> "indexed", items |-> 10 :> 2 @@ 0 :> 1]}
=============================================================================
