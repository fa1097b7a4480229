------------------------------ MODULE BrowserTab ------------------------------
(***************************************************************************)
(* The single-page application in one browser tab: it shows one page at a  *)
(* time, here the builder of a project or the room of an interview; what   *)
(* the page has sent is served on when it is closed.                       *)
(***************************************************************************)
EXTENDS BuilderWorkspace, InterviewRoom

VARIABLE route      \* the page shown: "builder", "room" or "elsewhere"

tabVars == <<vars, roomVars, route>>

\* A page that is not shown has no state: that of the other one is left initial.
TabInit == /\ RecorderInit /\ RoomInit
           /\ Init
           /\ route \in {"builder", "room"}
           /\ route = "room" => sections = {} /\ shown = PersonalInfo

CloseBuilder == /\ route = "builder"
                /\ ClosePage
                /\ route' = "elsewhere"
                /\ UNCHANGED <<generationVars, roomVars>>

TabNext ==
    \/ /\ route = "builder"
       /\ Next /\ UNCHANGED <<roomVars, route>>
    \/ CloseBuilder
    \/ /\ route = "elsewhere"
       /\ \/ BuilderServed
          \/ /\ \E c \in Numbers : Settle(c) \/ RemovalSettles(c)
             /\ UNCHANGED generationVars
       /\ UNCHANGED <<roomVars, route>>
    \/ /\ route = "room"
       /\ RoomNext
       /\ UNCHANGED <<vars, route>>

TabSpec == TabInit /\ [][TabNext]_tabVars
=============================================================================
