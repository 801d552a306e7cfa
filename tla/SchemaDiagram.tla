----------------------------- MODULE SchemaDiagram -----------------------------
(***************************************************************************)
(* The Schema panel's diagram in the browser (client/behaviors/            *)
(* mermaid-diagram.ts and diagram-viewport.ts): Mermaid is loaded once, on *)
(* demand; the diagram is drawn when its section is first opened and drawn *)
(* again when the theme flips, possibly while it is being drawn; it is     *)
(* framed in a viewport that measures itself only while it shows.          *)
(*                                                                         *)
(* Mermaid and its script's load are external: renders are served in the   *)
(* order they were asked for, in the theme last initialised when they      *)
(* start.  Coordinates are left out: a view is fitted to the drawn layout  *)
(* or the user's own.                                                      *)
(***************************************************************************)
EXTENDS Naturals, Sequences, SequencesExt

CONSTANTS
    SdMaxFlips,    \* bound: theme flips
    SdMaxToggles,  \* bound: times the section is opened or closed
    SdMaxFailures, \* bound: loads that fail
    SdNone

ASSUME SdAssumption == {SdMaxFlips, SdMaxToggles, SdMaxFailures} \subseteq Nat

Themes == {"dark", "default"}

VARIABLES
    sdTheme,   \* the document's theme
    sdSection, \* open, and the data-mermaid-theme mark
    sdScript,  \* idle, loading, ready
    sdWaiting, \* renders awaiting the script: the themes they were asked for
    sdConfig,  \* the theme Mermaid was last initialised with
    sdQueue,   \* renders Mermaid was given
    sdDrawn,   \* the theme and layout of the picture in place
    sdShown,   \* what the section shows: nothing yet, the diagram, an error
    sdView,    \* the viewport: mounted, its size known, its viewBox on the picture
    sdBroken,  \* Mermaid refuses the source
    sdFlips, sdToggles, sdFailures

sdVars == <<sdTheme, sdSection, sdScript, sdWaiting, sdConfig, sdQueue, sdDrawn, sdShown, sdView,
            sdBroken, sdFlips, sdToggles, sdFailures>>

SdStart(theme, broken) ==
    /\ sdTheme = theme
    /\ sdSection = [open |-> FALSE, mark |-> SdNone]
    /\ sdScript = "idle" /\ sdWaiting = <<>> /\ sdConfig = SdNone /\ sdQueue = <<>>
    /\ sdDrawn = SdNone /\ sdShown = "nothing"
    /\ sdView = [mounted |-> FALSE, sized |-> FALSE, framed |-> FALSE]
    /\ sdBroken = broken /\ sdFlips = 0 /\ sdToggles = 0 /\ sdFailures = 0

SdInit == \E theme \in Themes, broken \in BOOLEAN : SdStart(theme, broken)

AskRenderUnmarked(section, theme) == section

(* render: the section is marked before anything is awaited.               *)
AskRender(section, theme) == [section EXCEPT !.mark = theme]

(* loadMermaid: one script for every render that waits; a failed load is   *)
(* forgotten.                                                              *)
StartRender(section) ==
    /\ sdSection' = AskRender(section, sdTheme')
    /\ IF sdScript = "ready"
       THEN /\ sdConfig' = sdTheme'
            /\ sdQueue' = Append(sdQueue, sdTheme')
            /\ UNCHANGED <<sdScript, sdWaiting>>
       ELSE /\ sdScript' = "loading"
            /\ sdWaiting' = Append(sdWaiting, sdTheme')
            /\ UNCHANGED <<sdConfig, sdQueue>>

Visible(section) == section.open /\ sdShown = "diagram"

(* The toggle listener.                                                    *)
ToggleSection ==
    /\ sdToggles < SdMaxToggles /\ sdToggles' = sdToggles + 1
    /\ LET section == [sdSection EXCEPT !.open = ~@]
       IN  IF section.open /\ section.mark = SdNone
           THEN /\ sdTheme' = sdTheme /\ StartRender(section)
           ELSE /\ sdSection' = section
                /\ UNCHANGED <<sdTheme, sdScript, sdWaiting, sdConfig, sdQueue>>
    /\ UNCHANGED <<sdDrawn, sdShown, sdView, sdBroken, sdFlips, sdFailures>>

(* The MutationObserver: a marked diagram in another theme is drawn again. *)
FlipTheme ==
    /\ sdFlips < SdMaxFlips /\ sdFlips' = sdFlips + 1
    /\ sdTheme' = CHOOSE t \in Themes : t # sdTheme
    /\ IF sdSection.mark \notin {SdNone, sdTheme'}
       THEN StartRender(sdSection)
       ELSE UNCHANGED <<sdSection, sdScript, sdWaiting, sdConfig, sdQueue>>
    /\ UNCHANGED <<sdDrawn, sdShown, sdView, sdBroken, sdToggles, sdFailures>>

(* The script arrives: every waiting render initialises Mermaid and asks.  *)
ScriptLoads ==
    /\ sdScript = "loading" /\ sdScript' = "ready"
    /\ sdConfig' = Last(sdWaiting)
    /\ sdQueue' = sdQueue \o sdWaiting /\ sdWaiting' = <<>>
    /\ UNCHANGED <<sdTheme, sdSection, sdDrawn, sdShown, sdView, sdBroken, sdFlips,
                   sdToggles, sdFailures>>

(* showError: the raw source is shown and the mark is dropped, so that     *)
(* opening the section tries again.                                        *)
ShowError ==
    /\ sdSection' = [sdSection EXCEPT !.mark = SdNone]
    /\ sdShown' = "error"

ScriptFails ==
    /\ sdScript = "loading" /\ sdScript' = "idle"
    /\ sdFailures < SdMaxFailures /\ sdFailures' = sdFailures + 1
    /\ sdWaiting' = <<>>
    /\ ShowError
    /\ UNCHANGED <<sdTheme, sdConfig, sdQueue, sdDrawn, sdView, sdBroken, sdFlips,
                   sdToggles>>

(* mountDiagramViewport: the first picture is fitted, one with another     *)
(* layout too; with the same layout the view there is goes on the new one. *)
(* Hidden, there is no size to fit to.                                     *)
Mounted(view, visible, sameLayout) ==
    IF view.mounted /\ sameLayout THEN [view EXCEPT !.framed = view.sized]
    ELSE [mounted |-> TRUE, sized |-> visible, framed |-> visible]

(* Mermaid hands over the next picture: it replaces the one in place.      *)
DrawPicture ==
    /\ sdQueue # <<>> /\ ~sdBroken /\ sdQueue' = Tail(sdQueue)
    /\ \E theme \in {Head(sdQueue), sdConfig}, layout \in {"same", "other"} :
         /\ sdDrawn' = [theme |-> theme, layout |-> layout]
         /\ sdView' = Mounted(sdView, sdSection.open,
                              sdDrawn # SdNone /\ sdDrawn.layout = layout)
    /\ sdShown' = "diagram"
    /\ UNCHANGED <<sdTheme, sdSection, sdScript, sdWaiting, sdConfig, sdBroken, sdFlips,
                   sdToggles, sdFailures>>

RenderFails ==
    /\ sdQueue # <<>> /\ sdBroken /\ sdQueue' = Tail(sdQueue)
    /\ ShowError
    /\ UNCHANGED <<sdTheme, sdScript, sdWaiting, sdConfig, sdDrawn, sdView, sdBroken,
                   sdFlips, sdToggles, sdFailures>>

(* The ResizeObserver, a frame after the fact: a view that lost its size   *)
(* forgets it, one that gets it back is fitted.                            *)
ObserveResize ==
    /\ sdView.mounted /\ sdView.sized # Visible(sdSection)
    /\ sdView' = IF Visible(sdSection) THEN [mounted |-> TRUE, sized |-> TRUE, framed |-> TRUE]
                 ELSE [sdView EXCEPT !.sized = FALSE]
    /\ UNCHANGED <<sdTheme, sdSection, sdScript, sdWaiting, sdConfig, sdQueue, sdDrawn, sdShown,
                   sdBroken, sdFlips, sdToggles, sdFailures>>

(* Fit, zoom, pan, the entity picker: each ends in apply(), which puts the *)
(* view on the picture; fit measures first.                                *)
MoveView ==
    /\ Visible(sdSection) /\ sdView.mounted
    /\ \E fit \in BOOLEAN :
         sdView' = IF fit THEN [mounted |-> TRUE, sized |-> TRUE, framed |-> TRUE]
                   ELSE [sdView EXCEPT !.framed = @ \/ sdView.sized]
    /\ UNCHANGED <<sdTheme, sdSection, sdScript, sdWaiting, sdConfig, sdQueue, sdDrawn, sdShown,
                   sdBroken, sdFlips, sdToggles, sdFailures>>

(* The full-window view measures itself as it comes and goes.              *)
ToggleExpanded ==
    /\ Visible(sdSection)
    /\ sdView' = [sdView EXCEPT !.sized = TRUE, !.framed = TRUE]
    /\ UNCHANGED <<sdTheme, sdSection, sdScript, sdWaiting, sdConfig, sdQueue, sdDrawn, sdShown,
                   sdBroken, sdFlips, sdToggles, sdFailures>>

SdNext ==
    \/ ToggleSection \/ FlipTheme \/ ScriptLoads \/ ScriptFails \/ DrawPicture \/ RenderFails
    \/ ObserveResize \/ MoveView \/ ToggleExpanded

SdSpec == SdInit /\ [][SdNext]_sdVars

-----------------------------------------------------------------------------
(* Types: what the variables may hold.                                     *)
SdTypeOK ==
    /\ sdTheme \in Themes /\ sdSection.mark \in Themes \cup {SdNone}
    /\ sdScript \in {"idle", "loading", "ready"}
    /\ sdWaiting \in Seq(Themes) /\ sdQueue \in Seq(Themes)
    /\ sdShown \in {"nothing", "diagram", "error"}

(* Once nothing is being drawn, a diagram that shows is in the document's  *)
(* theme, however often it flipped while the script or a render was on its *)
(* way; no flip or toggle draws it twice; and a viewport that knows its    *)
(* size shows the picture in place through its own view, never as Mermaid  *)
(* sized it.                                                               *)
DiagramFollowsTheTheme ==
    /\ sdQueue = <<>> /\ sdWaiting = <<>> /\ sdShown = "diagram" =>
          sdDrawn.theme = sdTheme /\ sdSection.mark = sdTheme
    /\ Len(sdWaiting) + Len(sdQueue) <= 1 + sdFlips
    /\ Visible(sdSection) /\ sdView.sized => sdView.framed
=============================================================================
