---------------------------- MODULE DesktopLayout ----------------------------
(***************************************************************************)
(* The table of displays (vdagent/desktop_layout.cpp) and the handlers of  *)
(* vdagent/vdagent.cpp that use it: MONITORS_CONFIG changes the table and  *)
(* has it set, DISPLAY_CONFIG sets it for the sake of the depth, and       *)
(* WM_DISPLAYCHANGE reads it again.  The mouse takes from it where on the  *)
(* desktop a point of a display is.                                        *)
(*                                                                         *)
(* get_displays is one step.  set_displays calls Windows for one device    *)
(* after the other, and Windows may call the window procedure back: its    *)
(* steps are the values of main, and WM_DISPLAYCHANGE comes between them.  *)
(***************************************************************************)
EXTENDS DisplayConfig, Sequences

CONSTANTS
    Qxl,            \* the devices of a QXL driver, which number themselves
    Requests,       \* the monitors' configurations a client asks for
    Places,         \* where the user may put a display
    MaxChanges      \* bound: how often the user or the machine changes a display

ASSUME LayoutConstants ==
    /\ Qxl \subseteq Devices
    /\ Requests \subseteq [monitors : Seq([on : BOOLEAN, x : Int, y : Int, size : Sizes]),
                         use_pos : BOOLEAN]
    /\ Places \subseteq Int \X Int /\ <<0, 0>> \in Places
    /\ MaxChanges \in Nat

VARIABLES
    displays,       \* DesktopLayout::_displays
    total,          \* _total_width and _total_height
    updating,       \* VDAgent::_updating_display_config
    main,           \* where the agent's thread is
    dev,            \* set_displays: how many devices have been visited
    sets,           \* whether one of them was given a position (dev_sets)
    normal,         \* the position of the primary display in the table
    request,        \* what the client asks for again and again
    tries,          \* how often in a row it was asked for and not refused
    stale,          \* whether the displays changed after they were last read
    changes

layout  == <<displays, total>>
setting == <<dev, sets, normal>>
asked   == <<request, tries, changes>>
vars    == <<driver, present, desk, conf, primary_detached, notice, clean, refusals,
             displays, total, updating, main, dev, sets, normal, request, tries, stale, changes>>

NoRequest   == [monitors |-> <<>>, use_pos |-> FALSE]
NotRepeated == request' = NoRequest /\ tries' = 0

Gap     == [gap |-> TRUE]           \* an entry that is NULL
Modes   == {i \in DOMAIN displays : displays[i] # Gap}
Crashed == {"null", "dangling"}     \* a mode that is not there is used

------------------------------------------------------------------------------
(***************************************************************************)
(* The devices and their numbers.                                          *)
(***************************************************************************)
Consistent   == present \subseteq Qxl \/ present \cap Qxl = {}
Rank(d)      == Cardinality({e \in present : e < d})
Id(d)        == IF d \in Qxl THEN d - 1 ELSE Rank(d)
Visited(n)   == CHOOSE d \in present : Rank(d) = n

------------------------------------------------------------------------------
(***************************************************************************)
(* get_displays.  Nothing is known about a device that is off: Windows     *)
(* gives zeros, or leaves what it has given for the device before.         *)
(***************************************************************************)
Before(d)     == {e \in present : e < d /\ desk[e].on}
Given(d, old) == IF ~desk[d].on /\ old /\ Before(d) # {} THEN desk[Max(Before(d))] ELSE desk[d]

DisplayMode(m, attached) ==
    [x |-> m.x, y |-> m.y, size |-> m.size, attached |-> attached,
     primary |-> attached /\ m.x = 0 /\ m.y = 0]

Table(attached, old) ==
    [i \in 0 .. Max({Id(d) : d \in present}) |->
        IF \E d \in present : Id(d) = i
        THEN LET d == CHOOSE e \in present : Id(e) = i IN DisplayMode(Given(d, old), d \in attached)
        ELSE Gap]

\* normalize_displays_pos
Attached(t)   == {i \in DOMAIN t : t[i] # Gap /\ t[i].attached}
MinX(t)       == Min({0} \cup {t[i].x : i \in Attached(t)})
MinY(t)       == Min({0} \cup {t[i].y : i \in Attached(t)})
Width(t)      == Max({0} \cup {t[i].x + t[i].size : i \in Attached(t)}) - MinX(t)
Height(t)     == Max({0} \cup {t[i].y + t[i].size : i \in Attached(t)}) - MinY(t)
Moved(t)      == [i \in DOMAIN t |-> IF t[i] = Gap THEN Gap
                                     ELSE [t[i] EXCEPT !.x = @ - MinX(t), !.y = @ - MinY(t)]]

\* Mutant: the size of the desktop is where its right and lower edges are.
NormalizedEdges(t) ==
    /\ displays' = Moved(t)
    /\ total' = <<Width(t) + MinX(t), Height(t) + MinY(t)>>

Normalized(t) == displays' = Moved(t) /\ total' = <<Width(t), Height(t)>>

GetDisplays ==
    IF Consistent
    THEN /\ UpdateConfigPath
         /\ \E old \in BOOLEAN : Normalized(Table({d \in present : IsAttached(conf', d)}, old))
         /\ stale' = (DOMAIN conf' = {})
    ELSE UNCHANGED <<displays, total, conf, clean, refusals, stale>>

------------------------------------------------------------------------------
(***************************************************************************)
(* handle_mon_config and set_display_depth.                                *)
(***************************************************************************)
\* Mutant: the mode of a display that was off is set and it stays detached.
WantedDetached(i, r) ==
    LET m == displays[i]
        w == r.monitors[i + 1]
    IN  IF m = Gap THEN Gap
        ELSE IF i >= Len(r.monitors) \/ ~w.on THEN [m EXCEPT !.attached = FALSE]
        ELSE [m EXCEPT !.size = w.size, !.x = IF r.use_pos THEN w.x ELSE @,
                                        !.y = IF r.use_pos THEN w.y ELSE @]

\* Entry i after the request: detached when the request ends before it.
Wanted(i, r) ==
    LET m == displays[i]
        w == r.monitors[i + 1]
    IN  IF m = Gap THEN Gap
        ELSE IF i >= Len(r.monitors) \/ ~w.on THEN [m EXCEPT !.attached = FALSE]
        ELSE [m EXCEPT !.attached = TRUE, !.size = w.size,
                       !.x = IF r.use_pos THEN w.x ELSE @,
                       !.y = IF r.use_pos THEN w.y ELSE @]

Changes(r) == \E i \in Modes : i >= Len(r.monitors) \/ Wanted(i, r) # displays[i]

HandleMonConfig(r) ==
    /\ main = "idle"
    /\ updating' = TRUE /\ clean' = TRUE
    /\ displays' = [i \in DOMAIN displays |-> Wanted(i, r)]
    /\ main' = IF Changes(r) THEN "set displays" ELSE "refresh"
    /\ request' = r /\ tries' = IF r = request /\ clean THEN tries ELSE 0
    /\ UNCHANGED <<config, setting, total, stale, changes, present, desk, notice, refusals>>

\* The depth of every mode is set, which the model leaves out.
HandleDepth ==
    /\ main = "idle" /\ DOMAIN displays # {}
    /\ main' = "set displays" /\ NotRepeated
    /\ UNCHANGED <<config, setting, layout, changes, stale, updating, present, desk, notice, clean,
                   refusals>>

------------------------------------------------------------------------------
(***************************************************************************)
(* set_displays.                                                           *)
(***************************************************************************)
Primaries == {i \in Modes : displays[i].primary}
Done      == IF updating THEN "refresh" ELSE "idle"

BeginSet ==
    /\ main = "set displays"
    /\ IF Consistent
       THEN /\ UpdateConfigPath
            /\ normal' = IF Primaries = {} THEN <<0, 0>>
                         ELSE <<displays[Min(Primaries)].x, displays[Min(Primaries)].y>>
            /\ dev' = 0 /\ sets' = FALSE
            /\ main' = "set state"
       ELSE main' = Done /\ UNCHANGED <<setting, conf, clean, refusals>>
    /\ UNCHANGED <<driver, primary_detached, layout, asked, stale, updating, present, desk, notice>>

Device == Visited(dev)
Mode   == displays[Id(Device)]

\* The first half of init_dev_mode.
SetState ==
    /\ main = "set state"
    /\ IF dev = Cardinality(present) \/ Id(Device) \notin DOMAIN displays
       THEN /\ main' = "apply"
            /\ UNCHANGED <<conf, primary_detached, desk, notice, clean, refusals>>
       ELSE /\ SetMonitorState(Device, Mode # Gap /\ Mode.attached)
            /\ main' = IF Mode = Gap THEN "null"
                       ELSE IF Mode.attached THEN "set size" ELSE "set position"
    /\ UNCHANGED <<driver, setting, layout, asked, stale, updating, present>>

\* The second half: the mode becomes what Windows will make of it.
SetSize ==
    /\ main = "set size"
    /\ \E got \in Sizes : got >= Mode.size /\
        \/ /\ CustomDisplayEscape(Device, Mode.size, TRUE, got)
           /\ displays' = [displays EXCEPT ![Id(Device)].size = got]
           /\ main' = "set position"
        \/ /\ CustomDisplayEscape(Device, Mode.size, FALSE, got)
           /\ main' = "apply"
           /\ UNCHANGED displays
    /\ UNCHANGED <<driver, setting, total, asked, stale, updating, present>>

SetPosition ==
    /\ main = "set position"
    /\ \E ok \in BOOLEAN :
        /\ UpdateDevModePosition(Device, Mode.attached, Mode.x - normal[1], Mode.y - normal[2], ok)
        /\ sets' = (sets \/ ok)
    /\ dev' = dev + 1
    /\ main' = "set state"
    /\ UNCHANGED <<driver, normal, layout, asked, stale, updating, present>>

Apply ==
    /\ main = "apply"
    /\ IF sets THEN UpdateDisplaySettings /\ Normalized(displays)
       ELSE UNCHANGED <<conf, primary_detached, desk, notice, clean, refusals, displays, total>>
    /\ main' = Done /\ stale' = (stale \/ desk' # desk)
    /\ dev' = 0 /\ sets' = FALSE /\ normal' = <<0, 0>>
    /\ UNCHANGED <<driver, asked, updating, present>>

Enough == Cardinality(Devices) + 1      \* the bound of tries

\* The end of handle_mon_config: the table is read again, the client answered.
Refresh ==
    /\ main = "refresh"
    /\ updating' = FALSE
    /\ GetDisplays
    /\ main' = "idle"
    /\ IF clean' /\ request # NoRequest
       THEN tries' = Min({tries + 1, Enough}) /\ UNCHANGED request
       ELSE NotRepeated
    /\ UNCHANGED <<driver, primary_detached, setting, changes, present, desk, notice>>

\* WM_DISPLAYCHANGE.  While a mode is being set it is deleted with the table.
DisplayChange ==
    /\ notice /\ main \notin Crashed
    /\ notice' = FALSE
    /\ IF updating THEN UNCHANGED <<displays, total, conf, clean, refusals, stale, main>>
       ELSE /\ GetDisplays
            /\ main' = IF main \in {"set size", "set position"} /\ Consistent THEN "dangling"
                       ELSE main
    /\ UNCHANGED <<driver, primary_detached, setting, asked, updating, present, desk>>

------------------------------------------------------------------------------
(***************************************************************************)
(* The user and the machine.  The registry of an XPDM driver follows.      *)
(***************************************************************************)
Mirror(new) ==
    conf' = IF driver = "XPDM" THEN [d \in Devices |-> Kept(new[d])] ELSE conf

Outside(new) ==
    /\ desk' = new /\ notice' = TRUE /\ stale' = TRUE /\ NotRepeated /\ Mirror(new)
    /\ changes < MaxChanges /\ changes' = changes + 1
    /\ UNCHANGED <<driver, primary_detached, clean, refusals, layout, updating, main, setting>>

Display(p, s) == [on |-> TRUE, x |-> p[1], y |-> p[2], size |-> s]
Apart(new)    == \A d, e \in On(new) : d # e => <<new[d].x, new[d].y>> # <<new[e].x, new[e].y>>

Rearrange ==
    /\ main \notin Crashed
    /\ \E d \in present : \E m \in {Off} \cup {Display(p, s) : p \in Places, s \in Sizes} :
        LET new == [desk EXCEPT ![d] = m]
        IN  m # desk[d] /\ Legal(new) /\ Apart(new) /\ Outside(new)
    /\ UNCHANGED present

Plug ==
    /\ main = "idle"
    /\ \E d \in Devices \ present : present' = present \cup {d}
    /\ Outside(desk)

Unplug ==
    /\ main = "idle"
    /\ \E d \in present :
        /\ present' = present \ {d} /\ present' # {} /\ On(desk) # {d}
        /\ \E new \in Reroot([desk EXCEPT ![d] = Off]) : Outside(new)

------------------------------------------------------------------------------
Init ==
    /\ driver \in Drivers
    /\ present \in (SUBSET Devices) \ {{}}
    /\ LET first == Min(present)
       IN  desk = [d \in Devices |-> IF d = first THEN Display(<<0, 0>>, DefaultSize) ELSE Off]
    /\ conf = [d \in (IF driver = "WDDM" THEN present ELSE Devices) |-> Kept(desk[d])]
    /\ primary_detached = FALSE /\ notice = FALSE /\ clean = TRUE /\ refusals = 0
    /\ Consistent
    /\ displays = Moved(Table(On(desk), FALSE))
    /\ total = <<Width(displays), Height(displays)>>
    /\ updating = FALSE /\ main = "idle"
    /\ dev = 0 /\ sets = FALSE /\ normal = <<0, 0>>
    /\ request = NoRequest /\ tries = 0 /\ stale = FALSE /\ changes = 0

Agent ==
    \/ BeginSet \/ SetState \/ SetSize \/ SetPosition \/ Apply \/ Refresh

Next ==
    \/ Agent \/ DisplayChange
    \/ \E r \in Requests : HandleMonConfig(r)
    \/ HandleDepth
    \/ Rearrange \/ Plug \/ Unplug

Spec == Init /\ [][Next]_vars

------------------------------------------------------------------------------
(***************************************************************************)
(* Properties.                                                             *)
(***************************************************************************)
Kind == [on : BOOLEAN, x : Int, y : Int, size : Nat]

\* What the variables hold: the table, the copy of Windows' configuration and
\* where the handlers are; the loop of set_displays runs over a known table.
LayoutTypeOK ==
    /\ driver \in Drivers /\ present \subseteq Devices /\ present # {}
    /\ desk \in [Devices -> Kind] /\ Legal(desk)
    /\ \A d \in Devices \ present : ~desk[d].on
    /\ DOMAIN conf \subseteq Devices
    /\ DOMAIN displays \subseteq Nat /\ Modes # {}
    /\ \A i \in Modes : displays[i].attached \in BOOLEAN /\ displays[i].size \in Sizes \cup {0}
    /\ total \in Nat \X Nat /\ normal \in Int \X Int
    /\ main \in {"idle", "set displays", "set state", "set size", "set position", "apply",
                 "refresh"} \cup Crashed
    /\ dev \in 0 .. Cardinality(Devices)
    /\ {updating, sets, primary_detached, notice, clean} \subseteq BOOLEAN

Settled == main = "idle" /\ ~notice /\ clean /\ Consistent

LeftEdge   == Min({desk[d].x : d \in On(desk)})
TopEdge    == Min({desk[d].y : d \in On(desk)})
RightEdge  == Max({desk[d].x + desk[d].size : d \in On(desk)})
BottomEdge == Max({desk[d].y + desk[d].size : d \in On(desk)})

\* The client's mouse is at the point of the desktop it points at: after every
\* request, and after whatever the user and Windows did in between, the table
\* says what Windows shows, measured from the top left corner of all displays,
\* as handle_mouse_event scales it; and a display that is off takes no mouse.
PointerFollows ==
    Settled =>
        /\ total = <<RightEdge - LeftEdge, BottomEdge - TopEdge>>
        /\ \A d \in present :
            /\ Id(d) \in Modes
            /\ displays[Id(d)].attached = desk[d].on
            /\ desk[d].on => /\ displays[Id(d)].size = desk[d].size
                            /\ displays[Id(d)].x = desk[d].x - LeftEdge
                            /\ displays[Id(d)].y = desk[d].y - TopEdge

\* A request that Windows refuses nothing of is met when it has been repeated
\* once for every device, and once for a table that was out of date: the
\* displays asked for are on, with the size asked for, and where they were asked
\* to be, measured from any one of them.  handle_mon_config does not promise it
\* for the first time: a display that is switched on has no mode yet.
Asked == {d \in present : Id(d) < Len(request.monitors) /\ request.monitors[Id(d) + 1].on}
For(d) == request.monitors[Id(d) + 1]

RequestIsMet ==
    Settled /\ tries = Enough /\ Asked # {} =>
        /\ \A d \in present : desk[d].on <=> d \in Asked
        /\ \A d \in Asked : desk[d].size = For(d).size
        /\ request.use_pos => \A d, e \in Asked :
                /\ desk[d].x - desk[e].x = For(d).x - For(e).x
                /\ desk[d].y - desk[e].y = For(d).y - For(e).y

\* What update_display_settings hands to Windows has a display at the origin,
\* the primary one, if it has any that is on: Windows refuses all of it
\* otherwise.  So it is whichever displays the request turns off, unless the
\* table was out of date.
PrimaryIsSupplied ==
    [][Apply /\ sets /\ driver = "WDDM" /\ updating /\ ~stale /\ Actives(conf) # {}
        => Rooted(conf')]_vars

==============================================================================
