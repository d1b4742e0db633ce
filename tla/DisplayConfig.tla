---------------------------- MODULE DisplayConfig ----------------------------
(***************************************************************************)
(* How the agent reads and changes the configuration of the displays       *)
(* (vdagent/display_configuration.cpp), with Windows underneath.  There are*)
(* two ways: with a WDDM driver the agent keeps a copy of Windows' paths   *)
(* and modes (class CCD), changes it and hands all of it back; with an     *)
(* XPDM driver it writes the settings of one device after the other to the *)
(* registry and then has them applied.  In both cases conf is what the next*)
(* application will make of the displays.                                  *)
(*                                                                         *)
(* A display has a position and a size, which is its width and its height; *)
(* a device has one path.  A call of Windows may be refused MaxRefusals    *)
(* times; clean says that none was since the present request came in.      *)
(***************************************************************************)
EXTENDS Integers, FiniteSetsExt

CONSTANTS
    Devices,        \* the display devices there can be, in Windows' order
    Sizes,          \* the sizes displays can have
    DefaultSize,    \* the size Windows gives a display it has no mode for
    MaxRefusals     \* bound: calls Windows refuses

ASSUME DisplayBounds ==
    /\ IsFiniteSet(Devices) /\ Devices \subseteq Nat \ {0}
    /\ Sizes \subseteq Nat \ {0} /\ DefaultSize \in Sizes
    /\ MaxRefusals \in Nat

VARIABLES
    driver,             \* WDDMInterface or XPDMInterface
    present,            \* the devices EnumDisplayDevices lists
    desk,               \* the displays as they are
    conf,               \* CCD::_pPathInfo and _pModeInfo, or the registry
    primary_detached,   \* CCD::_primary_detached
    notice,             \* whether a WM_DISPLAYCHANGE is on its way
    clean, refusals

\* DisplayConfig::create_config takes XPDM when WDDM cannot be had.
Drivers == {"WDDM", "XPDM"}

config == <<driver, conf, primary_detached>>

Off     == [on |-> FALSE, x |-> 0, y |-> 0, size |-> 0]
Kept(m) == [on |-> m.on, known |-> TRUE, x |-> m.x, y |-> m.y, size |-> m.size]
NoPaths == [d \in {} |-> Off]

\* Windows has a display at the origin, the primary one.
AtOrigin(s) == s.on /\ s.x = 0 /\ s.y = 0
On(c)       == {d \in DOMAIN c : c[d].on}
Legal(c)    == \E d \in DOMAIN c : AtOrigin(c[d])

\* is_active_path: a path of a device may be active and have no mode.
Active(c, d) == d \in DOMAIN c /\ c[d].on /\ c[d].known
Actives(c)   == {d \in DOMAIN c : Active(c, d)}

------------------------------------------------------------------------------
(***************************************************************************)
(* Windows.                                                                *)
(***************************************************************************)
Accepts == UNCHANGED <<clean, refusals>>
Refuses == refusals < MaxRefusals /\ refusals' = refusals + 1 /\ clean' = FALSE

Becomes(new) == desk' = new /\ notice' = (notice \/ new # desk)

\* A display without a mode goes to the origin if nothing is there, else to
\* the right of the others.
RightOf(c)    == Max({0} \cup {c[d].x + c[d].size : d \in Actives(c)})
Rooted(c)     == \E d \in Actives(c) : c[d].x = 0 /\ c[d].y = 0
Placed(c, d)  ==
    CASE d \notin On(c)  -> Off
      [] Active(c, d)    -> [on |-> TRUE, x |-> c[d].x, y |-> c[d].y, size |-> c[d].size]
      [] OTHER           -> [on |-> TRUE, x |-> IF Rooted(c) THEN RightOf(c) ELSE 0, y |-> 0,
                             size |-> DefaultSize]

\* SetDisplayConfig takes all paths at once.  It refuses a configuration
\* without a primary display, and one of devices that have changed.
SetDisplayConfig(c) ==
    LET new == [d \in Devices |-> IF d \in present THEN Placed(c, d) ELSE Off]
    IN  \/ DOMAIN c = present /\ Legal(new) /\ Becomes(new) /\ Accepts
        \/ (DOMAIN c # present \/ ~Legal(new)) /\ UNCHANGED <<desk, notice>> /\ Accepts
        \/ UNCHANGED <<desk, notice>> /\ Refuses

\* When the primary display goes Windows makes another one the primary.
Shifted(c, e) == [d \in DOMAIN c |-> IF c[d].on THEN [c[d] EXCEPT !.x = @ - c[e].x, !.y = @ - c[e].y]
                                     ELSE c[d]]
Reroot(c)     == IF Legal(c) THEN {c} ELSE {Shifted(c, e) : e \in On(c)}

------------------------------------------------------------------------------
(***************************************************************************)
(* update_config_path: CCD::query_display_config.  Windows may remember a  *)
(* mode for a display that is off.  Without memory the buffers are freed.  *)
(***************************************************************************)
Path(d, known) ==
    [on |-> desk[d].on, known |-> desk[d].on \/ known, x |-> desk[d].x, y |-> desk[d].y,
     size |-> IF desk[d].on THEN desk[d].size ELSE DefaultSize]

UpdateConfigPath ==
    \/ /\ driver = "WDDM" /\ Accepts
       /\ \E known \in BOOLEAN : conf' = [d \in present |-> Path(d, known)]
    \/ driver = "WDDM" /\ Refuses /\ conf' = NoPaths
    \/ driver = "XPDM" /\ Accepts /\ UNCHANGED conf

IsAttached(c, d) == IF driver = "WDDM" THEN Active(c, d) ELSE desk[d].on

------------------------------------------------------------------------------
(***************************************************************************)
(* set_monitor_state.                                                      *)
(***************************************************************************)
\* Mutant: the mode is looked up when the path is off already, and not found.
LookedUpAfter(d) == Active([conf EXCEPT ![d].on = FALSE], d) /\ conf[d].x = 0 /\ conf[d].y = 0

\* update_detached_primary_state
PrimaryGoes(d) == conf[d].x = 0 /\ conf[d].y = 0

SetPathState(d, on) ==
    \/ /\ Active(conf, d) = on \/ d \notin DOMAIN conf
       /\ UNCHANGED <<conf, primary_detached, desk, notice>> /\ Accepts
    \/ /\ Active(conf, d) /\ ~on
       /\ conf' = [conf EXCEPT ![d].on = FALSE]
       /\ primary_detached' = (primary_detached \/ PrimaryGoes(d))
       /\ UNCHANGED <<desk, notice>> /\ Accepts
    \/ /\ d \in DOMAIN conf /\ ~Active(conf, d) /\ on
       /\ conf' = [conf EXCEPT ![d].on = TRUE]
       /\ SetDisplayConfig(conf')
       /\ UNCHANGED primary_detached

\* With XPDM a display is detached at once, unless it is the last one.
DetachNow(d) ==
    \/ /\ desk[d].on /\ On(desk) # {d}
       /\ \E new \in Reroot([desk EXCEPT ![d] = Off]) : Becomes(new)
       /\ conf' = [conf EXCEPT ![d].on = FALSE]
       /\ Accepts
    \/ ~desk[d].on /\ UNCHANGED <<desk, notice, conf>> /\ Accepts
    \/ On(desk) = {d} /\ UNCHANGED <<desk, notice, conf>> /\ Accepts
    \/ UNCHANGED <<desk, notice, conf>> /\ Refuses

SetMonitorState(d, on) ==
    \/ driver = "WDDM" /\ SetPathState(d, on)
    \/ driver = "XPDM" /\ ~on /\ DetachNow(d) /\ UNCHANGED primary_detached
    \/ driver = "XPDM" /\ on /\ UNCHANGED <<conf, primary_detached, desk, notice>> /\ Accepts

------------------------------------------------------------------------------
(***************************************************************************)
(* custom_display_escape: got is the size the display will have.           *)
(***************************************************************************)
EscapeWDDM(d, size, ok) ==
    /\ UNCHANGED <<desk, notice>>
    /\ \/ ~Active(conf, d) /\ ~ok /\ UNCHANGED conf /\ Accepts
       \/ Active(conf, d) /\ ok /\ conf' = [conf EXCEPT ![d].size = size] /\ Accepts
       \/ Active(conf, d) /\ conf[d].size # size /\ ~ok /\ UNCHANGED conf /\ Refuses

\* A display that is off is attached at once, with the size asked for or one
\* that Windows knows; find_best_mode takes a mode that is large enough.
AttachNow(d, size) ==
    \E s \in {size, DefaultSize} :
        Becomes([desk EXCEPT ![d] =
            [on |-> TRUE, x |-> Max({0} \cup {desk[e].x + desk[e].size : e \in On(desk)}), y |-> 0,
             size |-> s]])

EscapeXPDM(d, size, ok, got) ==
    \/ /\ ok
       /\ IF desk[d].on THEN UNCHANGED <<desk, notice>> ELSE AttachNow(d, size)
       /\ conf' = [conf EXCEPT ![d].on = TRUE, ![d].known = TRUE, ![d].size = got]
       /\ (got = size /\ Accepts) \/ (got > size /\ Refuses)
    \/ /\ ~ok /\ Refuses
       /\ UNCHANGED <<desk, notice, conf>>

CustomDisplayEscape(d, size, ok, got) ==
    /\ UNCHANGED primary_detached
    /\ \/ driver = "WDDM" /\ got = size /\ EscapeWDDM(d, size, ok)
       \/ driver = "XPDM" /\ EscapeXPDM(d, size, ok, got)

------------------------------------------------------------------------------
(***************************************************************************)
(* update_dev_mode_position, and update_monitor_config, which writes the   *)
(* position that is there already.                                         *)
(***************************************************************************)
UpdateDevModePosition(d, on, x, y, ok) ==
    /\ UNCHANGED <<primary_detached, desk, notice>>
    /\ \/ /\ driver = "WDDM" /\ ok = Active(conf, d) /\ Accepts
          /\ conf' = IF ok THEN [conf EXCEPT ![d].x = x, ![d].y = y] ELSE conf
       \/ /\ driver = "XPDM" /\ ok /\ Accepts
          /\ conf' = [conf EXCEPT ![d].x = x, ![d].y = y, ![d].on = on]
       \/ driver = "XPDM" /\ ~ok /\ Refuses /\ UNCHANGED conf

------------------------------------------------------------------------------
(***************************************************************************)
(* update_display_settings.  When the primary display has been detached    *)
(* verify_primary_position makes the leftmost one (the topmost of those)   *)
(* the primary.                                                            *)
(***************************************************************************)
Leftmost(c) == Min({c[d].x : d \in Actives(c)})
Topmost(c)  == Min({c[d].y : d \in {e \in Actives(c) : c[e].x = Leftmost(c)}})

VerifyPrimaryPosition(c) ==
    IF primary_detached /\ ~Rooted(c) /\ Actives(c) # {}
    THEN [d \in DOMAIN c |-> IF Active(c, d)
                             THEN [c[d] EXCEPT !.x = @ - Leftmost(c), !.y = @ - Topmost(c)]
                             ELSE c[d]]
    ELSE c

UpdateDisplaySettings ==
    \/ /\ driver = "WDDM"
       /\ conf' = VerifyPrimaryPosition(conf)
       /\ primary_detached' = FALSE
       /\ SetDisplayConfig(conf')
    \/ /\ driver = "XPDM"
       /\ LET new == [d \in Devices |-> IF d \in present THEN Placed(conf, d) ELSE Off]
          IN  \/ On(new) # {} /\ Accepts /\ \E r \in Reroot(new) : Becomes(r)
              \/ On(new) = {} /\ Accepts /\ UNCHANGED <<desk, notice>>
              \/ Refuses /\ UNCHANGED <<desk, notice>>
       /\ UNCHANGED <<conf, primary_detached>>

==============================================================================
