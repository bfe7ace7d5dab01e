----------------------------- MODULE TuiLayout -----------------------------
(* The row arithmetic of the terminal screen: how the rows of the terminal   *)
(* are divided between header, transcript, popup and composer, and how a list *)
(* longer than its window is scrolled.  Pure operators on integers, shared by *)
(* every surface.                                                             *)
EXTENDS Integers

AtLeast(a, b) == IF a < b THEN b ELSE a
AtMost(a, b)  == IF a > b THEN b ELSE a

Clamp(value, low, high) == AtMost(AtLeast(value, low), high)

(* Constants of constants/ui.ts and layout.ts *)
HeaderRows       == 1
CwdGapRows       == 2
ErrorReserveRows == 1
PaddingRows      == 2
MaxHeightDivisor == 2
MinRows          == 15
MenuRows         == 8
DockedRows       == 15

---------------------------------------------------------------------------
(* Scrolling *)

ResolveWindowOffset(index, offset, visible, total) ==
    Clamp(IF index < offset THEN index ELSE AtLeast(offset, index - visible + 1),
          0, AtLeast(0, total - visible))

PositionIndicator(offset, maxOffset) ==
    CASE maxOffset <= 0      -> "none"
      [] maxOffset > 0 /\ offset <= 0         -> "down"
      [] maxOffset > 0 /\ offset >= maxOffset /\ offset > 0 -> "up"
      [] OTHER -> "both"

InWindow(index, offset, visible) == offset <= index /\ index < offset + visible

---------------------------------------------------------------------------
(* Docked popups *)

ResolveDockedPanelRows(rows, desired) ==
    IF desired <= 0
    THEN 0
    ELSE Clamp(AtMost(desired, rows \div MaxHeightDivisor),
               1, AtLeast(1, rows - HeaderRows - 1))

FooterGapFits(panelRows, chrome, reserved) == panelRows - chrome - reserved >= 1

CommandSurfaceBodyRows(panelRows, chrome, reserved) ==
    AtLeast(1, panelRows - (IF FooterGapFits(panelRows, chrome, reserved)
                            THEN chrome ELSE chrome - 1))

---------------------------------------------------------------------------
(* The home screen; `menu` are the rows of the command menu, `docked` those  *)
(* of a popup, `entries` the number of transcript entries.                    *)

ResolveHomeScreenLayout(rows, entries, composer, cwd, menu, docked, header) ==
    LET fixed == AtLeast(0, header) + CwdGapRows + AtLeast(0, cwd) + 1
        body(room) == AtLeast(1, AtMost(room, entries + 1))
    IN  IF docked > 0
        THEN [bodyRows     |-> body(rows - AtLeast(0, header) - docked),
              composerRows |-> 1,
              cwdRows      |-> 0]
        ELSE [bodyRows     |-> body(rows - fixed - composer - menu),
              composerRows |->
                AtLeast(1, AtMost(rows - fixed - PaddingRows - ErrorReserveRows - 1,
                                  (rows \div MaxHeightDivisor) - PaddingRows - ErrorReserveRows)),
              cwdRows      |-> AtLeast(0, cwd)]

=============================================================================
