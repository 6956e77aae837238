-------------------------------- MODULE Layout --------------------------------
(***************************************************************************)
(* The geometry of a frame: ui/layout.rs, with the scrolling and the        *)
(* presses of ui/input.rs that read it. A view is what the snapshot and the *)
(* settings say is to be laid out; Project makes rectangles of it and the   *)
(* list of hits a press is looked up in. Lengths are logical pixels;        *)
(* rounding is exact where the code rounds a float.                        *)
(***************************************************************************)
EXTENDS Integers, FiniteSetsExt, SequencesExt

CONSTANTS
  Views,     \* what may be laid out: see View below
  Sizes,     \* the sizes a window is given, as <<width, height>>
  Swipe,     \* what one turn of the wheel adds to the offset
  Nowhere    \* no rectangle, no overlay, no drag

Rect(x, y, w, h) == [x |-> x, y |-> y, w |-> w, h |-> h]
RightOf(r) == r.x + r.w
BottomOf(r) == r.y + r.h
Covers(r, p) == r.x <= p[1] /\ r.y <= p[2] /\ p[1] < RightOf(r) /\ p[2] < BottomOf(r)
Clamp(n, low, high) == IF n < low THEN low ELSE IF n > high THEN high ELSE n
AtLeast(n, low) == IF n < low THEN low ELSE n
AtMost(n, high) == IF n > high THEN high ELSE n
Rounded(n, d) == (2 * n + d) \div (2 * d)

-----------------------------------------------------------------------------
(* Metrics.                                                                *)

COLUMN_WIDTH == 106
COLUMN_HEADER_HEIGHT == 46
SLIDER_TRACK_HEIGHT == 140
MIN_FADER_HEIGHT == 130
PICKER_MUTE_GAP == 9
PICK_STACK_GAP == 2
ACTION_BTN_WIDTH == 32
ACTION_BTN_HEIGHT == 20
SIDEBAR_WIDTH == 48
ACTION_GAP == 4
ACTION_CLUSTER_GAP == 15
SIDEBAR_PAD == 12
SLIDER_WIDTH == 16
KNOB_SIZE == 28
PICK_SIZE == 22
COLUMN_BOTTOM == 12
PROFILE_STRIP_HEIGHT == 34
PROFILE_CHIP_WIDTH == 140
PROFILE_CHIP_PAD == 4
PALETTE_ROW_H == 30
TITLEBAR_HEIGHT == 34
WINDOW_BTN == 28
RESIZE_GRAB == 6
METER_W == 18
STRIP_PAD == 10
COL_GAP == 1
METER_INSET == 24
SLIDER_METER_GAP == 12
FADER_BUTTON_GAP == 9
COLUMN_END_AIR ==
  COLUMN_WIDTH - (METER_INSET + METER_W + SLIDER_METER_GAP + SLIDER_WIDTH + FADER_BUTTON_GAP + PICK_SIZE)
STRIP_PAD_RIGHT == STRIP_PAD + METER_INSET - COLUMN_END_AIR
STRIP_PAD_BOTTOM == 2
HEADER_TOP == 3
NAME_H == 16
HEADER_GAP == 16
MENU_ROW_H == 26
MENU_PAD == 4
MENU_SEP_H == 1
MENU_MIN_W == 200
FIELD_H == 30
PALETTE_CHROME_H == 56
VISIBLE_ROWS == 12
SCROLLBAR_LANE == 8
SCROLLBAR_INSET == 2
SCROLLBAR_MIN_LEN == 24
MODAL_W == 300
MAX_CUBIC == 15000   \* a cubic gain in ten-thousandths

-----------------------------------------------------------------------------
(* Columns.                                                                *)

\* Width of n columns side by side, with the rule between each pair.
run_width(n) == IF n <= 0 THEN 0 ELSE n * COLUMN_WIDTH + (n - 1) * COL_GAP

\* Broken variant of natural_width: the rule after the last column counts.
natural_width_with_rule(n, show_sidebar) ==
  (IF show_sidebar THEN SIDEBAR_WIDTH ELSE 0) + STRIP_PAD + STRIP_PAD_RIGHT + run_width(n) + COL_GAP

\* The window width that shows n columns with no room left over.
natural_width(n, show_sidebar) ==
  (IF show_sidebar THEN SIDEBAR_WIDTH ELSE 0) + STRIP_PAD + STRIP_PAD_RIGHT + run_width(n)

minimum_size(show_sidebar) ==
  <<natural_width(1, show_sidebar),
    TITLEBAR_HEIGHT + STRIP_PAD + COLUMN_HEADER_HEIGHT + HEADER_GAP + MIN_FADER_HEIGHT + COLUMN_BOTTOM + STRIP_PAD_BOTTOM>>

at_least_minimum(size, show_sidebar) ==
  [k \in 1 .. 2 |-> AtLeast(size[k], minimum_size(show_sidebar)[k])]

\* Where the knob of a gain stands in a track, and the gain of a height in it.
y_for_cubic(track, cubic) == BottomOf(track) - (track.h * Clamp(cubic, 0, MAX_CUBIC)) \div MAX_CUBIC
cubic_for_y(track, y) == (Clamp(BottomOf(track) - y, 0, AtLeast(track.h, 1)) * MAX_CUBIC) \div AtLeast(track.h, 1)

thumb(track, cubic) ==
  Rect(track.x + (track.w - KNOB_SIZE) \div 2, Clamp(y_for_cubic(track, cubic), track.y, BottomOf(track)) - KNOB_SIZE \div 2,
       KNOB_SIZE, KNOB_SIZE)

pin_press(sink, on) == IF on THEN Nowhere ELSE sink

Hit(rect, op, of) == [rect |-> rect, op |-> op, of |-> of]

\* One column in rect. Its buttons are stacked upwards from the mute button: a
\* pin for each of several sinks, the last lowest, then the expand toggle.
column(spec, rect, sinks) ==
  LET body_top == rect.y + COLUMN_HEADER_HEIGHT + HEADER_GAP
      body_bottom == BottomOf(rect) - COLUMN_BOTTOM
      meter == Rect(rect.x + METER_INSET, body_top, METER_W, AtLeast(body_bottom - body_top, 1))
      track == Rect(RightOf(meter) + SLIDER_METER_GAP, body_top, SLIDER_WIDTH, meter.h)
      slot(n) == Rect(RightOf(track) + FADER_BUTTON_GAP,
                      body_bottom - PICK_SIZE - (IF n = 0 THEN 0 ELSE PICKER_MUTE_GAP + PICK_SIZE)
                                             - (IF n = 0 THEN 0 ELSE (n - 1) * (PICK_SIZE + PICK_STACK_GAP)),
                      PICK_SIZE, PICK_SIZE)
      pins == IF spec.app /\ Len(sinks) > 1
              THEN [k \in DOMAIN sinks |-> Hit(slot(k), "target", <<spec.id, pin_press(Reverse(sinks)[k], spec.target = Reverse(sinks)[k])>>)]
              ELSE <<>>
      expand == IF spec.app /\ spec.can_expand THEN <<Hit(slot(Len(pins) + 1), "expand", spec.id)>> ELSE <<>>
      name == Rect(rect.x, rect.y + HEADER_TOP, COLUMN_WIDTH, NAME_H)
  IN [rect |-> rect, meter |-> meter, track |-> track, thumb |-> thumb(track, spec.cubic),
      hits |-> <<Hit(Rect(thumb(track, spec.cubic).x, track.y, KNOB_SIZE, track.h), "slider", spec.id)>>
               \o (IF spec.app THEN pins \o expand ELSE <<Hit(name, "default", spec.id)>>)
               \o <<Hit(slot(0), "mute", spec.id)>>]

-----------------------------------------------------------------------------
(* Chrome.                                                                 *)

\* The titlebar the window draws itself: its buttons from the right.
button(bar, n) ==
  LET pad == (TITLEBAR_HEIGHT - WINDOW_BTN) \div 2
  IN Rect(RightOf(bar) - pad - n * WINDOW_BTN, bar.y + pad, WINDOW_BTN, WINDOW_BTN)

\* Broken variant of titlebar: the drag strip goes down last.
titlebar_over(window) ==
  LET bar == Rect(window.x, window.y, window.w, TITLEBAR_HEIGHT)
  IN [bar |-> bar, fit |-> button(bar, 4),
      title |-> Rect(bar.x + STRIP_PAD, bar.y, button(bar, 4).x - bar.x - STRIP_PAD, bar.h),
      hits |-> <<Hit(button(bar, 3), "minimize", Nowhere),
                 Hit(button(bar, 2), "maximize", Nowhere), Hit(button(bar, 1), "close", Nowhere), Hit(bar, "move", Nowhere)>>]

titlebar(window) ==
  LET bar == Rect(window.x, window.y, window.w, TITLEBAR_HEIGHT)
  IN [bar |-> bar, fit |-> button(bar, 4),
      title |-> Rect(bar.x + STRIP_PAD, bar.y, button(bar, 4).x - bar.x - STRIP_PAD, bar.h),
      hits |-> <<Hit(bar, "move", Nowhere), Hit(button(bar, 3), "minimize", Nowhere),
                 Hit(button(bar, 2), "maximize", Nowhere), Hit(button(bar, 1), "close", Nowhere)>>]

fit_button(strip) ==
  LET pad == AtLeast((strip.h - WINDOW_BTN) \div 2, 0)
  IN Rect(RightOf(strip) - pad - WINDOW_BTN, strip.y + pad, WINDOW_BTN, WINDOW_BTN)

profile_chip(host) ==
  LET h == AtLeast(host.h - 8, 1)
  IN Rect(host.x + PROFILE_CHIP_PAD, host.y + (host.h - h) \div 2,
          AtMost(AtLeast(host.w - PROFILE_CHIP_PAD, 0), PROFILE_CHIP_WIDTH), h)

\* The filters, a gap, and the actions; a hidden button closes the gap it left.
action_bar(bar, shown) ==
  LET x == bar.x + (bar.w - ACTION_BTN_WIDTH) \div 2
      filters == SelectSeq(<<"inputs", "outputs", "apps">>, LAMBDA b : b \in shown)
      actions == SelectSeq(<<"mute_all", "reset">>, LAMBDA b : b \in shown)
      at(n) == bar.y + SIDEBAR_PAD + (n - 1) * (ACTION_BTN_HEIGHT + ACTION_GAP)
      gap == IF filters # <<>> /\ actions # <<>> THEN ACTION_CLUSTER_GAP ELSE 0
  IN [k \in DOMAIN filters |-> Hit(Rect(x, at(k), ACTION_BTN_WIDTH, ACTION_BTN_HEIGHT), "filter", filters[k])]
     \o [k \in DOMAIN actions |-> Hit(Rect(x, at(Len(filters) + k) + gap, ACTION_BTN_WIDTH, ACTION_BTN_HEIGHT),
                                      "action", actions[k])]

\* Eight grabs around the window, the corners over the edges.
resize_edges(window) ==
  LET g == RESIZE_GRAB
      c == 2 * RESIZE_GRAB
      x == window.x
      y == window.y
      right == RightOf(window)
      bottom == BottomOf(window)
  IN <<Hit(Rect(x, y, window.w, g), "resize", "top"), Hit(Rect(x, bottom - g, window.w, g), "resize", "bottom"),
       Hit(Rect(x, y, g, window.h), "resize", "left"), Hit(Rect(right - g, y, g, window.h), "resize", "right"),
       Hit(Rect(x, y, c, c), "resize", "top left"), Hit(Rect(right - c, y, c, c), "resize", "top right"),
       Hit(Rect(x, bottom - c, c, c), "resize", "bottom left"), Hit(Rect(right - c, bottom - c, c, c), "resize", "bottom right")>>

\* The slider is as long as the share of the run in sight, and its travel maps
\* the offset onto what that leaves.
strip_scrollbar(strip, scroll_x, scroll_max_x) ==
  LET track == Rect(strip.x + STRIP_PAD, BottomOf(strip) - SCROLLBAR_LANE, AtLeast(strip.w - 2 * STRIP_PAD, 1), SCROLLBAR_LANE)
      slider_w == Clamp((track.w * strip.w) \div AtLeast(strip.w + scroll_max_x, 1), AtMost(SCROLLBAR_MIN_LEN, track.w), track.w)
  IN [track |-> track,
      slider |-> Rect(track.x + Rounded((track.w - slider_w) * scroll_x, scroll_max_x), track.y + SCROLLBAR_INSET,
                      slider_w, SCROLLBAR_LANE - 2 * SCROLLBAR_INSET)]

-----------------------------------------------------------------------------
(* Overlays.                                                               *)

\* The profiles, a rule, and the row that makes a new one.
profile_menu(chip, profiles) ==
  LET w == AtLeast(chip.w, MENU_MIN_W)
      n == Len(profiles)
      panel == Rect(chip.x, BottomOf(chip) + MENU_PAD, w, MENU_PAD * 2 + (n + 1) * MENU_ROW_H + MENU_SEP_H)
      row(k) == Rect(panel.x, panel.y + MENU_PAD + (k - 1) * MENU_ROW_H, w, MENU_ROW_H)
      create == Rect(panel.x, row(n + 1).y + MENU_SEP_H, w, MENU_ROW_H)
  IN [panel |-> panel, hits |-> [k \in 1 .. n |-> Hit(row(k), "apply", profiles[k])] \o <<Hit(create, "create", Nowhere)>>]

\* Where a profile that was pressed is dropped: on itself, or above or below
\* another, by the half of its row.
profile_drop(menu, name, p) ==
  LET rows == {k \in DOMAIN menu.hits : menu.hits[k].op = "apply" /\ Covers(menu.hits[k].rect, p)}
  IN IF rows = {} THEN Nowhere
     ELSE LET row == menu.hits[CHOOSE k \in rows : TRUE]
          IN IF row.of = name THEN <<"apply", name>>
             ELSE <<"reorder", name, row.of, p[2] < row.rect.y + row.rect.h \div 2>>

\* The search field over a window of the rows that match.
palette(content, total, scroll, selected) ==
  LET w == Clamp(content.w - 80, 120, 520)
      x == content.x + (content.w - w) \div 2
      room == AtLeast((content.h - 40 - PALETTE_CHROME_H) \div PALETTE_ROW_H, 1)
      capacity == AtMost(AtMost(total, VISIBLE_ROWS), room)
      wanted == AtMost(scroll, total - capacity)
      shown == AtLeast(capacity, 1)
      first == IF selected < wanted THEN selected ELSE IF selected >= wanted + shown THEN selected + 1 - shown ELSE wanted
      panel == Rect(x, content.y + 40, w, PALETTE_CHROME_H + shown * PALETTE_ROW_H)
      input == Rect(x + 10, panel.y + 8, w - 20, FIELD_H)
      row_w == IF total > capacity THEN w - 12 - SCROLLBAR_LANE ELSE w - 12
      row(k) == Rect(x + 6, BottomOf(input) + 6 + (k - 1) * PALETTE_ROW_H, row_w, PALETTE_ROW_H - 2)
      track == Rect(RightOf(panel) - 6 - SCROLLBAR_LANE, BottomOf(input) + 6, SCROLLBAR_LANE, capacity * PALETTE_ROW_H)
      slider_h == Clamp(Rounded(track.h * capacity, total), SCROLLBAR_MIN_LEN, track.h)
  IN [panel |-> panel, first |-> first,
      scrollbar |-> IF total <= capacity THEN Nowhere
                    ELSE [track |-> track,
                          slider |-> Rect(track.x + SCROLLBAR_INSET, track.y + Rounded((track.h - slider_h) * first, total - capacity),
                                          SCROLLBAR_LANE - 2 * SCROLLBAR_INSET, slider_h)],
      hits |-> <<Hit(content, "backdrop", Nowhere), Hit(input, "palette input", Nowhere)>>
               \o [k \in 1 .. capacity |-> Hit(row(k), "palette row", first + k - 1)]]

\* A dialog: a line of text or none, a field or none, and two buttons.
modal(content, has_body, has_input) ==
  LET w == AtMost(content.w - 40, MODAL_W)
      h == IF has_input THEN 150 ELSE 130
      x == content.x + (content.w - w) \div 2
      y == content.y + (content.h - h) \div 2
      input == Rect(x + 16, y + 40 + (IF has_body THEN 24 ELSE 0), w - 32, FIELD_H)
      bw == (w - 40) \div 2
      by == y + h - 42
  IN [panel |-> Rect(x, y, w, h),
      hits |-> <<Hit(content, "backdrop", Nowhere)>>
               \o (IF has_input THEN <<Hit(input, "modal input", Nowhere)>> ELSE <<>>)
               \o <<Hit(Rect(x + 16, by, bw, 30), "cancel", Nowhere), Hit(Rect(x + w - 16 - bw, by, bw, 30), "confirm", Nowhere)>>]

-----------------------------------------------------------------------------
(* The frame.                                                              *)

\* What covers the mixer.
Over == {"nothing", "palette", "confirmation", "name dialog"}

Strip(view, window) ==
  LET top == IF view.chrome = "client" THEN TITLEBAR_HEIGHT ELSE IF view.chrome = "server" THEN PROFILE_STRIP_HEIGHT ELSE 0
      side == IF view.show_sidebar THEN SIDEBAR_WIDTH ELSE 0
  IN Rect(window.x + side, window.y + top, window.w - side, window.h - top)

scroll_max_x(view, window) ==
  AtLeast(STRIP_PAD + STRIP_PAD_RIGHT + run_width(Len(view.columns)) - Strip(view, window).w, 0)

\* Hits from the bottom to the top: chrome and body, the menu, an overlay, and
\* the grabs that resize the window.
project(view, window, scroll, menu_open, over) ==
  LET client == view.chrome = "client"
      bar == titlebar(window)
      strip == Strip(view, window)
      content == IF client THEN Rect(window.x, BottomOf(bar.bar), window.w, window.h - bar.bar.h) ELSE window
      profile_strip == Rect(window.x, window.y, window.w, PROFILE_STRIP_HEIGHT)
      chip == profile_chip(IF client THEN bar.title ELSE profile_strip)
      max == scroll_max_x(view, window)
      scroll_x == Clamp(scroll, 0, max)
      at(k) == Rect(strip.x + STRIP_PAD - scroll_x + (k - 1) * (COLUMN_WIDTH + COL_GAP), strip.y + STRIP_PAD,
                    COLUMN_WIDTH, AtLeast(strip.h - STRIP_PAD - STRIP_PAD_BOTTOM, SLIDER_TRACK_HEIGHT))
      columns == [k \in DOMAIN view.columns |-> column(view.columns[k], at(k), view.sinks)]
      scrollbar == IF max > 0 THEN strip_scrollbar(strip, scroll_x, max) ELSE Nowhere
      menu == IF menu_open /\ view.chrome # "toolkit" THEN profile_menu(chip, view.profiles) ELSE Nowhere
      overlay == IF over = "palette" THEN palette(content, view.total, view.scroll, view.selected)
                 ELSE IF over \in {"confirmation", "name dialog"} THEN modal(content, over = "confirmation", over = "name dialog")
                 ELSE Nowhere
  IN [window |-> window, content |-> content, strip |-> strip, columns |-> columns, scroll_x |-> scroll_x,
      scroll_max_x |-> max, scrollbar |-> scrollbar, menu |-> menu, overlay |-> overlay,
      hits |-> (IF client THEN bar.hits ELSE <<>>)
               \o (CASE view.chrome = "client" -> <<Hit(chip, "selector", Nowhere), Hit(bar.fit, "fit", Nowhere)>>
                     [] view.chrome = "server" -> <<Hit(chip, "selector", Nowhere), Hit(fit_button(profile_strip), "fit", Nowhere)>>
                     [] OTHER                  -> <<>>)
               \o (IF view.show_sidebar THEN action_bar(Rect(strip.x - SIDEBAR_WIDTH, strip.y, SIDEBAR_WIDTH, strip.h), view.shown)
                   ELSE <<>>)
               \o FlattenSeq([k \in DOMAIN columns |-> columns[k].hits])
               \o (IF scrollbar = Nowhere THEN <<>> ELSE <<Hit(scrollbar.track, "scrollbar", Nowhere)>>)
               \o (IF menu = Nowhere THEN <<>> ELSE menu.hits)
               \o (IF overlay = Nowhere THEN <<>> ELSE overlay.hits)
               \o (IF client /\ ~view.maximized THEN resize_edges(window) ELSE <<>>)]

\* The topmost hit at a point.
hit(layout, p) ==
  LET over == {k \in DOMAIN layout.hits : Covers(layout.hits[k].rect, p)}
  IN IF over = {} THEN Nowhere ELSE layout.hits[Max(over)]

\* Broken variant of scroll_for_slider: the slider's own length is not left out
\* of the lane.
scroll_for_lane(layout, slider_x) ==
  LET bar == layout.scrollbar
  IN Clamp(Rounded(layout.scroll_max_x * (slider_x - bar.track.x), bar.track.w), 0, layout.scroll_max_x)

\* The offset that puts the scrollbar's slider at a place.
scroll_for_slider(layout, slider_x) ==
  LET bar == layout.scrollbar
      travel == bar.track.w - bar.slider.w
  IN IF travel <= 0 THEN 0
     ELSE Clamp(Rounded(layout.scroll_max_x * (slider_x - bar.track.x), travel), 0, layout.scroll_max_x)

-----------------------------------------------------------------------------
(* What the user does with it. A turn starts from the frame on screen.     *)

VARIABLES
  view,       \* what the snapshot and the settings say
  window,     \* the window's rectangle
  scroll_x,   \* the offset, which outlives the run it was taken against
  grab,       \* where in the scrollbar's slider it is held, or Nowhere
  menu_open, over,
  frame       \* what the projection makes of it

layoutVars == <<view, window, scroll_x, grab, menu_open, over, frame>>

Middle(r) == <<r.x + r.w \div 2, r.y + r.h \div 2>>

\* The points a pointer is put to.
Points ==
  {Middle(h.rect) : h \in ToSet(frame.hits)}
  \cup (IF frame.scrollbar = Nowhere THEN {}
        ELSE LET s == frame.scrollbar.slider
             IN {<<s.x, s.y>>, <<RightOf(s) - 1, s.y>>, <<frame.scrollbar.track.x, frame.scrollbar.track.y>>})

\* Where it is dragged to.
Pulls == {window.w \div 3, window.w}

\* The window manager's size, or the one the fit asked for.
Resize(size) ==
  /\ window' = Rect(0, 0, at_least_minimum(size, view.show_sidebar)[1], at_least_minimum(size, view.show_sidebar)[2])
  /\ window' # window
  /\ UNCHANGED <<view, scroll_x, grab, menu_open, over>>

\* Columns come and go.
Refresh(v) ==
  /\ v.chrome = view.chrome /\ v.show_sidebar = view.show_sidebar /\ v.shown = view.shown
  /\ view' = v
  /\ UNCHANGED <<window, scroll_x, grab, menu_open, over>>

\* An open palette takes the wheel.
Wheel(delta) ==
  /\ over # "palette"
  /\ scroll_x' = Clamp(scroll_x + delta, 0, scroll_max_x(view, window))
  /\ UNCHANGED <<view, window, grab, menu_open, over>>

\* On the slider the press holds it where it is; beside it the slider jumps to
\* the pointer first.
PressScrollbar(p) ==
  LET slider == frame.scrollbar.slider
      on == Covers(slider, p)
      half == slider.w \div 2
  IN /\ hit(frame, p).op = "scrollbar"
     /\ grab' = IF on THEN p[1] - slider.x ELSE half
     /\ scroll_x' = IF on THEN scroll_x ELSE scroll_for_slider(frame, p[1] - half)
     /\ UNCHANGED <<view, window, menu_open, over>>

PressSelector(p) ==
  /\ hit(frame, p).op = "selector"
  /\ menu_open' = ~menu_open
  /\ UNCHANGED <<view, window, scroll_x, grab, over>>

PressNothing(p) ==
  /\ hit(frame, p) = Nowhere
  /\ menu_open' = FALSE
  /\ UNCHANGED <<view, window, scroll_x, grab, over>>

PressBackdrop(p) ==
  /\ hit(frame, p).op = "backdrop"
  /\ over' = "nothing"
  /\ UNCHANGED <<view, window, scroll_x, grab, menu_open>>

\* A profile is dropped where it was pressed, or elsewhere.
Drop(name, p) ==
  /\ frame.menu # Nowhere /\ over = "nothing" /\ grab = Nowhere
  /\ name \in {h.of : h \in {h \in ToSet(frame.menu.hits) : h.op = "apply"}}
  /\ menu_open' = (profile_drop(frame.menu, name, p) = Nowhere)
  /\ UNCHANGED <<view, window, scroll_x, grab, over>>

Press(p) ==
  /\ grab = Nowhere
  /\ IF hit(frame, p) = Nowhere THEN PressNothing(p)
     ELSE PressScrollbar(p) \/ PressSelector(p) \/ PressBackdrop(p)

\* The bar may have gone while it was held.
Motion(x) ==
  /\ grab # Nowhere
  /\ scroll_x' = IF frame.scrollbar = Nowhere THEN scroll_x ELSE scroll_for_slider(frame, x - grab)
  /\ UNCHANGED <<view, window, grab, menu_open, over>>

Release ==
  /\ grab # Nowhere
  /\ grab' = Nowhere
  /\ UNCHANGED <<view, window, scroll_x, menu_open, over>>

\* The palette and the dialogs open by keys and commands.
Open(o) ==
  /\ over = "nothing" /\ o # "nothing" /\ grab = Nowhere
  /\ over' = o
  /\ UNCHANGED <<view, window, scroll_x, grab, menu_open>>

LayoutInit ==
  /\ view \in Views
  /\ window \in {Rect(0, 0, at_least_minimum(s, view.show_sidebar)[1], at_least_minimum(s, view.show_sidebar)[2]) : s \in Sizes}
  /\ scroll_x = 0 /\ grab = Nowhere /\ menu_open = FALSE /\ over = "nothing"
  /\ frame = project(view, window, scroll_x, menu_open, over)

Turn ==
  \/ \E size \in Sizes : Resize(size)
  \/ \E v \in Views : Refresh(v)
  \/ \E delta \in Swipe : Wheel(delta)
  \/ \E p \in Points : Press(p) \/ \E name \in ToSet(view.profiles) : Drop(name, p)
  \/ \E x \in Pulls : Motion(x)
  \/ Release
  \/ \E o \in Over : Open(o)

LayoutNext == Turn /\ frame' = project(view', window', scroll_x', menu_open', over')

LayoutSpec == LayoutInit /\ [][LayoutNext]_layoutVars

-----------------------------------------------------------------------------
(* Correctness.                                                            *)

Inside(r, outer) == r.x >= outer.x /\ r.y >= outer.y /\ RightOf(r) <= RightOf(outer) /\ BottomOf(r) <= BottomOf(outer)

OfColumn == {"slider", "target", "expand", "default", "mute"}
OfActionBar == {"filter", "action"}

\* Whether a control is in sight: a column's, all of it.
InSight(h) ==
  /\ Covers(frame.window, Middle(h.rect))
  /\ h.op \in OfColumn => Inside(h.rect, frame.strip)
  /\ h.op \notin {"move", "backdrop"}

OfMenu == {"apply", "create"}
OfOverlay == {"palette input", "palette row", "modal input", "cancel", "confirm"}

\* Whether what is open lies over it.
Covered(h) ==
  \/ frame.overlay # Nowhere /\ h.op \notin OfOverlay \cup {"resize"} /\ Covers(frame.content, Middle(h.rect))
  \/ frame.menu # Nowhere /\ h.op \notin OfMenu \cup OfOverlay \cup {"resize"} /\ Covers(frame.menu.panel, Middle(h.rect))
  \/ frame.scrollbar # Nowhere /\ h.op \in OfColumn /\ Covers(frame.scrollbar.track, Middle(h.rect))

\* No later hit is over the middle of this one.
Answers(k) ==
  \A j \in k + 1 .. Len(frame.hits) : ~Covers(frame.hits[j].rect, Middle(frame.hits[k].rect))

\* What the code leaves to others: the action bar to columns that are scrolled
\* beneath it, though it "takes a fixed strip down the left", and the lane of the scrollbar, but for two
\* pixels, to the grab along the bottom of a window with its own chrome.
Ceded(h) ==
  \/ h.op \in OfActionBar /\ frame.scroll_x > 0
  \/ h.op = "scrollbar" /\ view.chrome = "client" /\ ~view.maximized

\* Every control in sight answers to a press on its middle, whatever the size,
\* the chrome and the offset.
ControlsAnswer ==
  \A k \in DOMAIN frame.hits :
    \/ ~InSight(frame.hits[k]) \/ Covered(frame.hits[k]) \/ Ceded(frame.hits[k])
    \/ Answers(k)

\* An overlay lies within the window, its controls within it and apart, and no
\* press on what it covers reaches the mixer.
OverlaysCover ==
  frame.overlay # Nowhere =>
    /\ Inside(frame.overlay.panel, frame.content)
    /\ \A k \in 2 .. Len(frame.overlay.hits) : Inside(frame.overlay.hits[k].rect, frame.overlay.panel)
    /\ \A p \in Points : Covers(frame.content, p) => hit(frame, p).op \in OfOverlay \cup {"backdrop", "resize"}

\* The offset never leaves air on either side of the run, and reaches both of
\* its ends; the slider stays in its lane and shows which end it is.
EndsMeet ==
  frame.scrollbar # Nowhere =>
    LET first == frame.columns[1].rect
        last == Last(frame.columns).rect
        bar == frame.scrollbar
    IN /\ first.x = frame.strip.x + STRIP_PAD - frame.scroll_x
       /\ RightOf(last) + STRIP_PAD_RIGHT = RightOf(frame.strip) + frame.scroll_max_x - frame.scroll_x
       /\ frame.scroll_x \in 0 .. frame.scroll_max_x
       /\ Inside(bar.slider, bar.track)
       /\ frame.scroll_x = 0 => bar.slider.x = bar.track.x
       /\ frame.scroll_x = frame.scroll_max_x => RightOf(bar.slider) = RightOf(bar.track)

\* The width the fit asks for is the least without a scrollbar.
FitIsExact ==
  view.columns # <<>> =>
    (window.w < natural_width(Len(view.columns), view.show_sidebar)) = (scroll_max_x(view, window) > 0)

\* The knob goes where its track is pressed.
KnobFollows ==
  \A k \in DOMAIN frame.columns :
    LET track == frame.columns[k].track
    IN \A y \in {track.y - 5, track.y, track.y + track.h \div 3, BottomOf(track) - 1, BottomOf(track) + 5} :
         LET stands == y_for_cubic(track, cubic_for_y(track, y))
         IN stands - Clamp(y, track.y, BottomOf(track)) \in 0 .. 1

LayoutIsSound == ControlsAnswer /\ OverlaysCover /\ EndsMeet /\ FitIsExact /\ KnobFollows

\* A slider that is dragged stays under the pointer, but for the rounding of
\* the offset and its own, until it meets an end of its lane.
GrabHolds ==
  [][frame.scrollbar # Nowhere => \A x \in Pulls :
       Motion(x) =>
         LET bar == frame.scrollbar
             travel == bar.track.w - bar.slider.w
             want == Clamp(x - grab, bar.track.x, bar.track.x + travel)
             off == frame'.scrollbar.slider.x - want
         IN 2 * frame.scroll_max_x * (IF off < 0 THEN -off ELSE off) <= travel + frame.scroll_max_x]_layoutVars

=============================================================================
