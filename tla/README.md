# TLA+ models of the one-page site scripts

This directory holds TLA+ models of the two scripts under `src/assets/js/`:
`functions.js`, a library of global functions, and `initialise-functions.js`,
which binds them to document-ready, window-load, resize, scroll and
scrollstart/scrollstop events. Every definition is translated from those two
files. `PROJECT.json` maps each definition to the lines it models.

## 1. Inventory

The scripts run on one browser thread. Concurrency here means event
interleaving. The events are user gestures, jQuery animation timers, the
scrollstop quiet timer, `setTimeout` callbacks and `$.ajax` completions, and
they can arrive in any order.

| Component | Code | State it keeps | Operations |
|---|---|---|---|
| Section navigation controller | `set_section_to_active`, `update_active_sections_on_scroll`, `scroll_to_section`, `initialise_general_links_click_events`, `initialise_main_menu_click_events`, `scroll_to_top`, scrollstart/scrollstop handlers | `active` class on section wrappers and menu items. `same_page_link_in_action` class on `#main-content` (the *scroll session*). `page_is_scrolling`. The animation queued on `html, body`. Document scroll offset. | menu click, link click, direct `scroll_to_section`, `scroll_to_top`, scroll gesture, scrollstop, animation frame, animation completion |
| Background policy | `change_bg_check`, `$.vegas` branches of `set_section_to_active`, `preload_section_backgrounds` | current background. `defualt-bg-set` class on `<body>`. | crossfade request |
| Mobile main menu | `toggle_main_menu`, `main_menu_visiblity_on_resize` | `#main-menu` visibility. `menu_closed_on_xs` / `menu_opened_on_xs` classes. Viewport class. | icon click, toggle from `scroll_to_section`, resize |
| Form pipeline | `validate_and_submit_forms`, `validate_fields` | field values, inline alerts, loader, general message container, requests in flight | field change, submit, ajax success, ajax error, delayed fade-out |
| CAPTCHA | `reset_captcha`, `reset_forms` | image reference (time-stamped), typed text, image shown or hidden, pending 500 ms reveal timers | refresh click, reset after a reply, `reset_captcha()` from a closed popup's removal timer, reveal timer |
| Popup modal (`PopupModal`) | `populate_and_open_modal`, modal handlers in `initialise-functions.js` | modal body content, bound handlers, popup form, 500 ms removal timer | open, shown, hide, hidden |
| Lazy images and content position (`LazyLayout`) | `load_images`, `sections_content_vertical_position`, window load handler | image load states, the one image carrying the repositioning onload, `position` of each `.content-wrapper` | document ready, window load, image load or failure, resize |
| Other layout helpers, effects, shims, third-party widgets | see `PROJECT.json` | CSS only | — |

How the components interact:
- Clicks call `scroll_to_section`, which toggles the mobile menu and starts an
  animation.
- The animation's completion callback calls `set_section_to_active`.
- `set_section_to_active` asks the background policy, then calls `$.vegas`.
- The scrollstop handler reads the scroll-session class and then calls
  `update_active_sections_on_scroll`.
- A reply to the form's `$.ajax` calls `reset_captcha`, and so does the
  removal timer of a closed popup form, for every visible form.
- Window load starts the lazy images; the last one's onload repositions
  the section contents, as do document ready and resize.
- Opening the popup copies a form into the modal and binds the form pipeline
  to that copy. Closing the popup removes the copy after a timer.

Behaviours that are hard to get right:
- A second click supersedes a running animation. `.stop()` drops the first
  animation's callback.
- An animation over `html, body` runs its callback twice.
- The scroll-session class is set and cleared on different code paths.
- Scrollstop can arrive after a gesture that overlapped a click.
- Several submits can be in flight, and their replies arrive in any order.
- jQuery fx queues on the message container interleave with replies.
- Timers (`setTimeout` 500 ms, `delay(10000)`) race with reopened popups and
  later replies.

What makes each component correct:
- **Navigation:**
  - in a settled state the highlight is on the section at the scroll offset;
  - the scroll session ends with its animation;
  - each activation makes one crossfade.
- **Menu:** navigation closes the mobile menu, a wide viewport shows it, and
  the icon's class agrees with the menu once the slides are over.
- **Layout:** once the images have loaded, no section taller than the window
  allows is left absolutely positioned (its content would be cut off).
- **Form:**
  - every reply shows a message and reissues the captcha;
  - a new captcha image is revealed only after its own delay;
  - the loader is shown exactly while a request is pending;
  - input is not discarded except on success.
- **Popup:**
  - closing the popup never removes the form of a later opening;
  - handlers do not pile up.

## 2. Modules

### SectionNav (navigation controller, background policy, mobile menu)

State:
- `pos`: scroll offset.
- `scrolling`: `page_is_scrolling`.
- `anim`: the animation on `html, body`, with its completion callback kind.
- `inAction`: the `same_page_link_in_action` class.
- `page`: the active sections, the active menu items, the background and the
  default-background flag.
- `fades`: the `$.vegas` calls made by the last step.
- `narrow`, `inline`, `running`, `queue`, `menuCls`, `icon`: the mobile
  menu, the variables of the `MobileMenu` instance `Menu`.

Actions:
- `DocumentReady`: the first update in `initialise_document_ready_functions`.
- `UserScroll` and `ScrollStop`: the scrollstart and scrollstop handlers.
  Scrollstop waits until the page stops moving.
- `GeneralLinkClick`, `MenuClick` and `JumpToSection`: the two click handlers,
  and a direct call of `scroll_to_section` from markup. No file under
  `src/` makes that call; `JumpToSection` over-approximates the page's
  markup, and no finding depends on it.
- `ScrollToTop`.
- `AnimStep` and `AnimDone`: one animation frame, and the end of the
  animation. `AnimDone` runs the callback twice, once for `html` and once for
  `body`.
- `MenuIconClick`, `Resize` and `SlideEnd` (the end of the running menu
  slide), the last two from `Menu`.

Helpers are direct translations: `SetSectionToActive`,
`UpdateActiveSectionsOnScroll` (`VisibleAt`, `PassiveTarget`,
`PassiveUpdates`), `ScrollToSection` and `ChangeBgCheck`; `ToggleMainMenu`
is `Menu!ToggleMainMenu`.

Abstractions:
- Pixel offsets are small integers, and the layout (`Top`, `Height`,
  `Buffer`) is a constant of the run.
- Closing the menu is taken to shift the layout by exactly the menu-height
  correction in `scroll_to_section`.
- Menu slides are timed (`SlideEnd`); background fades are instantaneous.
- Fade speed, overlay and the top icon are left out.
- The `buffer` argument of `update_active_sections_on_scroll` is ignored:
  the test `x !== x` at functions.js:450 is only true for NaN. The code
  recomputes the same `0.25 * $(window).height()`, so the model uses
  `Buffer` and nothing is lost.

### MobileMenu (mobile main menu)

State: `narrow`; `inline`, the inline `display` of `#main-menu` ("unset",
"block" or "none"); `running`, the slide at the head of the menu's jQuery fx
queue with whether it is live (it animates only if its target state does not
already hold); `queue`, the slides behind it; `menuCls`, the
`menu_closed_on_xs` / `menu_opened_on_xs` class; `icon`, the `active` class of
`#mobile-menu-icon`. `:visible` is `VisibleWith(inline, narrow)`: the
stylesheet hides the menu on a narrow viewport unless `inline` is "block".

Actions:
- `ToggleMainMenu`: `toggle_main_menu`; on a narrow viewport it sets the
  class and queues slideUp or slideDown (started at once if the queue is idle;
  a live slideDown shows the menu as it starts). It is an operator that
  `SectionNav` calls from its click and jump actions.
- `Resize(n)`: `main_menu_visiblity_on_resize`, whose `.show()`/`.hide()` act
  at once, whatever slide is running.
- `SlideEnd`: the running slide ends; a live slideUp hides the menu, the
  callback sets or clears the icon class, and the next slide starts.

### LazyLayout (lazy images and content position)

State: `stage` (parsing, ready, loaded), `narrow`, `img` (lazy, loading,
loaded, failed per image), `position` of each section's content wrapper, and
`hook`, the image whose `Image` object carries the onload.
`ContentHeight(s, L)` adds the heights of the loaded images of `s` to a base
height (`MapThenSumSet` of FiniteSetsExt); `VerticalPosition(n, L)` is
`sections_content_vertical_position`.

Actions: `DocumentReady`, `WindowLoad` (positions, starts every image, binds
the onload to the last in document order unless on a narrow mobile),
`ImageLoad(i)` (repositions only if `i` is the hooked image),
`ImageError(i)`, `Resize(n)` (repositions, except on mobile).

### FormPipeline (form validation, submission, captcha)

State:
- `val`: field values, abstracted to classes of strings that the three
  regular expressions tell apart.
- `alert`: the inline alerts.
- `captchaTyped` and `captchaImg`: the typed text, and the image reference,
  a number that changes on every reset (modulo `MaxReveals + 1`, so the
  images the pending timers were set after are distinct).
- `captchaShown` and `reveals`: whether `#form-captcha-img` is displayed,
  and the pending 500 ms reveal timers, each with the image it was set
  after, in firing order.
- `captchaAlerts`: alerts appended at the captcha field.
- `loader`.
- `general` and `hideTimer`: the general message container, and the queued
  10 s fade-out.
- `reqs`: the requests in flight.

Actions:
- `FieldChange`: the change handler.
- `Autofill`: a value changes without a change event.
- `TypeCaptcha`.
- `RefreshCaptcha`.
- `Submit`: the submit handler, including re-validation and the dead endpoint
  guard.
- `Reply(i, d)`: the success callback for request `i` with body `d`.
- `TransportError(i)`: the error callback.
- `AutoHide`: the queued fade-out.
- `RevealTimer`: the oldest reveal timer fires and shows the image the form
  holds at that moment (`this_form.find("#form-captcha-img").show()`).
- `PopupRemovalReset`: `reset_captcha()` with no form, called by the removal
  timer of a closed popup form (initialise-functions.js:117-120). The popup
  is not part of this module, so the reset may come at any time.

`ResetCaptcha`, used by `RefreshCaptcha`, `Reply` and `PopupRemovalReset`,
hides a new image, clears the typed text and appends a reveal timer; at most
`MaxReveals` timers are pending.

### ActiveSection (abstract navigation, spec section 4.1)

This module models spec §4.1, not code. Its state is `active` (the set of
active sections) and `target` (the section of the navigation in flight),
plus the scroll `offset`.

Actions:
- `Navigate(t)`: only when `t` is not active.
- `Cancel`: a top or anchor scroll drops the target.
- `Move`: the document scrolls.
- `Arrive`: the target becomes the one active section.
- `Passive(s)`: only a section in view at the new offset, only when no
  section in view is active, and never one other than a pending target.

`SectionNav` instantiates it as `Abstract` with this mapping:
- `active <- page.sec`;
- `target <-` the `sec` of a running `scroll_to_section` animation, else
  `None`;
- `offset <- pos`.

`ImplementsActiveSection == Abstract!Spec` is checked as a `PROPERTY`.

### PopupModal (popup modal and popup forms)

State:
- `phase`: Bootstrap's hidden / showing / shown / hiding.
- `body`: the content copied in, and whether its form is still there.
- `handlers`: the popup links whose handlers `populate_and_open_modal` has
  bound.
- `cls`: popup classes on `#common-modal`.
- `renamed`: contents whose lightbox attributes are renamed.
- `dimmed`: `#outer-container` faded.
- `scrollTo`: the in-popup scroll left by the shown handlers.
- `formInit`: `validate_and_submit_forms` and `reset_forms` have run on the
  popup form.
- `timers`: pending 500 ms removal timers.

Actions:
- `Open(l)`: `populate_and_open_modal` for popup link `l`.
- `Shown`: the page-load shown handler, then every bound populate handler.
- `Hide`: the page-load hide handler, which starts the timer, then every
  populate handler.
- `Hidden`: every populate hidden handler.
- `RemovalTimer`.

Handlers are never unbound. Their effects are idempotent except the
in-popup scroll, where the last bound handler wins. So the list is kept in
order of last binding: rebinding a link moves it to the end. This is exact
for every event and keeps the state finite.

### GeneralMessageFx (the message container's jQuery effects queue)

State:
- `content`: what `.html()` last left in the container.
- `visible`.
- `fx`: the element's effects queue; its head is running.
- `pending`: requests in flight.
- `done`: the effect that ended in the last step. It is kept for the
  properties.

Actions:
- `Submit(valid)` queues the fadeOut/empty.
- `Reply(d)` writes the message at once and queues the fadeIn. The fadeIn's
  callback queues `delay(10000)` and the fadeOut/clear.
- `TransportError` writes the message and queues a plain fadeIn.
- `Tick` ends the running effect and runs its callback. It models jQuery
  itself, which is not in the repository.

An effect with nothing to animate (a fadeOut of a hidden container, a
fadeIn of a shown one) is ended by jQuery, callback included, inside the
call that started it. `Settling` says the head of the queue is such an
effect; `Submit`, `Reply` and `TransportError` are disabled while it holds,
so the `Tick` that ends it comes before any other event.

## 3. Runs

| Run | Kind | What it shows |
|---|---|---|
| `nav_safety` | pass | Every interleaving of gestures, clicks, jumps, scroll-to-top, animation frames, menu slides and resizes, on a contiguous layout. When no scroll session is open, a settled page highlights the section at the offset (`HighlightFollowsScrollWhenIdle`). With no menu slide running or queued on a narrow viewport, the icon's class agrees with the menu's visibility (`MenuIconFollowsMenu`). And `ImplementsActiveSection`: the controller refines the spec 4.1 state machine. |
| `nav_stuck_session` | violation | A menu click on the already-active section sets `same_page_link_in_action` and never clears it. Later scrollstops stop updating the highlight (functions.js:263). |
| `nav_menu_hidden_on_wide` | violation | A resize to a wide viewport while a menu click's slideUp runs: `.show()` acts at once, then the slide's end hides the menu, and the wide page has no menu (functions.js:51, 87). Spec 4.1 says a menu closed on narrow is shown on wide. |
| `form_safety` | pass | Two fields (required email, optional string). Edits, autofill, captcha typing, refreshes, reveal timers, popup removal resets, and up to two requests in flight answered in any order keep the form within its types and bounds (`TypeOK`); the run fires every action of `FormPipeline`. |
| `form_captcha_early_reveal` | violation | Two captcha resets within 500 ms (two refresh clicks, or a reply and a closed popup's removal timer): the first reveal timer shows the second image before its own delay (functions.js:1140). Spec 4.2 says a new image is revealed only after a short fixed delay. |
| `popup_safety` | pass | Three popup links opened and closed in any order, with accumulated handlers and pending removal timers. A closed popup leaves the page restored: body empty, no popup class, lightbox attributes restored, page undimmed (`PageRestoredWhenClosed`). |
| `popup_form_removed` | violation | The 500 ms timer of an earlier close removes the form of a popup reopened before it fires (initialise-functions.js:117). |
| `popup_stale_section` | violation | A shown handler bound by an earlier opening scrolls a later popup, opened without a section, to the earlier link's section (functions.js:741). |
| `fx_safety` | pass | Submits, replies, transport errors and effect completions in any order keep the queue within its types and bounds, and a captcha reply never writes the container (`TypeOK`); the run fires every action of `GeneralMessageFx`. |
| `fx_fast_reply_erased` | violation | With a message already shown (for instance a transport error's, which never auto-hides), a submit's fadeOut animates; a reply that arrives meanwhile is emptied by that fadeOut's callback, and an empty container fades in (functions.js:994). |
| `fx_stale_autohide` | violation | The 10 s fade-out queued for one message clears the message of a later reply (functions.js:1073). |
| `lazy_layout_cut_off` | violation | On a wide desktop viewport only the last image in document order repositions the sections. When it fails, or loads before a taller earlier image, that image grows its section past 0.8 of the window and nothing repositions it: the content stays absolute and cut off (functions.js:918). |

Each property of a passing run has a seeded fault in `PROJECT.json` that
breaks it. Examples:
- a resize to narrow does not re-apply an opened menu;
- the scroll update runs only when no section is active;
- the "already active" early return is dropped;
- the hide handlers do not undim the page;
- the popup class is added without its `!= ""` test;
- the captcha reply is written into the general container;
- submit leaves the captcha alerts of earlier replies.

### Other disagreements seen while modelling

These are recorded as hazards. No run checks them.
- **Gap layout (functions.js:465).** On the mobile layout with the menu open
  above the content, an offset above every section activates `#undefined`.
  No section is then active.
- **Double callback (functions.js:316).** The callback of
  `$('html, body').animate` runs once per element, so one navigation calls
  `$.vegas` twice. `SectionNav` keeps the `fades` counter and
  `AtMostOneCrossfadePerStep`, which fails on it; no run checks it because
  the second call repeats the first and is invisible.
- **No endpoint (functions.js:990).** `form_action === undefined &&
  form_action == ""` is never true, so a form without an action posts to the
  current page. `NoRequestWithoutEndpoint` states the comment's intent.
- **Unknown reply (functions.js:1044).** A reply body outside the four
  codes shows an alert with no text; spec 4.2 says such a body is an error.
- **Loader hidden in flight (functions.js:981, 1023).** A second submit
  that fails validation hides the loader of a pending request: the converse
  of "no loader without a request" fails.
- **Every message auto-hides (functions.js:1072).** The 10 s auto-hide is
  queued for every general message, not only success as the comment and
  spec 4.2 say.
- **Error keeps the captcha (functions.js:1083).** The `$.ajax` error
  callback does not call `reset_captcha`, though spec 4.2 says the captcha
  is reissued after every submit attempt. `CaptchaReissuedOnEveryResponse`
  states it, and TLC finds it violated by `TransportError`.

### Bounds

- **Navigation layout.** Three sections of four units each, with a buffer
  of one unit (a quarter of the window height). This gives every kind of
  transition: a move within a section, a move to a neighbour, a move across
  two sections, and offsets at each buffered edge.
- **Navigation links.** Two menu items with the `scroll` class, one section
  with no menu item, and one `a.link-scroll` target.
- **Backgrounds.** One section uses the default background, so the fallback
  path of `SetSectionToActive` is explored (no run checks the background
  itself: with background changes on, it is assigned with the section).
- **Form requests.** Two requests in flight give every reordering of two
  replies.
- **Captcha timers.** Two pending reveal timers (`MaxReveals = 2`): enough
  for a second reset inside the first one's 500 ms, from any two of refresh,
  reply and popup removal.
- **Form values.** Each field has a blank, a valid and an invalid value, so
  every validation branch of both field types is taken.
- **Popup links.** There are three:
  - the gallery at section `Photos`;
  - the gallery with a class and no section;
  - the contact form.

  Together they cover a stale section, a class to remove, lightbox renaming
  and a popup form. Two pending timers allow a close, reopen and close
  before the first timer fires.
- **Menu slides.** One slide may wait behind the running one
  (`MaxSlides = 1`): enough for a click during a slide and for a resize
  during either.
- **Lazy images.** Two sections and three images; the first (taller) and
  second images are in the first section, the last in document order is in
  the second. The first section fits the window until its taller image
  has loaded, so the order of loads matters.
- **Effects queue.** Up to three effects queued by submits, with two
  requests in flight. This is enough for a submit during the 10 s delay,
  followed by a reply.

### Fairness

No module assumes fairness. The only progress the code guarantees is that
a jQuery effect or a `setTimeout` callback eventually runs; a leads-to
property under weak fairness of exactly that action (a hidden captcha is
eventually shown, a success banner eventually hides) holds as soon as the
one line that sets the timer exists, so it says nothing a reader of that
line does not see. Every module checks safety; the timer races are checked
as safety (`CaptchaRevealedAfterOwnDelay`, `AutoHideClearsOwnMessage`).

## 4. Plan for later sittings

1. Compose `PopupModal` with `FormPipeline`, with the popup form as a
   second instance. The page form already receives `reset_captcha()` of the
   removal timer as `PopupRemovalReset`; the composition would tie it to the
   popup's close.
2. Liveness of the navigation controller (the scroll session ends), under
   fairness of the animation and scrollstop timers.

## 5. Not modelled

- Layout arithmetic other than the content position: carousel and tab heights, modal
  centring and backdrop height.
- Owl carousels and videos inside the popup.
- Visual effects and the IE9 placeholder shim.
- Third-party widget initialisation.
- The PHP endpoints. The server is represented only by the set of reply
  bodies.

None of these keep control state that a property could distinguish beyond
pixel values or styles.
