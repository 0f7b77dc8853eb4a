------------------------------- MODULE Panel -------------------------------
(* di.c: the display controller, the DSI link, the panel and its backlight.

   V0 is the backlight, V1 its enable, V2 the panel's reset, I0 and I1 its +5 V
   and -5 V (all but aula, whose panel is OLED).  soc.var.panel is _display_id
   as far as the code tells panels apart, "" before one is decoded; glass is the
   panel that is built in; aula is nx_aula; video whether frames are sent;
   glow the backlight's duty and window what the controller shows. *)
EXTENDS Rails

Panels == {"", "jdi", "auo62", "inl62", "known55", "sam", "other"}

\* What a command needs while no frames are sent.
dsi_cmd(where) == <<Tell(where)>>
\* The reply is asked for between two frames if there are any.
display_dsi_read(video) ==
    If(video, <<Use({"DISP1"}, "display_dsi_read"), Vblank("display_dsi_read")>>)
    \o dsi_cmd("display_dsi_read")
    \o If(video, <<Vblank("display_dsi_read")>>)
display_dsi_write == dsi_cmd("display_dsi_write")
display_dsi_vblank_write(where) ==
    <<Use({"DISP1"}, where), Vblank(where)>> \o dsi_cmd(where) \o <<Vblank(where)>>

\* A panel that did not answer in three tries is taken for one of aula's there.
Decoded(answered) ==
    IF answered THEN soc.var.glass ELSE IF soc.var.hw = "aula" THEN "sam" ELSE "other"
display_set_decoded_panel_id(answered) ==
    <<SetVar("aula", soc.var.hw = "aula"), SetVar("panel", Decoded(answered))>>

lcd_power_on_swapped ==    \* mutant: the reset is released before the rails
    IF soc.var.hw = "aula" THEN OutputPin({"V2"})
    ELSE OutputPin({"I0", "I1"}) \o OutputPin({"V0", "V1", "V2"}) \o gpio_write({"V2"}, TRUE)
         \o gpio_write({"I0"}, TRUE) \o <<Settle>> \o gpio_write({"I1"}, TRUE) \o <<Settle>>
         \o gpio_write({"V1"}, TRUE)
\* The pins of the panel: reset, +5 V, -5 V, backlight.
lcd_power_on ==
    IF soc.var.hw = "aula" THEN OutputPin({"V2"})
    ELSE OutputPin({"I0", "I1"}) \o gpio_write({"I0"}, TRUE) \o <<Settle>> \o gpio_write({"I1"}, TRUE) \o <<Settle>>
         \o OutputPin({"V0", "V1", "V2"}) \o gpio_write({"V1"}, TRUE)
\* From the panel's id to the first frame.  tries: reads of the id that fail.
display_init_panel(tries) ==
    display_dsi_read(FALSE) \o If(tries >= 1, display_dsi_read(FALSE)) \o If(tries >= 2, display_dsi_read(FALSE))
    \o <<SetVar("panel", Decoded(tries < 3))>>
    \o dsi_cmd("display_init") \o dsi_cmd("display_init")
    \o <<Use({"DSI", "DISP1", "MIPI_CAL"}, "display_init"), SetVar("video", TRUE)>>
display_init(tries) ==
    <<SetVar("aula", soc.var.hw = "aula")>>
    \o If("DISP1" \in soc.clk, <<Call("display_hw_end", soc.var.hw = "aula")>>)
    \o If(soc.var.chip = "t210b01",
          <<Call("set_voltage", <<"sd2", 1325000>>), Rmw("sd2", "on", TRUE), Call("regulator_enable", <<"sd2", TRUE>>)>>)
    \o RailOn("ldo0", 1200000)
    \o If(soc.var.chip = "t210", <<Call("config_gpio", <<7, TRUE>>)>>)
    \o <<Free({"MIPI_CAL", "DSI"}), On({"MIPI_CAL", "DSI"}), Free({"HOST1X", "DISP1"}), On({"HOST1X", "DISP1"}),
         On({"UART_FST_MIPI_CAL"}), On({"DSIA_LP"})>>
    \o lcd_power_on
    \o <<Use({"MIPI_CAL"}, "display_init"), SetAt("source", "DISP1", "D"), PllOn("D"),
         Use({"DISP1", "DSI"}, "display_init"), Settle>>
    \o gpio_write({"V2"}, TRUE) \o <<Settle>> \o display_init_panel(tries)

display_backlight_pwm_init ==
    If(soc.var.panel # "sam",
       clock_enable("PWM") \o <<Use({"PWM"}, "display_backlight_pwm_init")>> \o gpio_config({"V0"}, FALSE))
display_backlight(on) == gpio_write({"V0"}, on)
display_dsi_backlight_brightness(level) ==
    display_dsi_vblank_write("brightness") \o <<SetVar("glow", level)>>
\* The duty is stepped from the old one, and the PWM stopped at 0.
display_pwm_backlight_brightness(level) ==
    <<Use({"PWM"}, "brightness"), SetVar("glow", level)>>
display_backlight_brightness(level) ==
    IF soc.var.panel # "sam" THEN display_pwm_backlight_brightness(level)
    ELSE display_dsi_backlight_brightness(level)
\* The PWM is read whatever the panel.
display_get_backlight_brightness == <<Use({"PWM"}, "get_brightness")>>

\* The panel is told, then its video stopped, then it is put to sleep.
display_panel_end ==
    <<Call("brightness", 0), Use({"DSI", "DISP1"}, "display_end"), SetVar("video", FALSE)>>
    \o If(soc.var.panel \in {"jdi", "auo62", "known55"}, dsi_cmd("display_end"))
    \o dsi_cmd("display_end")
display_hw_end_unordered(aula) ==    \* mutant: +5 V goes before -5 V
    gpio_write({"V2"}, FALSE) \o <<Settle>>
    \o If(~aula, gpio_write({"I0"}, FALSE) \o <<Settle>> \o gpio_write({"I1"}, FALSE) \o <<Settle>>)
    \o <<Hold({"MIPI_CAL", "DSI"}), Off({"MIPI_CAL", "DSI"}), Hold({"HOST1X", "DISP1"}), Off({"HOST1X", "DISP1"}),
         SetVar("video", FALSE), Use({"DSI"}, "pads")>>
    \o If(~aula, gpio_config({"V0"}, FALSE))
\* Stopping the clocks stops the frames; the pads are written after that.
display_hw_end(aula) ==
    gpio_write({"V2"}, FALSE) \o <<Settle>>
    \o If(~aula, gpio_write({"I1"}, FALSE) \o <<Settle>> \o gpio_write({"I0"}, FALSE) \o <<Settle>>)
    \o <<Hold({"MIPI_CAL", "DSI"}), Off({"MIPI_CAL", "DSI"}), Hold({"HOST1X", "DISP1"}), Off({"HOST1X", "DISP1"}),
         SetVar("video", FALSE), Use({"DSI"}, "pads")>>
    \o If(~aula, gpio_config({"V0"}, FALSE))
display_end == display_panel_end \o <<Call("display_hw_end", soc.var.aula)>>

(* What is shown. *)
display_color_screen ==
    <<Use({"DISP1"}, "display_color_screen"), SetVar("window", "color"), Settle>>
    \o IF soc.var.panel # "sam" THEN display_backlight(TRUE) ELSE <<Call("brightness", 255)>>
display_init_framebuffer(kind) ==
    <<Use({"DISP1"}, "display_init_framebuffer"), SetVar("window", kind), Settle>>
display_console(on) == <<Use({"DISP1"}, "display_console"), SetVar("console", on)>>
display_cursor(on) == <<Use({"DISP1"}, "display_cursor"), SetVar("cursor", on)>>
=============================================================================
