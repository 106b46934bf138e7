-------------------------- MODULE MCBootDispatcher --------------------------
(* The instance of MCSreBootManager, and for SimpleBootManager a platform  *)
(* without a hotkey, one with, and one whose hotkey list is empty.         *)
EXTENDS MCSreBootManager, BootDispatcher

MCSimpleConfigs ==
  {[devices |-> <<MCPath("disk", "os")>>, hotkey |-> FALSE,
    hotkey_devices |-> <<>>],
   [devices |-> <<MCPath("disk", "os"), MCPath("disk", "default")>>,
    hotkey |-> TRUE,
    hotkey_devices |-> <<MCPath("usb", "default"), MCPath("fv", "os")>>],
   [devices |-> <<MCPath("usb", "os")>>, hotkey |-> TRUE,
    hotkey_devices |-> <<>>]}
=============================================================================
