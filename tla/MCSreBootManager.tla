-------------------------- MODULE MCSreBootManager --------------------------
(* One internal disk, one USB stick, one firmware volume and the RAM disk. *)
(* The configurations vary each builder option and each policy choice.     *)
EXTENDS SreBootManager

MCPath(d, f) == [dev |-> d, file |-> f]
MCMainOs == MCPath("disk", "os")
MCSreApp == MCPath("fv", "default")
MCFrontpage == MCPath("fv", "os")

MCBootOrders ==
  {<<>>, <<MCPath("usb", "default")>>,
   <<MCPath("disk", "default"), MCPath("usb", "os")>>}
MCFileSystems == <<"disk", "usb">>
MCLoaderPaths == <<"os", "default">>

NoFallback == [approved |-> {}, removable |-> FALSE, sbDisabled |-> FALSE,
               setupMode |-> FALSE]
InternalOnly == [NoFallback EXCEPT !.approved = {"disk"},
                                   !.sbDisabled = TRUE]
Removable == [NoFallback EXCEPT !.removable = TRUE, !.setupMode = TRUE]

MCConfigs ==
  {[sreApp |-> TRUE, frontpage |-> FALSE, bpFallback |-> TRUE,
    capsules |-> TRUE, policy |-> Removable],
   [sreApp |-> FALSE, frontpage |-> TRUE, bpFallback |-> FALSE,
    capsules |-> FALSE, policy |-> InternalOnly],
   [sreApp |-> FALSE, frontpage |-> FALSE, bpFallback |-> TRUE,
    capsules |-> TRUE, policy |-> NoFallback]}
=============================================================================
