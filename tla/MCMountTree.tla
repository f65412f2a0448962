----------------------------- MODULE MCMountTree -----------------------------
(* A first stage for TLC, with mounts at the root and below other mounts.   *)
EXTENDS MountTree

MCNames ==
  {"paralloid_ramdisk", "paralloid_oldroot", "target_tmp", "target", "debug_ramdisk", "proc",
   "config", "dev", "tmp", "sys", "fs", "pstore", "selinux", "product", "pts", "mnt", "vendor",
   "efs", "prism", "system_ext", "mntRAM", "etc", "selinux_sha256", "fstab"}
MCAlways == {<<"dev">>, <<"sys">>, <<"sys", "selinux">>, <<"mnt">>}
MCFirstStage ==
  << <<"dev">>, <<"dev", "pts">>, <<"mnt">>, <<"sys">>, <<"sys", "selinux">>,
     <<"vendor">>, <<"mnt", "efs">>, <<"prism">> >>
MCPartitions == << <<"system_ext">>, <<"product">> >>
MCSkippable  == Range(MCPartitions) \union {<<"vendor">>, <<"mnt">>}

(* A checksum below the product image and an fstab below a mount of the    *)
(* first stage.                                                            *)
MCOverridden ==
  << <<"product", "etc", "selinux_sha256">>, <<"vendor", "etc", "fstab">> >>

MCTargetDirs == {<<d>> : d \in {"dev", "mnt", "sys", "vendor", "prism", "product", "system_ext"}}
=============================================================================
