SPECIFICATION Spec
CONSTANTS
  None = None
  Width = 2
  Resources = {"firewalls", "blobs", "buckets", "listeners", "lb_instances", "link_features", "actions", "addresses", "instance_profiles", "hardware_profiles", "drivers", "instance_states", "images", "keys", "realms", "storage_volumes", "storage_snapshots", "metrics"}
INVARIANTS
  TypeOK
  ResultWhole
  NothingDangling
  FieldsNearby
  LeftoversKnown
