SPECIFICATION Spec
CONSTANT VendorConfigs <- MCVendor
INVARIANT AcceptedIsLinked
PROPERTIES IdsIdentifyFunctions VendorConfigReflects
