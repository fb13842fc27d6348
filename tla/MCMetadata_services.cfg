SPECIFICATION Spec
CONSTANTS
    Listings <- MCListings
    Texts <- MCTexts
    Documents <- MCDocuments
    Virtuals = {"kvm", "gce", "physical"}
INVARIANTS MetadataIsServed FailureDropsMetadata GceIsTheDocument
CHECK_DEADLOCK FALSE
